---------------------------- MODULE ReadingProofs ----------------------------
(***************************************************************************)
(* Proofs about Reading, for every value of the bounds, every set of       *)
(* events, documents and nodes and every proposal: the event stream, the   *)
(* pages of the timeline, topic recall and the evolution graph.            *)
(***************************************************************************)
EXTENDS Reading, FiniteSetTheorems, SequenceTheorems, TLAPS

----------------------------------------------------------------------------
(* The event stream: what the client has, what is in flight and what the   *)
(* generator has fetched are, in this order, one run of consecutive        *)
(* sequence numbers that starts at 1 and does not go beyond the log.       *)

\* The run is unbroken up to the generator's cursor while a stream is open.
Consecutive(s, n) == \A i \in 1 .. Len(s) : s[i] = n + i

StreamInv ==
    /\ TypeOK
    /\ Consecutive(got, 0)
    /\ Len(got) <= log
    /\ pc # "gone" =>
          /\ Consecutive(wire, Len(got))
          /\ current = Len(got) + Len(wire)
          /\ current <= log
    /\ pc = "gone" => wire = << >>
    /\ pc = "checking" =>
          /\ Consecutive(batch, current)
          /\ current + Len(batch) <= log
    /\ pc = "done" \/ ended => ~active

\* What the query returns continues the cursor and stays inside the log.
LEMMA EventsAfterFact ==
    ASSUME BatchLimit \in Nat, log \in Nat, NEW c \in Nat, c <= log
    PROVE  /\ EventsAfter(c) \in Seq(Nat)
           /\ Consecutive(EventsAfter(c), c)
           /\ c + Len(EventsAfter(c)) <= log
<1> DEFINE n == IF log - c < BatchLimit THEN log - c ELSE BatchLimit
<1>1. n \in Nat /\ c + n <= log
  OBVIOUS
<1>2. EventsAfter(c) = [i \in 1 .. n |-> c + i]
  BY DEF EventsAfter
<1> HIDE DEF n
<1>3. EventsAfter(c) \in Seq(Nat) /\ Len(EventsAfter(c)) = n
  BY <1>1, <1>2
<1> QED
  BY <1>1, <1>2, <1>3 DEF Consecutive

LEMMA StreamInit == Init => StreamInv
<1> SUFFICES ASSUME Init PROVE StreamInv
  OBVIOUS
<1>1. << >> \in Seq(Nat) /\ Len(<< >>) = 0
  OBVIOUS
<1>2. active \in BOOLEAN /\ ended \in BOOLEAN
  BY Zenon DEF Init
<1>3. log \in 0 .. MaxEvents /\ connects \in 0 .. MaxConnects
  BY StreamAssumption DEF Init, StreamAssumption
<1>4. TypeOK
  BY <1>1, <1>2, <1>3, Zenon DEF Init, TypeOK
<1>5. Consecutive(got, 0) /\ Len(got) <= log
  BY <1>1 DEF Init, Consecutive
<1> QED
  BY <1>4, <1>5 DEF Init, StreamInv

LEMMA StreamNext == StreamInv /\ [Next]_vars => StreamInv'
<1> SUFFICES ASSUME StreamInv, [Next]_vars PROVE StreamInv'
  OBVIOUS
<1> USE StreamAssumption DEF StreamAssumption
<1> USE DEF jobVars, serverVars, clientVars
<1>1. CASE Announce
  BY <1>1 DEF Announce, StreamInv, TypeOK, Consecutive
<1>2. CASE CloseAnnounced
  <2>1. active' \in BOOLEAN
    BY <1>2, Zenon DEF CloseAnnounced
  <2>2. log' \in 0 .. MaxEvents
    BY <1>2 DEF CloseAnnounced, StreamInv, TypeOK
  <2>3. TypeOK'
    BY <1>2, <2>1, <2>2 DEF CloseAnnounced, StreamInv, TypeOK
  <2> QED
    BY <1>2, <2>3 DEF CloseAnnounced, StreamInv, TypeOK, Consecutive
<1>3. CASE CloseSilently
  BY <1>3 DEF CloseSilently, StreamInv, TypeOK, Consecutive
<1>4. CASE Connect
  \* The client resumes from the last id it received, which is Len(got).
  <2>1. LastEventId = Len(got)
    BY DEF LastEventId, StreamInv, TypeOK, Consecutive
  <2> QED
    BY <1>4, <2>1 DEF Connect, StreamInv, TypeOK, Consecutive
<1>5. CASE ReadEvents
  <2>1. /\ EventsAfter(current) \in Seq(Nat)
        /\ Consecutive(EventsAfter(current), current)
        /\ current + Len(EventsAfter(current)) <= log
    BY <1>5, EventsAfterFact DEF ReadEvents, StreamInv, TypeOK
  <2> QED
    BY <1>5, <2>1 DEF ReadEvents, StreamInv, TypeOK, Consecutive
<1>6. CASE CheckActive
  <2>1. /\ wire' = wire \o batch
        /\ wire' \in Seq(Nat)
        /\ Len(wire') = Len(wire) + Len(batch)
    BY <1>6 DEF CheckActive, StreamInv, TypeOK
  <2>2. Consecutive(wire', Len(got))
    BY <1>6, <2>1 DEF CheckActive, StreamInv, TypeOK, Consecutive
  <2>3. TypeOK'
    BY <1>6, <2>1 DEF CheckActive, StreamInv, TypeOK
  <2> QED
    BY <1>6, <2>1, <2>2, <2>3 DEF CheckActive, EndsStream, StreamInv, TypeOK, Consecutive
<1>7. CASE Receive
  \* Nothing is in flight without a connection, so the cursor facts hold.
  <2>1. pc # "gone"
    BY <1>7 DEF Receive, StreamInv
  <2>2. /\ got' \in Seq(Nat) /\ Len(got') = Len(got) + 1
        /\ wire' \in Seq(Nat) /\ Len(wire') = Len(wire) - 1
    BY <1>7 DEF Receive, StreamInv, TypeOK
  <2>3. Head(wire) = Len(got) + 1
    BY <1>7, <2>1 DEF Receive, StreamInv, TypeOK, Consecutive
  <2>4. Consecutive(got', 0)
    BY <1>7, <2>2, <2>3 DEF Receive, StreamInv, TypeOK, Consecutive
  <2>5. Consecutive(wire', Len(got'))
    BY <1>7, <2>1, <2>2 DEF Receive, StreamInv, TypeOK, Consecutive
  <2> QED
    BY <1>7, <2>1, <2>2, <2>4, <2>5 DEF Receive, StreamInv, TypeOK, Consecutive
<1>8. CASE ReceiveEnd
  BY <1>8 DEF ReceiveEnd, StreamInv, TypeOK, Consecutive
<1>9. CASE Disconnect
  BY <1>9 DEF Disconnect, StreamInv, TypeOK, Consecutive
<1>10. CASE UNCHANGED vars
  BY <1>10 DEF vars, StreamInv, TypeOK, Consecutive
<1> QED
  BY <1>1, <1>2, <1>3, <1>4, <1>5, <1>6, <1>7, <1>8, <1>9, <1>10 DEF Next

\* Over any number of broken connections the client receives the beginning
\* of the log without a gap or a repetition (api/sse.py, repositories/jobs.py
\* list_events_after), and is told the end only of a closed job.
THEOREM Delivery == Spec => [](TypeOK /\ Delivered)
<1>1. StreamInv => TypeOK /\ Delivered
  BY DEF StreamInv, Delivered, NoGap, EndIsFinal, TypeOK, Consecutive
<1> QED
  BY <1>1, StreamInit, StreamNext, PTL DEF Spec

\* Among bounded numbers there is a greatest one.
LEMMA MaxExists ==
    ASSUME NEW S, NEW B \in Nat, S # {}, S \subseteq 0 .. B
    PROVE  \E n \in S : \A m \in S : m <= n
<1> DEFINE R == StrictSubsetOrdering(0 .. B)
           T == {(n + 1) .. B : n \in S}
<1>1. T \subseteq SUBSET (0 .. B) /\ T # {}
  <2>1. \A n \in S : (n + 1) .. B \subseteq 0 .. B
    OBVIOUS
  <2> QED
    BY <2>1
<1>2. IsWellFoundedOn(R, SUBSET (0 .. B))
  BY FS_StrictSubsetOrderingWellFounded, FS_FiniteSubsetsOfFinite, FS_Interval, 0 \in Int, B \in Int, Zenon
<1> HIDE DEF R
<1>3. PICK t \in T : \A y \in T : ~ (<<y, t>> \in R)
  BY <1>1, <1>2, WFMin, Zenon
<1>4. PICK n \in S : t = (n + 1) .. B
  BY <1>3
<1>5. \A m \in S : m <= n
  <2> SUFFICES ASSUME NEW m \in S, ~ (m <= n)
               PROVE  FALSE
    OBVIOUS
  <2>1. (m + 1) .. B \in T
    OBVIOUS
  <2>2. (m + 1) .. B \subseteq (n + 1) .. B /\ m \in (n + 1) .. B /\ m \notin (m + 1) .. B
    OBVIOUS
  <2>3. <<(m + 1) .. B, t>> \in R
    BY <1>1, <1>4, <2>1, <2>2 DEF R, StrictSubsetOrdering
  <2> QED
    BY <1>3, <2>1, <2>3
<1> QED
  BY <1>5

(* Topic recall.                                                           *)

LEMMA TopicCardinality == \A S : Topic!Cardinality(S) = Cardinality(S)
BY Zenon DEF Topic!Cardinality, Cardinality

\* The documents before the offset were delivered, or a shift put them there.
RecallInv ==
    /\ \E n \in Nat : DOMAIN ordered \subseteq 1 .. n
    /\ cursor = [offset |-> cursor.offset, seen |-> cursor.seen]
    /\ cursor.offset \in Nat
    /\ cursor.seen = delivered
    /\ again = {}
    /\ \A i \in DOMAIN ordered : i <= cursor.offset => ordered[i] \in delivered \cup jumped
    /\ exhausted => \A i \in DOMAIN ordered : ordered[i] \in delivered \cup jumped

LEMMA NumbersFinite ==
    ASSUME NEW n \in Nat, NEW S \in SUBSET (1 .. n)
    PROVE  IsFiniteSet(S)
<1>1. IsFiniteSet(1 .. n)
  BY FS_Interval
<1> QED
  BY <1>1, FS_Subset

\* A ranking is numbered.
LEMMA RankingIs ==
    ASSUME NEW S, S \subseteq Documents, NEW r \in Topic!Rankings(S)
    PROVE  \E n \in Nat : DOMAIN r \subseteq 1 .. n
<1>1. IsFiniteSet(S)
  BY ReadingAssumption, FS_Subset, Zenon DEF Topic!RecallAssumption, Topic!IsFiniteSet, IsFiniteSet
<1>2. Cardinality(S) \in Nat
  BY <1>1, FS_CardinalityType
<1>3. DOMAIN r = 1 .. Cardinality(S)
  BY TopicCardinality DEF Topic!Rankings
<1> QED
  BY <1>2, <1>3

LEMMA RecallInit ==
    ASSUME Topic!Init
    PROVE  RecallInv
<1>1. PICK S \in SUBSET Documents : ordered \in Topic!Rankings(S)
  BY DEF Topic!Init
<1>2. \E n \in Nat : DOMAIN ordered \subseteq 1 .. n
  BY <1>1, RankingIs
<1> QED
  BY <1>2 DEF Topic!Init, RecallInv

LEMMA ShiftInv ==
    ASSUME RecallInv, Topic!Shift
    PROVE  RecallInv'
<1>1. PICK S \in SUBSET Documents : ordered' \in Topic!Rankings(S)
  BY DEF Topic!Shift
<1>2. \E n \in Nat : DOMAIN ordered' \subseteq 1 .. n
  BY <1>1, RankingIs
<1>3. /\ jumped' = jumped \cup (Topic!Before(ordered') \ Topic!Before(ordered))
      /\ ~exhausted
      /\ UNCHANGED <<cursor, delivered, again, exhausted>>
  BY DEF Topic!Shift
<1>4. \A i \in DOMAIN ordered' : i <= cursor.offset => ordered'[i] \in delivered \cup jumped'
  <2> SUFFICES ASSUME NEW i \in DOMAIN ordered', i <= cursor.offset,
                      ordered'[i] \in Topic!Before(ordered)
               PROVE  ordered'[i] \in delivered \cup jumped
    BY <1>3 DEF Topic!Before
  <2> QED
    BY DEF RecallInv, Topic!Before
<1> QED
  BY <1>2, <1>3, <1>4 DEF RecallInv

LEMMA RecallPageInv ==
    ASSUME RecallInv, Topic!RecallPage
    PROVE  RecallInv'
<1> DEFINE eligible == Topic!Eligible(ordered, cursor)
           taken == Topic!Taken(eligible)
           page == {ordered[i] : i \in taken}
           offset == IF taken = {} THEN cursor.offset
                     ELSE CHOOSE i \in taken : \A j \in taken : j <= i
           rest == {i \in DOMAIN ordered : i > offset /\ ordered[i] \notin cursor.seen}
<1>1. PICK n \in Nat : DOMAIN ordered \subseteq 1 .. n
  BY DEF RecallInv
<1>2. /\ eligible = {i \in DOMAIN ordered : i > cursor.offset /\ ordered[i] \notin delivered}
      /\ eligible \subseteq 1 .. n
  BY <1>1 DEF Topic!Eligible, RecallInv
<1>3. /\ taken \subseteq eligible
      /\ \A i \in taken : Cardinality({j \in eligible : j < i}) < batch_size
      /\ \A i \in eligible : Cardinality({j \in eligible : j < i}) < batch_size => i \in taken
  <2>1. taken = {i \in eligible : Topic!Cardinality({j \in eligible : j < i}) < batch_size}
    BY DEF Topic!Taken
  <2>2. \A i : Topic!Cardinality({j \in eligible : j < i}) = Cardinality({j \in eligible : j < i})
    BY TopicCardinality
  <2> HIDE DEF taken
  <2> QED
    BY <2>1, <2>2, Zenon
<1>0. taken \subseteq 1 .. n
  BY <1>2, <1>3
<1>4. /\ delivered' = delivered \cup page
      /\ again' = again \cup (delivered \cap page)
      /\ exhausted' = (rest = {})
      /\ cursor' = [offset |-> offset, seen |-> cursor.seen \cup page]
      /\ UNCHANGED <<ordered, jumped>>
  BY DEF Topic!RecallPage
<1> HIDE DEF eligible
\* What comes before a document of the page is of the page.
<1>5. ASSUME NEW i \in taken, NEW j \in eligible, j < i
      PROVE  j \in taken
  <2> DEFINE below(k) == {m \in eligible : m < k}
  <2>1. i \in Nat /\ j \in Nat
    BY <1>0, <1>2, <1>5
  <2>2. below(j) \subseteq below(i)
    BY <1>2, <1>5, <2>1
  <2>3. IsFiniteSet(below(i)) /\ IsFiniteSet(below(j))
    BY <1>1, <1>2, NumbersFinite
  <2>4. Cardinality(below(j)) <= Cardinality(below(i))
    BY <2>2, <2>3, FS_Subset
  <2>5. Cardinality(below(j)) \in Nat /\ Cardinality(below(i)) \in Nat /\ batch_size \in Nat
    BY <2>3, FS_CardinalityType, ReadingAssumption DEF Topic!RecallAssumption
  <2>6. Cardinality(below(i)) < batch_size
    BY <1>3
  <2> HIDE DEF below
  <2>7. Cardinality(below(j)) < batch_size
    BY <2>4, <2>5, <2>6
  <2> QED
    BY <1>3, <2>7 DEF below
<1>6. /\ offset \in Nat /\ cursor.offset <= offset
      /\ \A i \in taken : i <= offset
      /\ \A i \in eligible : i <= offset => i \in taken
  <2>1. CASE taken = {}
    <3>1. offset = cursor.offset
      BY <2>1
    <3> QED
      BY <1>2, <2>1, <3>1 DEF RecallInv
  <2>2. CASE taken # {}
    <3>1. taken \subseteq 0 .. n
      BY <1>0
    <3>2. \E i \in taken : \A j \in taken : j <= i
      BY <2>2, <3>1, MaxExists
    <3>3. offset \in taken /\ \A j \in taken : j <= offset
      <4> HIDE DEF taken
      <4> QED
        BY <2>2, <3>2
    <3>4. offset \in eligible /\ offset \in Nat /\ offset > cursor.offset
      BY <1>0, <1>2, <1>3, <3>3 DEF RecallInv
    <3>5. \A i \in eligible : i <= offset => i \in taken
      BY <1>2, <1>5, <3>1, <3>3, <3>4
    <3> QED
      BY <3>3, <3>4, <3>5 DEF RecallInv
  <2> QED
    BY <2>1, <2>2
<1>7. page \cap delivered = {}
  BY <1>2, <1>3
<1> HIDE DEF taken, offset
<1>8. \A i \in DOMAIN ordered : i <= offset => ordered[i] \in delivered' \cup jumped
  <2> SUFFICES ASSUME NEW i \in DOMAIN ordered, i <= offset
               PROVE  ordered[i] \in delivered' \cup jumped
    OBVIOUS
  <2>1. CASE i <= cursor.offset
    BY <1>4, <2>1 DEF RecallInv
  <2>2. CASE i \in eligible
    BY <1>4, <1>6, <2>2
  <2>3. CASE ~ (i <= cursor.offset) /\ i \notin eligible
    <3>1. i > cursor.offset
      BY <1>1, <2>3 DEF RecallInv
    <3> QED
      BY <1>2, <1>4, <2>3, <3>1
  <2> QED
    BY <2>1, <2>2, <2>3
<1>9. exhausted' => \A i \in DOMAIN ordered : ordered[i] \in delivered' \cup jumped
  <2> SUFFICES ASSUME rest = {}, NEW i \in DOMAIN ordered
               PROVE  ordered[i] \in delivered' \cup jumped
    BY <1>4
  <2>1. CASE i <= offset
    BY <1>8, <2>1
  <2>2. CASE i > offset
    BY <1>4, <2>2 DEF RecallInv
  <2> QED
    BY <1>1, <1>6, <2>1, <2>2
<1> QED
  BY <1>1, <1>4, <1>6, <1>7, <1>8, <1>9 DEF RecallInv

LEMMA RecallNext == RecallInv /\ [Topic!Next]_(Topic!vars) => RecallInv'
<1> SUFFICES ASSUME RecallInv, [Topic!Next]_(Topic!vars)
             PROVE  RecallInv'
  OBVIOUS
<1>1. CASE UNCHANGED Topic!vars
  BY <1>1 DEF Topic!vars, RecallInv
<1> QED
  BY <1>1, ShiftInv, RecallPageInv DEF Topic!Next

LEMMA RecallInvImplies == RecallInv => PassedOverOnlyByJump
BY DEF RecallInv, PassedOverOnlyByJump, Topic!PassedOverOnlyByJump, Topic!Ranked

-----------------------------------------------------------------------------
(* The timeline.                                                           *)

LEMMA DatesCardinality == \A S : Dates!Cardinality(S) = Cardinality(S)
BY Zenon DEF Dates!Cardinality, Cardinality

LEMMA DatesAssumption ==
    /\ Events \subseteq Nat /\ IsFiniteSet(Events)
    /\ Starts \subseteq Int /\ Unknown \notin Starts
    /\ Limit \in Nat \ {0}
<1>1. Dates!TimelineAssumption
  BY ReadingAssumption
<1>2. IsFiniteSet(Events)
  BY <1>1, Zenon DEF Dates!TimelineAssumption, Dates!IsFiniteSet, IsFiniteSet
<1> QED
  BY <1>1, <1>2 DEF Dates!TimelineAssumption

Keys == {0, 1} \X Int \X Nat

LEMMA BeforeIsAnOrder ==
    /\ \A a \in Keys : ~ Dates!Before(a, a)
    /\ \A a, b, c \in Keys : Dates!Before(a, b) /\ Dates!Before(b, c) => Dates!Before(a, c)
    /\ \A a, b \in Keys : a # b => Dates!Before(a, b) \/ Dates!Before(b, a)
<1>1. \A a \in Keys : /\ a[1] \in Int /\ a[2] \in Int /\ a[3] \in Int
                      /\ a = <<a[1], a[2], a[3]>>
  BY DEF Keys
<1>2. ASSUME NEW a \in Keys, NEW b \in Keys, a # b
      PROVE  a[1] # b[1] \/ a[2] # b[2] \/ a[3] # b[3]
  BY <1>1, <1>2
<1>3. \A a \in Keys : ~ Dates!Before(a, a)
  BY <1>1 DEF Dates!Before
<1>4. \A a, b, c \in Keys : Dates!Before(a, b) /\ Dates!Before(b, c) => Dates!Before(a, c)
  BY <1>1 DEF Dates!Before
<1>5. \A a, b \in Keys : a # b => Dates!Before(a, b) \/ Dates!Before(b, a)
  BY <1>1, <1>2 DEF Dates!Before
<1> QED
  BY <1>3, <1>4, <1>5

\* A finite set of keys has a greatest and a least one.
LEMMA GreatestKey ==
    ASSUME NEW S \in SUBSET Keys, IsFiniteSet(S), S # {}
    PROVE  \E k \in S : \A j \in S : j = k \/ Dates!Before(j, k)
<1> DEFINE R == StrictSubsetOrdering(S)
           above(k) == {j \in S : Dates!Before(k, j)}
           T == {above(k) : k \in S}
<1>1. T \subseteq SUBSET S /\ T # {}
  OBVIOUS
<1>2. IsWellFoundedOn(R, SUBSET S)
  BY FS_StrictSubsetOrderingWellFounded, FS_FiniteSubsetsOfFinite, Zenon
<1> HIDE DEF R
<1>3. PICK t \in T : \A y \in T : ~ (<<y, t>> \in R)
  BY <1>1, <1>2, WFMin, Zenon
<1>4. PICK k \in S : t = above(k)
  BY <1>3
<1>5. ASSUME NEW j \in S, j # k, ~ Dates!Before(j, k)
      PROVE  FALSE
  <2>1. Dates!Before(k, j)
    BY <1>4, <1>5, BeforeIsAnOrder
  <2>2. above(j) \subseteq above(k) /\ j \in above(k) /\ j \notin above(j)
    BY <1>4, <2>1, BeforeIsAnOrder
  <2>3. above(j) \in T
    OBVIOUS
  <2>4. <<above(j), t>> \in R
    BY <1>1, <1>4, <2>2, <2>3 DEF R, StrictSubsetOrdering
  <2> QED
    BY <1>3, <2>3, <2>4
<1> QED
  BY <1>5

LEMMA LeastKey ==
    ASSUME NEW S \in SUBSET Keys, IsFiniteSet(S), S # {}
    PROVE  \E k \in S : \A j \in S : ~ Dates!Before(j, k)
<1> DEFINE R == StrictSubsetOrdering(S)
           below(k) == {j \in S : Dates!Before(j, k)}
           T == {below(k) : k \in S}
<1>1. T \subseteq SUBSET S /\ T # {}
  OBVIOUS
<1>2. IsWellFoundedOn(R, SUBSET S)
  BY FS_StrictSubsetOrderingWellFounded, FS_FiniteSubsetsOfFinite, Zenon
<1> HIDE DEF R
<1>3. PICK t \in T : \A y \in T : ~ (<<y, t>> \in R)
  BY <1>1, <1>2, WFMin, Zenon
<1>4. PICK k \in S : t = below(k)
  BY <1>3
<1>5. ASSUME NEW j \in S, Dates!Before(j, k)
      PROVE  FALSE
  <2>2. below(j) \subseteq below(k) /\ j \in below(k) /\ j \notin below(j)
    BY <1>4, <1>5, BeforeIsAnOrder
  <2>3. below(j) \in T
    OBVIOUS
  <2>4. <<below(j), t>> \in R
    BY <1>1, <1>4, <2>2, <2>3 DEF R, StrictSubsetOrdering
  <2> QED
    BY <1>3, <2>3, <2>4
<1> QED
  BY <1>5

\* The first Limit of a set of keys.
First(S) == {k \in S : Cardinality({j \in S : Dates!Before(j, k)}) < Limit}

\* All that come before one of them are among them, and without more than Limit
\* they are all.
LEMMA FirstKeys ==
    ASSUME NEW S \in SUBSET Keys, IsFiniteSet(S), NEW P, P = First(S)
    PROVE  /\ P \subseteq S
           /\ \A k \in P, j \in S : Dates!Before(j, k) => j \in P
           /\ Cardinality(S) > Limit => P # {}
           /\ ~ (Cardinality(S) > Limit) => P = S
<1> DEFINE below(k) == {j \in S : Dates!Before(j, k)}
<1>0. Limit \in Nat \ {0}
  BY DatesAssumption
<1>1. \A k : IsFiniteSet(below(k)) /\ Cardinality(below(k)) \in Nat
  <2> TAKE k
  <2>1. below(k) \in SUBSET S
    OBVIOUS
  <2> HIDE DEF below
  <2> QED
    BY <2>1, FS_Subset, FS_CardinalityType
<1>2. /\ P \subseteq S
      /\ \A k \in P : Cardinality(below(k)) < Limit
      /\ \A k \in S : Cardinality(below(k)) < Limit => k \in P
  BY Zenon DEF First
<1>3. ASSUME NEW k \in P, NEW j \in S, Dates!Before(j, k)
      PROVE  j \in P
  <2>1. below(j) \in SUBSET below(k)
    BY <1>2, <1>3, BeforeIsAnOrder
  <2> HIDE DEF below
  <2>2. Cardinality(below(j)) <= Cardinality(below(k))
    BY <1>1, <2>1, FS_Subset
  <2>3. Cardinality(below(j)) < Limit
    BY <1>0, <1>1, <1>2, <2>2
  <2> QED
    BY <1>2, <2>3
<1>4. ASSUME Cardinality(S) > Limit
      PROVE  P # {}
  <2>1. S # {}
    BY <1>0, <1>4, FS_EmptySet
  <2>2. PICK k \in S : \A j \in S : ~ Dates!Before(j, k)
    BY <2>1, LeastKey
  <2>3. below(k) = {}
    BY <2>2
  <2>4. Cardinality(below(k)) = 0
    BY <2>3, FS_EmptySet
  <2> QED
    BY <1>0, <1>2, <2>4
<1>5. ASSUME ~ (Cardinality(S) > Limit), NEW k \in S
      PROVE  k \in P
  <2>1. below(k) \in SUBSET (S \ {k})
    BY BeforeIsAnOrder
  <2>2. IsFiniteSet(S \ {k}) /\ Cardinality(S \ {k}) = Cardinality(S) - 1
    BY FS_RemoveElement
  <2> HIDE DEF below
  <2>3. Cardinality(below(k)) <= Cardinality(S \ {k})
    BY <2>1, <2>2, FS_Subset
  <2>4. Cardinality(S) \in Nat
    BY FS_CardinalityType
  <2>5. Cardinality(below(k)) < Limit
    BY <1>0, <1>1, <1>5, <2>2, <2>3, <2>4
  <2> QED
    BY <1>2, <2>5
<1> QED
  BY <1>2, <1>3, <1>4, <1>5

EventRows == [state : {"none", "begun", "committed"}, start : Starts \cup {Unknown},
              recorded : Nat, discovered : Nat]

WalkRows == [pc : {"idle", "reading", "read"}, sort : {"occurred", "discovered"},
             asOf : Nat, unknown : BOOLEAN, cursor : Keys \cup {<<>>},
             cards : SUBSET Events, again : SUBSET Events,
             first : SUBSET Events, late : SUBSET Events]

\* The events that have a date in the order of a walk.
Dated(e, w) == w.sort = "discovered" \/ events[e].start # Unknown

Shown(e) == Dates!Visible(e, walk)
Key(e) == Dates!SortKey(e, walk)

\* What a walk has shown lies up to its cursor, and what it saw at the start and
\* has not shown lies behind it; an event that was there at the start is seen
\* now as it was then.
TimelineInv ==
    /\ clock \in Nat
    /\ events \in [Events -> EventRows]
    /\ walk \in WalkRows
    /\ walk.again = {}
    /\ walk.pc = "idle" => walk.cards = {} /\ walk.asOf = 0
    /\ walk.pc # "idle" =>
          /\ \A e \in walk.cards : Shown(e)
          /\ \A e \in walk.first : Shown(e)
          /\ \A e \in Events : e \notin walk.late =>
                events[e].state = "committed" /\ (Shown(e) => e \in walk.first)
    /\ walk.pc = "reading" =>
          /\ walk.cursor = <<>> => walk.cards = {}
          /\ walk.cursor # <<>> =>
                /\ \A e \in walk.cards : ~ Dates!Before(walk.cursor, Key(e))
                /\ \A e \in walk.first : Dated(e, walk) =>
                      e \in walk.cards \/ Dates!Before(walk.cursor, Key(e))
    /\ walk.pc = "read" => \A e \in walk.first : Dated(e, walk) => e \in walk.cards

LEMMA KeyIs ==
    ASSUME events \in [Events -> EventRows], NEW e \in Events, NEW w
    PROVE  /\ Dates!SortKey(e, w) \in Keys
           /\ Dates!SortKey(e, w)[3] = e
           /\ Dated(e, w) <=> Dates!SortKey(e, w)[1] = 0
<1>1. /\ e \in Nat /\ events[e].discovered \in Int
      /\ events[e].start # Unknown => events[e].start \in Int
  <2>1. events[e] \in EventRows
    OBVIOUS
  <2>2. events[e].start \in Starts \cup {Unknown} /\ events[e].discovered \in Nat
    BY <2>1 DEF EventRows
  <2>3. Events \subseteq Nat /\ Starts \subseteq Int
    BY DatesAssumption
  <2>4. e \in Nat
    BY <2>3
  <2>5. events[e].discovered \in Int
    BY <2>2
  <2>6. events[e].start # Unknown => events[e].start \in Int
    BY <2>2, <2>3
  <2> QED
    BY <2>4, <2>5, <2>6
<1>2. CASE w.sort = "discovered"
  <2>1. Dates!SortKey(e, w) = <<0, events[e].discovered, e>>
    BY <1>2 DEF Dates!SortKey
  <2> QED
    BY <1>1, <1>2, <2>1 DEF Keys, Dated
<1>3. CASE w.sort # "discovered" /\ events[e].start = Unknown
  <2>1. Dates!SortKey(e, w) = <<1, 0, e>>
    BY <1>3 DEF Dates!SortKey
  <2> QED
    BY <1>1, <1>3, <2>1 DEF Keys, Dated
<1>4. CASE w.sort # "discovered" /\ events[e].start # Unknown
  <2>1. Dates!SortKey(e, w) = <<0, events[e].start, e>>
    BY <1>4 DEF Dates!SortKey
  <2> QED
    BY <1>1, <1>4, <2>1 DEF Keys, Dated
<1> QED
  BY <1>2, <1>3, <1>4

LEMMA TimelineInit ==
    ASSUME Dates!Init
    PROVE  TimelineInv
<1>1. Dates!NoEvent \in EventRows
  BY DEF Dates!NoEvent, EventRows
<1>2. Dates!NoWalk \in WalkRows
  BY DEF Dates!NoWalk, WalkRows
<1>3. /\ Dates!NoWalk.pc = "idle" /\ Dates!NoWalk.cards = {} /\ Dates!NoWalk.again = {}
      /\ Dates!NoWalk.asOf = 0
  BY DEF Dates!NoWalk
<1> QED
  BY <1>1, <1>2, <1>3 DEF Dates!Init, TimelineInv

\* Recording one event, which was not committed before the step.
LEMMA RecordingKeeps ==
    ASSUME TimelineInv, NEW e \in Events, events[e].state # "committed",
           events' = [events EXCEPT ![e] = events'[e]], events'[e] \in EventRows,
           UNCHANGED <<clock, walk>>
    PROVE  TimelineInv'
<1>1. /\ events \in [Events -> EventRows]
      /\ events' \in [Events -> EventRows]
      /\ \A x \in Events : x # e => events'[x] = events[x]
  BY DEF TimelineInv
<1>2. ~ Shown(e)
  BY DEF Shown, Dates!Visible
<1>3. \A x \in Events : x # e => /\ Shown(x)' <=> Shown(x)
                                 /\ Key(x)' = Key(x)
                                 /\ Dated(x, walk)' <=> Dated(x, walk)
  BY <1>1 DEF Shown, Dates!Visible, Key, Dates!SortKey, Dated
<1>4. walk.pc # "idle" =>
         /\ e \notin walk.cards /\ e \notin walk.first
         /\ e \in walk.late
  BY <1>2 DEF TimelineInv
<1>5. walk.cards \subseteq Events /\ walk.first \subseteq Events /\ walk' = walk /\ clock' = clock
  BY DEF TimelineInv, WalkRows
<1>6. walk.pc # "idle" =>
          /\ \A x \in walk.cards : Shown(x)'
          /\ \A x \in walk.first : Shown(x)'
          /\ \A x \in Events : x \notin walk.late =>
                events'[x].state = "committed" /\ (Shown(x)' => x \in walk.first)
  BY <1>1, <1>3, <1>4, <1>5 DEF TimelineInv
<1>7. walk.pc = "reading" =>
          /\ walk.cursor = <<>> => walk.cards = {}
          /\ walk.cursor # <<>> =>
                /\ \A x \in walk.cards : ~ Dates!Before(walk.cursor, Key(x)')
                /\ \A x \in walk.first : Dated(x, walk)' =>
                      x \in walk.cards \/ Dates!Before(walk.cursor, Key(x)')
  BY <1>3, <1>4, <1>5 DEF TimelineInv
<1>8. walk.pc = "read" => \A x \in walk.first : Dated(x, walk)' => x \in walk.cards
  BY <1>3, <1>4, <1>5 DEF TimelineInv
<1>9. /\ clock \in Nat /\ walk \in WalkRows /\ walk.again = {}
      /\ walk.pc = "idle" => walk.cards = {} /\ walk.asOf = 0
  BY DEF TimelineInv
<1> QED
  BY <1>1, <1>5, <1>6, <1>7, <1>8, <1>9 DEF TimelineInv, Dates!Before

LEMMA BeginEventInv ==
    ASSUME TimelineInv, NEW e \in Events, NEW start \in Starts \cup {Unknown},
           Dates!BeginEvent(e, start)
    PROVE  TimelineInv'
<1>1. events'[e] = [state |-> "begun", start |-> start, recorded |-> clock, discovered |-> 0]
  BY DEF Dates!BeginEvent, TimelineInv
<1>2. events'[e] \in EventRows
  BY <1>1 DEF TimelineInv, EventRows
<1>3. events' = [events EXCEPT ![e] = events'[e]]
  BY <1>1 DEF Dates!BeginEvent
<1> QED
  BY <1>2, <1>3, RecordingKeeps DEF Dates!BeginEvent

LEMMA CommitEventInv ==
    ASSUME TimelineInv, NEW e \in Events, Dates!CommitEvent(e)
    PROVE  TimelineInv'
<1>1. events'[e] = [state |-> "committed", start |-> events[e].start,
                    recorded |-> events[e].recorded, discovered |-> clock]
  BY DEF Dates!CommitEvent, TimelineInv
<1>2. events'[e] \in EventRows
  BY <1>1 DEF TimelineInv, EventRows
<1>3. events' = [events EXCEPT ![e] = events'[e]]
  BY <1>1 DEF Dates!CommitEvent
<1> QED
  BY <1>2, <1>3, RecordingKeeps DEF Dates!CommitEvent

LEMMA AskInv ==
    ASSUME TimelineInv, NEW sort \in {"occurred", "discovered"}, NEW asOf \in Nat,
           NEW unknown \in BOOLEAN, Dates!Ask(sort, asOf, unknown)
    PROVE  TimelineInv'
<1> DEFINE w == [pc |-> "reading", sort |-> sort, asOf |-> asOf, unknown |-> unknown]
           first == {e \in Events : Dates!Visible(e, w)}
           late == {e \in Events : events[e].state # "committed"}
<1>1. walk' = [pc |-> "reading", sort |-> sort, asOf |-> asOf, unknown |-> unknown,
               cursor |-> <<>>, cards |-> {}, again |-> {}, first |-> first, late |-> late]
  BY DEF Dates!Ask
<1>2. UNCHANGED <<clock, events>>
  BY DEF Dates!Ask
<1>3. \A e : Shown(e)' <=> Dates!Visible(e, w)
  BY <1>1, <1>2 DEF Shown, Dates!Visible
<1>4. walk' \in WalkRows
  BY <1>1 DEF WalkRows
<1> HIDE DEF w
<1>5. /\ walk'.pc = "reading" /\ walk'.cursor = <<>> /\ walk'.cards = {} /\ walk'.again = {}
      /\ walk'.first = first /\ walk'.late = late
  BY <1>1
<1>6. /\ \A e \in walk'.first : Shown(e)'
      /\ \A e \in Events : e \notin walk'.late =>
            events'[e].state = "committed" /\ (Shown(e)' => e \in walk'.first)
  BY <1>2, <1>3, <1>5
<1> QED
  BY <1>2, <1>4, <1>5, <1>6 DEF TimelineInv

LEMMA ReadPageInv ==
    ASSUME TimelineInv, Dates!ReadPage
    PROVE  TimelineInv'
<1> DEFINE S == Dates!Rest(walk)
           P == Dates!Page(walk)
           more == Dates!HasMore(walk)
           newest == Dates!Newest(P)
           page == {k[3] : k \in P}
<1>1. /\ walk \in WalkRows /\ walk.pc = "reading" /\ clock \in Nat
      /\ events \in [Events -> EventRows]
      /\ UNCHANGED <<clock, events>>
  BY DEF TimelineInv, Dates!ReadPage
<1>2. walk' = [pc |-> IF more THEN "reading" ELSE "read",
               sort |-> walk.sort, asOf |-> walk.asOf, unknown |-> walk.unknown,
               cursor |-> IF more THEN newest ELSE walk.cursor,
               cards |-> walk.cards \cup page,
               again |-> walk.again \cup (walk.cards \cap page),
               first |-> walk.first, late |-> walk.late]
  BY DEF Dates!ReadPage
<1>3. S = {k \in {Key(e) : e \in {x \in Events : Shown(x)}} : Dates!After(k, walk.cursor)}
  BY DEF Dates!Rest, Key, Shown
<1> HIDE DEF S
<1>4. S \in SUBSET Keys /\ IsFiniteSet(S)
  <2> DEFINE f == [e \in Events |-> Key(e)]
           T == {f[e] : e \in Events}
  <2>1. S \subseteq T
    BY <1>3
  <2>2. f \in Surjection(Events, T)
    BY DEF Surjection
  <2>3. \A e \in Events : Key(e) \in Keys
    BY <1>1, KeyIs DEF Key
  <2>4. S \subseteq Keys
    BY <1>3, <2>3
  <2> HIDE DEF f, T
  <2>5. IsFiniteSet(T)
    BY <2>2, DatesAssumption, FS_Surjection
  <2> QED
    BY <2>1, <2>4, <2>5, FS_Subset
<1>5. P = First(S)
  <2>1. P = {k \in S : Dates!Cardinality({j \in S : Dates!Before(j, k)}) < Limit}
    BY DEF Dates!Page, S
  <2>2. \A k : Dates!Cardinality({j \in S : Dates!Before(j, k)}) = Cardinality({j \in S : Dates!Before(j, k)})
    BY DatesCardinality
  <2>3. \A k : k \in P <=> k \in S /\ Cardinality({j \in S : Dates!Before(j, k)}) < Limit
    BY <2>1, <2>2, Zenon
  <2> HIDE DEF P
  <2> QED
    BY <2>3, Zenon DEF First
<1>6. more <=> Cardinality(S) > Limit
  BY DatesCardinality DEF Dates!HasMore, S
<1> HIDE DEF P, more
<1>7. /\ P \subseteq S
      /\ \A k \in P, j \in S : Dates!Before(j, k) => j \in P
      /\ more => P # {}
      /\ ~more => P = S
  <2>1. /\ P \subseteq S
        /\ \A k \in P, j \in S : Dates!Before(j, k) => j \in P
        /\ Cardinality(S) > Limit => P # {}
        /\ ~ (Cardinality(S) > Limit) => P = S
    BY <1>4, <1>5, FirstKeys, Zenon
  <2> QED
    BY <1>6, <2>1, Zenon
<1>8. more => newest \in P /\ \A j \in P : j = newest \/ Dates!Before(j, newest)
  <2> SUFFICES ASSUME more
               PROVE  newest \in P /\ \A j \in P : j = newest \/ Dates!Before(j, newest)
    OBVIOUS
  <2>1. P \in SUBSET Keys /\ IsFiniteSet(P) /\ P # {}
    BY <1>4, <1>7, FS_Subset
  <2>2. \E k \in P : \A j \in P : j = k \/ Dates!Before(j, k)
    BY <2>1, GreatestKey
  <2> QED
    BY <2>2 DEF Dates!Newest
<1> HIDE DEF newest
\* The cards of the page and their keys.
<1>9. \A e \in Events : Key(e) \in Keys /\ Key(e)[3] = e /\ (Dated(e, walk) <=> Key(e)[1] = 0)
  BY <1>1, KeyIs DEF Key
<1>10. ASSUME NEW k \in S
       PROVE  \E e \in Events : k = Key(e) /\ Shown(e) /\ k[3] = e
  BY <1>3, <1>9
<1>11. page \subseteq Events /\ \A e \in page : Shown(e) /\ Key(e) \in P
  BY <1>7, <1>10
<1>12. \A e \in Events : Key(e) \in P => e \in page
  BY <1>9
<1>13. \A e \in Events : Shown(e) /\ Dates!After(Key(e), walk.cursor) => Key(e) \in S
  BY <1>3
<1>14. \A k \in S : walk.cursor # <<>> => Dates!Before(walk.cursor, k)
  BY <1>3 DEF Dates!After
<1> HIDE DEF page
<1>15. /\ walk.cards \subseteq Events /\ walk.first \subseteq Events /\ walk.again = {}
       /\ walk.cursor \in Keys \cup {<<>>}
       /\ walk.cursor = <<>> => walk.cards = {}
       /\ walk.cursor # <<>> =>
             /\ \A e \in walk.cards : ~ Dates!Before(walk.cursor, Key(e))
             /\ \A e \in walk.first : Dated(e, walk) =>
                   e \in walk.cards \/ Dates!Before(walk.cursor, Key(e))
       /\ \A e \in walk.cards : Shown(e)
       /\ \A e \in walk.first : Shown(e)
       /\ \A e \in Events : e \notin walk.late =>
             events[e].state = "committed" /\ (Shown(e) => e \in walk.first)
  BY <1>1 DEF TimelineInv, WalkRows
<1>16. walk.cards \cap page = {}
  BY <1>7, <1>11, <1>14, <1>15
<1>17. /\ walk'.pc = (IF more THEN "reading" ELSE "read")
       /\ walk'.cursor = (IF more THEN newest ELSE walk.cursor)
       /\ walk'.cards = walk.cards \cup page
       /\ walk'.again = {}
       /\ walk'.first = walk.first /\ walk'.late = walk.late
       /\ walk'.sort = walk.sort /\ walk'.asOf = walk.asOf /\ walk'.unknown = walk.unknown
  BY <1>2, <1>15, <1>16
<1>18. walk' \in WalkRows
  <2>1. (IF more THEN newest ELSE walk.cursor) \in Keys \cup {<<>>}
    BY <1>4, <1>7, <1>8, <1>15
  <2>2. (IF more THEN "reading" ELSE "read") \in {"idle", "reading", "read"}
    OBVIOUS
  <2>3. walk.cards \cup page \in SUBSET Events
    BY <1>11, <1>15
  <2>4. walk.again \cup (walk.cards \cap page) \in SUBSET Events
    BY <1>15, <1>16
  <2> QED
    BY <1>1, <1>2, <2>1, <2>2, <2>3, <2>4 DEF WalkRows
\* An event seen at the start that has a date is on this page, before it, or
\* behind its last card.
<1>19. ASSUME NEW e \in walk.first, Dated(e, walk), e \notin walk.cards \cup page
       PROVE  more /\ Dates!Before(newest, Key(e))
  <2>1. Key(e) \in Keys /\ Key(e)[1] = 0 /\ e \in Events /\ Shown(e)
    BY <1>9, <1>15, <1>19
  <2>2. Dates!After(Key(e), walk.cursor)
    <3>1. CASE walk.cursor = <<>>
      BY <3>1 DEF Dates!After
    <3>2. CASE walk.cursor # <<>>
      <4>1. walk.cursor \in Keys /\ Dates!Before(walk.cursor, Key(e))
        BY <1>15, <1>19, <3>2
      <4>2. walk.cursor[1] = 0
        BY <2>1, <4>1 DEF Keys, Dates!Before
      <4> QED
        BY <2>1, <4>1, <4>2 DEF Dates!After
    <3> QED
      BY <3>1, <3>2
  <2>3. Key(e) \in S /\ Key(e) \notin P
    BY <1>12, <1>13, <1>19, <2>1, <2>2
  <2>4. more
    BY <1>7, <2>3
  <2>5. newest \in P /\ newest \in Keys
    BY <1>4, <1>7, <1>8, <2>4
  <2>6. Key(e) # newest /\ ~ Dates!Before(Key(e), newest)
    BY <1>7, <2>3, <2>5
  <2> QED
    BY <2>1, <2>4, <2>5, <2>6, BeforeIsAnOrder
<1>20. ASSUME more, NEW e \in walk.cards \cup page
       PROVE  ~ Dates!Before(newest, Key(e))
  <2>1. newest \in P /\ newest \in Keys /\ newest \in S
    BY <1>4, <1>7, <1>8, <1>20
  <2>2. e \in Events /\ Key(e) \in Keys
    BY <1>9, <1>11, <1>15, <1>20
  <2>3. CASE e \in page
    BY <1>8, <1>11, <1>20, <2>1, <2>2, <2>3, BeforeIsAnOrder
  <2>4. CASE e \in walk.cards
    <3>1. walk.cursor # <<>> /\ walk.cursor \in Keys
      BY <1>15, <2>4
    <3>2. Dates!Before(walk.cursor, newest) /\ ~ Dates!Before(walk.cursor, Key(e))
      BY <1>14, <1>15, <2>1, <2>4, <3>1
    <3> QED
      BY <2>1, <2>2, <3>1, <3>2, BeforeIsAnOrder
  <2> QED
    BY <1>20, <2>3, <2>4
<1>21. /\ \A e : Shown(e)' <=> Shown(e)
       /\ \A e : Key(e)' = Key(e)
       /\ \A e : Dated(e, walk)' <=> Dated(e, walk)
  BY <1>1, <1>17 DEF Shown, Dates!Visible, Key, Dates!SortKey, Dated
<1>22. /\ \A e \in walk'.cards : Shown(e)'
       /\ \A e \in walk'.first : Shown(e)'
       /\ \A e \in Events : e \notin walk'.late =>
             events'[e].state = "committed" /\ (Shown(e)' => e \in walk'.first)
  BY <1>1, <1>11, <1>15, <1>17, <1>21
<1>23. walk'.pc = "reading" =>
          /\ walk'.cursor # <<>>
          /\ \A e \in walk'.cards : ~ Dates!Before(walk'.cursor, Key(e)')
          /\ \A e \in walk'.first : Dated(e, walk)' =>
                e \in walk'.cards \/ Dates!Before(walk'.cursor, Key(e)')
  <2> SUFFICES ASSUME walk'.pc = "reading"
               PROVE  /\ walk'.cursor # <<>>
                      /\ \A e \in walk'.cards : ~ Dates!Before(walk'.cursor, Key(e)')
                      /\ \A e \in walk'.first : Dated(e, walk)' =>
                            e \in walk'.cards \/ Dates!Before(walk'.cursor, Key(e)')
    OBVIOUS
  <2>1. more /\ walk'.cursor = newest /\ newest \in Keys
    BY <1>4, <1>7, <1>8, <1>17
  <2>2. newest # <<>>
    BY <2>1 DEF Keys
  <2> QED
    BY <1>17, <1>19, <1>20, <1>21, <2>1, <2>2
<1>24. walk'.pc = "read" => \A e \in walk'.first : Dated(e, walk)' => e \in walk'.cards
  BY <1>17, <1>19, <1>21
<1>25. walk'.pc # "idle"
  BY <1>17
<1> QED
  BY <1>1, <1>17, <1>18, <1>22, <1>23, <1>24, <1>25 DEF TimelineInv, Dates!Before

LEMMA TimelineNext == TimelineInv /\ [Dates!Next]_(Dates!vars) => TimelineInv'
<1> SUFFICES ASSUME TimelineInv, [Dates!Next]_(Dates!vars)
             PROVE  TimelineInv'
  OBVIOUS
<1>1. CASE \E e \in Events, start \in Starts \cup {Unknown} : Dates!BeginEvent(e, start)
  BY <1>1, BeginEventInv
<1>2. CASE \E e \in Events : Dates!CommitEvent(e)
  BY <1>2, CommitEventInv
<1>3. CASE Dates!Tick \/ UNCHANGED Dates!vars
  <2>1. UNCHANGED <<events, walk>> /\ clock' \in Nat
    BY <1>3 DEF Dates!Tick, Dates!vars, TimelineInv
  <2> QED
    BY <2>1 DEF TimelineInv, Shown, Dates!Visible, Key, Dates!SortKey, Dated, Dates!Before
<1>4. CASE \E sort \in {"occurred", "discovered"}, asOf \in 0 .. MaxClock, unknown \in BOOLEAN :
              Dates!Ask(sort, asOf, unknown)
  <2>1. MaxClock \in Nat
    BY ReadingAssumption DEF Dates!TimelineAssumption
  <2>2. 0 .. MaxClock \subseteq Nat
    BY <2>1
  <2> QED
    BY <1>4, <2>2, AskInv
<1>5. CASE Dates!ReadPage
  BY <1>5, ReadPageInv
<1> QED
  BY <1>1, <1>2, <1>3, <1>4, <1>5 DEF Dates!Next

LEMMA TimelineInvImplies == TimelineInv => WalkIsComplete
<1> SUFFICES ASSUME TimelineInv
             PROVE  Dates!WalkIsComplete
  BY DEF WalkIsComplete
<1>1. walk.pc = "read" => {e \in walk.first : walk.sort = "discovered" \/ events[e].start # Unknown}
                            \subseteq walk.cards
  BY DEF TimelineInv, Dated
<1>2. ASSUME walk.asOf # 0, NEW e \in walk.cards \ walk.first
      PROVE  e \in walk.late /\ events[e].recorded <= walk.asOf
  <2>1. walk.pc # "idle" /\ e \in Events /\ Shown(e)
    BY <1>2 DEF TimelineInv, WalkRows
  <2>2. e \in walk.late
    BY <1>2, <2>1 DEF TimelineInv
  <2> QED
    BY <1>2, <2>1, <2>2 DEF Shown, Dates!Visible
<1> QED
  BY <1>1, <1>2 DEF TimelineInv, Dates!WalkIsComplete

-----------------------------------------------------------------------------
(* The evolution graph.                                                    *)

\* The edges the search follows.
Arrows == Graph!Chain(edges)

\* The path of the search.
Path == 1 .. Len(stack)
Steps == {<<stack[i], stack[i + 1]>> : i \in 1 .. (Len(stack) - 1)}

SearchTypes ==
    /\ drafts \in Proposals
    /\ checked \in 0 .. Len(drafts)
    /\ edges \in Seq(Graph!EdgeDrafts)
    /\ state \in [Nodes -> {"unvisited", "in_stack", "done"}]
    /\ stack \in Seq(Nodes)
    /\ waiting \subseteq Arrows
    /\ verdict \in {"none", "accepted", "cycle"}

\* While the gates still run, the search has not begun.
NotStarted ==
    checked # Len(drafts) =>
        /\ stack = <<>> /\ waiting = {} /\ verdict = "none"
        /\ \A n \in Nodes : state[n] = "unvisited"

\* The stack is a path, and the nodes on it are the ones in the stack.
StackIsPath ==
    /\ \A i \in Path : state[stack[i]] = "in_stack"
    /\ \A n \in Nodes : state[n] = "in_stack" => \E i \in Path : stack[i] = n
    /\ \A i, j \in Path : stack[i] = stack[j] => i = j
    /\ Steps \subseteq Arrows

\* From a node that is done only nodes that are done are reached ...
DoneIsClosed == \A e \in Arrows : state[e[1]] = "done" => state[e[2]] = "done"

\* ... and an edge of a node in the stack is waiting, was looked at, or is the
\* one the search went along.
EdgesAreTried ==
    \A e \in Arrows : state[e[1]] = "in_stack" =>
        e \in waiting \/ state[e[2]] = "done" \/ e \in Steps

\* Some node of a set has no successor in it.
HasSink(S) == \E n \in S : \A m \in S : <<n, m>> \notin Arrows

DoneHasSinks ==
    \A S \in SUBSET Nodes : S # {} /\ (\A n \in S : state[n] = "done") => HasSink(S)

VerdictHolds ==
    /\ verdict = "accepted" => \A S \in SUBSET Nodes : S # {} => HasSink(S)
    /\ verdict = "cycle" =>
         /\ Len(cycle) > 1 /\ cycle[1] = cycle[Len(cycle)]
         /\ \A i \in 1 .. (Len(cycle) - 1) : <<cycle[i], cycle[i + 1]>> \in Arrows

SearchInv == /\ SearchTypes /\ NotStarted /\ StackIsPath /\ DoneIsClosed
             /\ EdgesAreTried /\ DoneHasSinks /\ VerdictHolds

LEMMA GraphAssumption == Proposals \subseteq Seq(Graph!EdgeDrafts)
BY ReadingAssumption DEF Graph!EvolutionAssumption

LEMMA ArrowsJoinNodes ==
    ASSUME NEW kept \in Seq(Graph!EdgeDrafts)
    PROVE  \A e \in Graph!Chain(kept) : e[1] \in Nodes /\ e[2] \in Nodes /\ e = <<e[1], e[2]>>
<1>1. \A i \in DOMAIN kept : kept[i].from \in Nodes /\ kept[i].to \in Nodes
  <2> SUFFICES ASSUME NEW i \in DOMAIN kept
               PROVE  kept[i].from \in Nodes /\ kept[i].to \in Nodes
    OBVIOUS
  <2>1. kept[i] \in Graph!EdgeDrafts
    OBVIOUS
  <2> QED
    BY <2>1 DEF Graph!EdgeDrafts
<1> QED
  BY <1>1 DEF Graph!Chain, Graph!Joined

LEMMA SearchInit ==
    ASSUME Graph!Init
    PROVE  SearchInv
<1>1. drafts \in Proposals /\ drafts \in Seq(Graph!EdgeDrafts)
  BY GraphAssumption DEF Graph!Init
<1>2. Len(drafts) \in Nat
  BY <1>1
<1>3. /\ checked = 0 /\ edges = <<>> /\ stack = <<>> /\ waiting = {} /\ verdict = "none"
      /\ state = [n \in Nodes |-> "unvisited"]
  BY DEF Graph!Init
<1>4. Arrows = {} /\ Steps = {} /\ Path = {}
  BY <1>3 DEF Arrows, Graph!Chain, Graph!Joined, Steps, Path
<1>5. SearchTypes
  BY <1>1, <1>2, <1>3 DEF SearchTypes
<1>6. NotStarted /\ VerdictHolds
  BY <1>3 DEF NotStarted, VerdictHolds
<1>7. StackIsPath /\ DoneIsClosed /\ EdgesAreTried /\ DoneHasSinks
  BY <1>3, <1>4 DEF StackIsPath, DoneIsClosed, EdgesAreTried, DoneHasSinks, HasSink
<1> QED
  BY <1>5, <1>6, <1>7 DEF SearchInv

LEMMA CheckEdgeInv ==
    ASSUME SearchInv, Graph!CheckEdge
    PROVE  SearchInv'
<1> USE DEF SearchInv
<1>1. /\ drafts \in Proposals /\ drafts \in Seq(Graph!EdgeDrafts)
      /\ checked \in 0 .. Len(drafts) /\ checked < Len(drafts) /\ Len(drafts) \in Nat
  <2>1. drafts \in Proposals /\ checked \in 0 .. Len(drafts) /\ checked < Len(drafts)
    BY DEF SearchTypes, Graph!CheckEdge
  <2>2. drafts \in Seq(Graph!EdgeDrafts)
    BY <2>1, GraphAssumption
  <2> QED
    BY <2>1, <2>2
<1>2. /\ stack = <<>> /\ waiting = {} /\ verdict = "none"
      /\ \A n \in Nodes : state[n] = "unvisited"
  BY <1>1 DEF NotStarted
<1>3. UNCHANGED <<drafts, state, stack, waiting, verdict, cycle>> /\ checked' = checked + 1
  BY DEF Graph!CheckEdge
<1>4. edges' \in Seq(Graph!EdgeDrafts)
  <2>1. drafts[checked + 1] \in Graph!EdgeDrafts
    BY <1>1
  <2>2. edges \in Seq(Graph!EdgeDrafts)
    BY DEF SearchTypes
  <2>3. Append(edges, drafts[checked + 1]) \in Seq(Graph!EdgeDrafts)
    BY <2>1, <2>2
  <2> QED
    BY <2>2, <2>3 DEF Graph!CheckEdge
<1>5. /\ state' \in [Nodes -> {"unvisited", "in_stack", "done"}]
      /\ stack' \in Seq(Nodes)
  BY <1>3 DEF SearchTypes
<1>6. SearchTypes'
  <2>1. waiting' \subseteq Arrows'
    BY <1>2, <1>3
  <2>2. checked' \in 0 .. Len(drafts')
    BY <1>1, <1>3
  <2> QED
    BY <2>1, <2>2, <1>1, <1>2, <1>3, <1>4, <1>5 DEF SearchTypes
<1>7. NotStarted' /\ VerdictHolds'
  BY <1>2, <1>3 DEF NotStarted, VerdictHolds
<1>8. Path' = {} /\ Steps' = {}
  BY <1>2, <1>3 DEF Path, Steps
<1>9. StackIsPath' /\ DoneHasSinks'
  BY <1>2, <1>3, <1>8 DEF StackIsPath, DoneHasSinks
<1>10. \A e \in Arrows' : e[1] \in Nodes /\ state'[e[1]] = "unvisited"
  <2>1. \A e \in Arrows' : e[1] \in Nodes
    BY <1>4, ArrowsJoinNodes DEF Arrows
  <2> QED
    BY <1>2, <1>3, <2>1
<1>11. DoneIsClosed' /\ EdgesAreTried'
  BY <1>10 DEF DoneIsClosed, EdgesAreTried
<1> QED
  BY <1>6, <1>7, <1>9, <1>11

\* What only the gates change stays.
LEMMA ArrowsStay ==
    ASSUME UNCHANGED edges
    PROVE  Arrows' = Arrows
BY DEF Arrows, Graph!Chain, Graph!Joined

\* The search has begun: the stack is a sequence of nodes, its top one of them.
LEMMA TheTop ==
    ASSUME SearchTypes, StackIsPath, stack # <<>>
    PROVE  /\ Len(stack) \in Nat \ {0} /\ Len(stack) \in Path
           /\ Graph!Top = stack[Len(stack)] /\ Graph!Top \in Nodes
           /\ state[Graph!Top] = "in_stack"
           /\ \A i \in Path : stack[i] \in Nodes
<1>1. stack \in Seq(Nodes)
  BY DEF SearchTypes
<1>2. Len(stack) \in Nat \ {0}
  BY <1>1
<1>3. Len(stack) \in Path /\ \A i \in Path : stack[i] \in Nodes
  BY <1>1, <1>2 DEF Path
<1> QED
  BY <1>2, <1>3 DEF Graph!Top, StackIsPath

\* Entering a node: its edges wait, and nothing else changes but that the edge the
\* search came along is no longer waiting.
LEMMA EnterInv ==
    ASSUME SearchInv, Graph!Searching, NEW n \in Nodes, state[n] = "unvisited",
           NEW left \in SUBSET waiting, Graph!Enter(n, left),
           UNCHANGED <<drafts, checked, edges, verdict, cycle>>,
           stack # <<>> => <<Graph!Top, n>> \in Arrows,
           \A e \in waiting \ left : stack # <<>> /\ e = <<Graph!Top, n>>
    PROVE  SearchInv'
<1> USE DEF SearchInv
<1>0. /\ state \in [Nodes -> {"unvisited", "in_stack", "done"}]
      /\ waiting \subseteq Arrows
      /\ checked = Len(drafts)
  BY DEF SearchTypes, Graph!Searching
<1>1. stack \in Seq(Nodes) /\ Len(stack) \in Nat
  <2>1. stack \in Seq(Nodes)
    BY DEF SearchTypes
  <2>2. Len(stack) \in Nat
    BY <2>1
  <2> QED
    BY <2>1, <2>2
<1>2. waiting' = left \cup {e \in Arrows : e[1] = n}
  BY DEF Graph!Enter, Arrows
<1>3. Arrows' = Arrows
  BY ArrowsStay
<1>4. /\ stack' \in Seq(Nodes) /\ Len(stack') = Len(stack) + 1
      /\ \A i \in Path : stack'[i] = stack[i]
      /\ stack'[Len(stack) + 1] = n
      /\ Path' = Path \cup {Len(stack) + 1}
  <2>0. stack' = Append(stack, n)
    BY DEF Graph!Enter
  <2>1. stack' \in Seq(Nodes) /\ Len(stack') = Len(stack) + 1
    BY <1>1, <2>0
  <2>2. \A i \in 1 .. Len(stack) : stack'[i] = stack[i]
    BY <1>1, <2>0
  <2>3. stack'[Len(stack) + 1] = n
    BY <1>1, <2>0
  <2>4. 1 .. (Len(stack) + 1) = (1 .. Len(stack)) \cup {Len(stack) + 1}
    BY <1>1
  <2> QED
    BY <2>1, <2>2, <2>3, <2>4 DEF Path
<1>5. /\ state' \in [Nodes -> {"unvisited", "in_stack", "done"}]
      /\ state'[n] = "in_stack"
      /\ \A m \in Nodes : m # n => state'[m] = state[m]
  BY <1>0 DEF Graph!Enter
<1>6. Steps' = Steps \cup (IF stack = <<>> THEN {} ELSE {<<Graph!Top, n>>})
  <2>1. CASE stack = <<>>
    BY <1>4, <2>1 DEF Steps
  <2>2. CASE stack # <<>>
    <3>1. Len(stack) > 0 /\ Graph!Top = stack[Len(stack)]
      BY <1>1, <2>2 DEF Graph!Top
    <3>2. Steps' = {<<stack'[i], stack'[i + 1]>> : i \in 1 .. Len(stack)}
      BY <1>1, <1>4 DEF Steps
    <3>3. \A i \in 1 .. (Len(stack) - 1) :
              stack'[i] = stack[i] /\ stack'[i + 1] = stack[i + 1]
      BY <1>1, <1>4 DEF Path
    <3>4. stack'[Len(stack)] = Graph!Top /\ stack'[Len(stack) + 1] = n
      BY <1>1, <1>4, <3>1 DEF Path
    <3>5. 1 .. Len(stack) = (1 .. (Len(stack) - 1)) \cup {Len(stack)}
      BY <1>1, <3>1
    <3>6. ASSUME NEW f \in Steps'
          PROVE  f \in Steps \cup {<<Graph!Top, n>>}
      <4>1. PICK i \in 1 .. Len(stack) : f = <<stack'[i], stack'[i + 1]>>
        BY <3>2, <3>6
      <4>2. CASE i = Len(stack)
        BY <3>4, <4>1, <4>2
      <4>3. CASE i \in 1 .. (Len(stack) - 1)
        BY <3>3, <4>1, <4>3 DEF Steps
      <4> QED
        BY <3>5, <4>2, <4>3
    <3>7. Steps \subseteq Steps'
      BY <3>2, <3>3, <3>5 DEF Steps
    <3>8. <<Graph!Top, n>> \in Steps'
      BY <3>2, <3>4, <3>5
    <3> QED
      BY <2>2, <3>6, <3>7, <3>8
  <2> QED
    BY <2>1, <2>2
<1>7. SearchTypes'
  <2>1. waiting' \subseteq Arrows'
    BY <1>0, <1>2, <1>3
  <2> QED
    BY <1>4, <1>5, <2>1 DEF SearchTypes
<1>8. NotStarted' /\ VerdictHolds'
  BY <1>0, <1>3 DEF NotStarted, VerdictHolds, HasSink
<1>9. StackIsPath'
  <2>1. \A i \in Path : stack[i] \in Nodes /\ stack[i] # n
    BY <1>1 DEF StackIsPath, Path
  <2>2. \A i \in Path' : state'[stack'[i]] = "in_stack"
    BY <1>4, <1>5, <2>1 DEF StackIsPath
  <2>3. \A m \in Nodes : state'[m] = "in_stack" => \E i \in Path' : stack'[i] = m
    BY <1>4, <1>5 DEF StackIsPath
  <2>4. \A i, j \in Path' : stack'[i] = stack'[j] => i = j
    BY <1>4, <2>1 DEF StackIsPath
  <2>5. Steps' \subseteq Arrows'
    BY <1>3, <1>6 DEF StackIsPath
  <2> QED
    BY <2>2, <2>3, <2>4, <2>5 DEF StackIsPath
<1>10. \A e \in Arrows : e[1] \in Nodes /\ e[2] \in Nodes /\ e = <<e[1], e[2]>>
  BY ArrowsJoinNodes DEF Arrows, SearchTypes
<1>11. DoneIsClosed'
  BY <1>3, <1>5, <1>10 DEF DoneIsClosed
<1>12. EdgesAreTried'
  <2> SUFFICES ASSUME NEW e \in Arrows, state'[e[1]] = "in_stack"
               PROVE  e \in waiting' \/ state'[e[2]] = "done" \/ e \in Steps'
    BY <1>3 DEF EdgesAreTried
  <2>1. CASE e[1] = n
    BY <1>2, <2>1
  <2>2. CASE e[1] # n
    <3>1. e \in waiting \/ state[e[2]] = "done" \/ e \in Steps
      BY <1>5, <1>10, <2>2 DEF EdgesAreTried
    <3>2. e \in waiting => e \in waiting' \/ e \in Steps'
      BY <1>2, <1>6
    <3>3. state[e[2]] = "done" => state'[e[2]] = "done"
      BY <1>5, <1>10
    <3> QED
      BY <1>6, <3>1, <3>2, <3>3
  <2> QED
    BY <2>1, <2>2
<1>13. DoneHasSinks'
  <2>1. \A m \in Nodes : state'[m] = "done" => state[m] = "done"
    BY <1>5
  <2> QED
    BY <1>3, <2>1 DEF DoneHasSinks, HasSink
<1> QED
  BY <1>7, <1>8, <1>9, <1>11, <1>12, <1>13

LEMMA VisitRootInv ==
    ASSUME SearchInv, Graph!VisitRoot
    PROVE  SearchInv'
<1>1. PICK n \in Nodes : state[n] = "unvisited" /\ Graph!Enter(n, waiting)
  BY DEF Graph!VisitRoot
<1>2. /\ stack = <<>> /\ Graph!Searching
      /\ UNCHANGED <<drafts, checked, edges, verdict, cycle>>
  BY DEF Graph!VisitRoot
<1> QED
  BY <1>1, <1>2, EnterInv

\* The edge looked at closes a cycle.
LEMMA CloseInv ==
    ASSUME SearchInv, Graph!Searching, stack # <<>>, NEW e \in waiting,
           e[1] = Graph!Top, Graph!Closes(e[2]), verdict' = "cycle",
           cycle' = Append(SubSeq(stack, Graph!Position(e[2]), Len(stack)), e[2]),
           UNCHANGED <<drafts, checked, edges, state, stack, waiting>>
    PROVE  SearchInv'
<1> USE DEF SearchInv
<1>1. /\ stack \in Seq(Nodes) /\ checked = Len(drafts) /\ e \in Arrows
  BY DEF SearchTypes, Graph!Searching
<1>2. /\ Len(stack) \in Nat \ {0} /\ Graph!Top = stack[Len(stack)]
  BY TheTop
<1>3. Arrows' = Arrows /\ Path' = Path /\ Steps' = Steps
  BY ArrowsStay DEF Path, Steps
<1>4. e[2] \in Nodes /\ e = <<e[1], e[2]>>
  BY <1>1, ArrowsJoinNodes DEF Arrows, SearchTypes
<1> DEFINE p == Graph!Position(e[2])
<1>5. p \in Path /\ stack[p] = e[2]
  <2>1. \E i \in Path : stack[i] = e[2]
    BY <1>4 DEF StackIsPath, Graph!Closes
  <2>2. DOMAIN stack = Path
    BY <1>1 DEF Path
  <2> QED
    BY <2>1, <2>2 DEF Graph!Position
<1> HIDE DEF p
<1> DEFINE s == SubSeq(stack, p, Len(stack))
<1>6. /\ s \in Seq(Nodes) /\ Len(s) = Len(stack) - p + 1
      /\ \A i \in 1 .. Len(s) : s[i] = stack[p + i - 1]
  BY <1>1, <1>2, <1>5 DEF Path
<1>7. cycle' = Append(s, e[2])
  BY DEF p
<1> HIDE DEF s
<1>8. /\ Len(s) \in Nat \ {0} /\ Len(cycle') = Len(s) + 1
      /\ \A i \in 1 .. Len(s) : cycle'[i] = s[i]
      /\ cycle'[Len(s) + 1] = e[2]
  BY <1>2, <1>4, <1>5, <1>6, <1>7 DEF Path
<1>9. Len(cycle') > 1 /\ cycle'[1] = cycle'[Len(cycle')]
  <2>1. 1 \in 1 .. Len(s) /\ Len(cycle') = Len(s) + 1 /\ Len(cycle') > 1
    BY <1>8
  <2>2. cycle'[1] = s[1] /\ s[1] = stack[p + 1 - 1]
    BY <1>6, <1>8, <2>1
  <2>3. p \in Int /\ p + 1 - 1 = p
    BY <1>2, <1>5 DEF Path
  <2> QED
    BY <1>5, <1>8, <2>1, <2>2, <2>3
<1>10. ASSUME NEW i \in 1 .. (Len(cycle') - 1)
       PROVE  <<cycle'[i], cycle'[i + 1]>> \in Arrows
  <2>1. CASE i = Len(s)
    <3>1. i \in 1 .. Len(s) /\ p + i - 1 = Len(stack)
      BY <1>2, <1>5, <1>6, <1>8, <2>1 DEF Path
    <3>2. cycle'[i] = stack[Len(stack)]
      BY <1>6, <1>8, <3>1
    <3> QED
      BY <1>1, <1>2, <1>4, <1>8, <2>1, <3>2
  <2>2. CASE i # Len(s)
    <3>1. i \in 1 .. (Len(s) - 1) /\ p + i - 1 \in 1 .. (Len(stack) - 1)
      <4>1. p \in Nat /\ p >= 1 /\ Len(s) \in Nat /\ i \in Nat /\ i >= 1 /\ i <= Len(s)
            /\ Len(s) = Len(stack) - p + 1
        BY <1>2, <1>5, <1>6, <1>8 DEF Path
      <4>2. Len(stack) \in Nat
        BY <1>2
      <4>3. i <= Len(s) - 1
        BY <2>2, <4>1
      <4>4. p + i - 1 >= 1 /\ p + i - 1 <= Len(stack) - 1
        BY <4>1, <4>2, <4>3
      <4> QED
        BY <4>1, <4>2, <4>3, <4>4
    <3>2. cycle'[i] = stack[p + i - 1] /\ cycle'[i + 1] = stack[p + i]
      <4>1. i \in 1 .. Len(s) /\ i + 1 \in 1 .. Len(s) /\ p \in Nat
            /\ p + (i + 1) - 1 = p + i
        <5>1. i \in 1 .. (Len(s) - 1) /\ Len(s) \in Nat /\ p \in Nat
          BY <1>2, <1>5, <1>8, <3>1 DEF Path
        <5> QED
          BY <5>1
      <4>2. cycle'[i] = s[i] /\ cycle'[i + 1] = s[i + 1]
        BY <1>8, <4>1
      <4>3. s[i] = stack[p + i - 1] /\ s[i + 1] = stack[p + (i + 1) - 1]
        BY <1>6, <4>1
      <4> QED
        BY <4>1, <4>2, <4>3
    <3>3. <<stack[p + i - 1], stack[(p + i - 1) + 1]>> \in Steps
      BY <3>1 DEF Steps
    <3>4. (p + i - 1) + 1 = p + i
      BY <1>5, <3>1 DEF Path
    <3> QED
      BY <3>2, <3>3, <3>4 DEF StackIsPath
  <2> QED
    BY <2>1, <2>2
<1>11. VerdictHolds'
  BY <1>3, <1>9, <1>10 DEF VerdictHolds
<1>12. SearchTypes' /\ NotStarted' /\ StackIsPath' /\ DoneIsClosed' /\ EdgesAreTried'
       /\ DoneHasSinks'
  BY <1>1, <1>3 DEF SearchTypes, NotStarted, StackIsPath, DoneIsClosed, EdgesAreTried,
                    DoneHasSinks, HasSink
<1> QED
  BY <1>11, <1>12

LEMMA LookAtInv ==
    ASSUME SearchInv, Graph!LookAt
    PROVE  SearchInv'
<1> USE DEF SearchInv
<1>1. PICK e \in waiting :
         /\ e[1] = Graph!Top
         /\ IF Graph!Closes(e[2])
            THEN /\ verdict' = "cycle"
                 /\ cycle' = Append(SubSeq(stack, Graph!Position(e[2]), Len(stack)), e[2])
                 /\ UNCHANGED <<state, stack, waiting>>
            ELSE /\ UNCHANGED <<verdict, cycle>>
                 /\ IF state[e[2]] = "unvisited"
                    THEN Graph!Enter(e[2], waiting \ {e})
                    ELSE waiting' = waiting \ {e} /\ UNCHANGED <<state, stack>>
  BY DEF Graph!LookAt
<1>2. Graph!Searching /\ stack # <<>> /\ UNCHANGED <<drafts, checked, edges>>
  BY DEF Graph!LookAt
<1>3. e \in Arrows /\ e[2] \in Nodes /\ e = <<e[1], e[2]>>
  BY <1>1, ArrowsJoinNodes DEF Arrows, SearchTypes
<1>4. CASE Graph!Closes(e[2])
  BY <1>1, <1>2, <1>4, CloseInv
<1>5. CASE ~ Graph!Closes(e[2]) /\ state[e[2]] = "unvisited"
  <2>1. waiting \ {e} \in SUBSET waiting /\ \A f \in waiting \ (waiting \ {e}) : f = e
    OBVIOUS
  <2>2. <<Graph!Top, e[2]>> \in Arrows /\ e = <<Graph!Top, e[2]>>
    BY <1>1, <1>3
  <2>3. Graph!Enter(e[2], waiting \ {e})
    BY <1>1, <1>5
  <2>4. UNCHANGED <<drafts, checked, edges, verdict, cycle>>
    BY <1>1, <1>2, <1>5
  <2> QED
    BY <1>2, <1>3, <1>5, <2>1, <2>2, <2>3, <2>4, EnterInv
<1>6. CASE ~ Graph!Closes(e[2]) /\ state[e[2]] # "unvisited"
  <2>1. state[e[2]] = "done"
    BY <1>3, <1>6 DEF SearchTypes, Graph!Closes
  <2>2. UNCHANGED <<drafts, checked, edges, state, stack, verdict, cycle>>
        /\ waiting' = waiting \ {e}
    BY <1>1, <1>2, <1>6
  <2>3. Arrows' = Arrows /\ Path' = Path /\ Steps' = Steps
    BY <2>2, ArrowsStay DEF Path, Steps
  <2>4. EdgesAreTried'
    BY <2>1, <2>2, <2>3 DEF EdgesAreTried
  <2>5. SearchTypes' /\ NotStarted' /\ StackIsPath' /\ DoneIsClosed' /\ DoneHasSinks'
        /\ VerdictHolds'
    BY <1>2, <2>2, <2>3 DEF SearchTypes, NotStarted, StackIsPath, DoneIsClosed,
         DoneHasSinks, HasSink, VerdictHolds, Graph!Searching
  <2> QED
    BY <2>4, <2>5
<1> QED
  BY <1>4, <1>5, <1>6

LEMMA LeaveInv ==
    ASSUME SearchInv, Graph!Leave
    PROVE  SearchInv'
<1> USE DEF SearchInv
<1> DEFINE t == Graph!Top
<1>1. /\ stack # <<>> /\ checked = Len(drafts) /\ \A e \in waiting : e[1] # t
      /\ UNCHANGED <<drafts, checked, edges, waiting, verdict, cycle>>
  BY DEF Graph!Leave, Graph!Searching
<1>2. /\ Len(stack) \in Nat \ {0} /\ Len(stack) \in Path /\ t = stack[Len(stack)]
      /\ t \in Nodes /\ state[t] = "in_stack" /\ \A i \in Path : stack[i] \in Nodes
  BY <1>1, TheTop
<1>3. stack \in Seq(Nodes) /\ stack' = SubSeq(stack, 1, Len(stack) - 1)
  BY DEF SearchTypes, Graph!Leave
<1>3a. /\ state \in [Nodes -> {"unvisited", "in_stack", "done"}]
       /\ state' = [state EXCEPT ![t] = "done"]
  BY DEF SearchTypes, Graph!Leave
<1> HIDE DEF t
<1>4. Arrows' = Arrows
  BY <1>1, ArrowsStay
<1>5. /\ stack' \in Seq(Nodes) /\ Len(stack') = Len(stack) - 1
      /\ Path' = Path \ {Len(stack)}
      /\ \A i \in Path' : i \in Path /\ stack'[i] = stack[i]
  <2>1. stack' \in Seq(Nodes) /\ Len(stack') = Len(stack) - 1
    <3>1. Len(stack) - 1 \in Nat
      BY <1>2
    <3>2. \A i \in 1 .. (Len(stack) - 1) : stack[i] \in Nodes
      BY <1>2 DEF Path
    <3>3. 1 \in Int /\ Len(stack) - 1 \in Int
      BY <3>1
    <3> DEFINE n == Len(stack) - 1
               front == SubSeq(stack, 1, n)
    <3>4. n \in Int /\ \A i \in 1 .. n : stack[i] \in Nodes
      BY <3>2, <3>3
    <3> HIDE DEF n
    <3>5. front \in Seq(Nodes) /\ Len(front) = IF 1 <= n THEN n - 1 + 1 ELSE 0
      BY <3>3, <3>4, SubSeqProperties
    <3>6. n \in Nat
      BY <3>1 DEF n
    <3> HIDE DEF front
    <3>7. Len(front) = n
      BY <3>5, <3>6
    <3>8. stack' = front
      BY <1>3 DEF front, n
    <3> QED
      BY <3>5, <3>7, <3>8 DEF n
  <2>2. Path' = 1 .. (Len(stack) - 1)
    BY <2>1 DEF Path
  <2>3. \A i \in 1 .. (Len(stack) - 1) : stack'[i] = stack[i]
    BY <1>2, <1>3
  <2> QED
    BY <1>2, <2>1, <2>2, <2>3 DEF Path
<1>6. /\ state' \in [Nodes -> {"unvisited", "in_stack", "done"}]
      /\ state'[t] = "done"
      /\ \A m \in Nodes : m # t => state'[m] = state[m]
  BY <1>2, <1>3a
<1>7. \A e \in Arrows : e[1] \in Nodes /\ e[2] \in Nodes /\ e = <<e[1], e[2]>>
  BY ArrowsJoinNodes DEF Arrows, SearchTypes
<1>8. \A i \in Path' : stack'[i] # t
  BY <1>2, <1>5 DEF StackIsPath
<1>9. /\ Steps' \subseteq Steps
      /\ \A f \in Steps : f[2] # t => f \in Steps'
  <2>1. Steps' = {<<stack'[i], stack'[i + 1]>> : i \in 1 .. (Len(stack) - 2)}
    BY <1>2, <1>5 DEF Steps
  <2>2. \A i \in 1 .. (Len(stack) - 2) : stack'[i] = stack[i] /\ stack'[i + 1] = stack[i + 1]
    BY <1>2, <1>5 DEF Path
  <2>3. \A i \in 1 .. (Len(stack) - 2) : i \in 1 .. (Len(stack) - 1)
    BY <1>2
  <2>4. Steps' \subseteq Steps
    BY <2>1, <2>2, <2>3 DEF Steps
  <2>5. ASSUME NEW f \in Steps, f[2] # t
        PROVE  f \in Steps'
    <3>1. PICK i \in 1 .. (Len(stack) - 1) : f = <<stack[i], stack[i + 1]>>
      BY DEF Steps
    <3>2. i \in 1 .. (Len(stack) - 2)
      <4>1. i + 1 # Len(stack)
        BY <1>2, <2>5, <3>1
      <4> QED
        BY <1>2, <4>1
    <3> QED
      BY <2>1, <2>2, <3>1, <3>2
  <2> QED
    BY <2>4, <2>5
<1>10. SearchTypes' /\ NotStarted' /\ VerdictHolds'
  BY <1>1, <1>4, <1>5, <1>6 DEF SearchTypes, NotStarted, VerdictHolds, HasSink
<1>11. StackIsPath'
  <2>1. \A i \in Path' : state'[stack'[i]] = "in_stack"
    BY <1>2, <1>5, <1>6, <1>8 DEF StackIsPath
  <2>2. \A m \in Nodes : state'[m] = "in_stack" => \E i \in Path' : stack'[i] = m
    <3> SUFFICES ASSUME NEW m \in Nodes, state'[m] = "in_stack"
                 PROVE  \E i \in Path' : stack'[i] = m
      OBVIOUS
    <3>1. m # t /\ state[m] = "in_stack"
      BY <1>6
    <3>2. PICK i \in Path : stack[i] = m
      BY <3>1 DEF StackIsPath
    <3>3. i # Len(stack)
      BY <1>2, <3>1, <3>2
    <3> QED
      BY <1>5, <3>2, <3>3
  <2>3. \A i, j \in Path' : stack'[i] = stack'[j] => i = j
    BY <1>5 DEF StackIsPath
  <2>4. Steps' \subseteq Arrows'
    BY <1>4, <1>9 DEF StackIsPath
  <2> QED
    BY <2>1, <2>2, <2>3, <2>4 DEF StackIsPath
\* The edges of the node that is left.
<1>12. \A e \in Arrows : e[1] = t => state[e[2]] = "done"
  <2> SUFFICES ASSUME NEW e \in Arrows, e[1] = t
               PROVE  state[e[2]] = "done"
    OBVIOUS
  <2>1. state[e[2]] = "done" \/ e \in Steps
    BY <1>1, <1>2 DEF EdgesAreTried
  <2>2. ASSUME e \in Steps
        PROVE  FALSE
    <3>1. PICK i \in 1 .. (Len(stack) - 1) : e = <<stack[i], stack[i + 1]>>
      BY <2>2 DEF Steps
    <3>2. stack[i] = stack[Len(stack)]
      BY <1>2, <3>1
    <3>3. i \in Path /\ i # Len(stack)
      BY <1>2 DEF Path
    <3> QED
      BY <1>2, <3>2, <3>3 DEF StackIsPath
  <2> QED
    BY <2>1, <2>2
<1>13. DoneIsClosed'
  <2> SUFFICES ASSUME NEW e \in Arrows, state'[e[1]] = "done"
               PROVE  state'[e[2]] = "done"
    BY <1>4 DEF DoneIsClosed
  <2>1. state[e[2]] = "done"
    BY <1>6, <1>7, <1>12 DEF DoneIsClosed
  <2> QED
    BY <1>6, <1>7, <2>1
<1>14. EdgesAreTried'
  <2> SUFFICES ASSUME NEW e \in Arrows, state'[e[1]] = "in_stack"
               PROVE  e \in waiting' \/ state'[e[2]] = "done" \/ e \in Steps'
    BY <1>4 DEF EdgesAreTried
  <2>1. e \in waiting \/ state[e[2]] = "done" \/ e \in Steps
    BY <1>6, <1>7 DEF EdgesAreTried
  <2>2. e[2] = t => state'[e[2]] = "done"
    BY <1>6
  <2> QED
    BY <1>1, <1>6, <1>7, <1>9, <2>1, <2>2
<1>15. DoneHasSinks'
  <2> SUFFICES ASSUME NEW S \in SUBSET Nodes, S # {}, \A n \in S : state'[n] = "done"
               PROVE  HasSink(S)
    BY <1>4 DEF DoneHasSinks, HasSink
  <2>1. \A n \in S : n # t => state[n] = "done"
    BY <1>6
  <2>2. CASE S = {t}
    BY <1>2, <1>12, <2>2 DEF HasSink
  <2>3. CASE S # {t}
    <3>1. S \ {t} \in SUBSET Nodes /\ S \ {t} # {}
      BY <2>3
    <3>2. PICK n \in S \ {t} : \A m \in S \ {t} : <<n, m>> \notin Arrows
      BY <2>1, <3>1 DEF DoneHasSinks, HasSink
    <3>3. <<n, t>> \notin Arrows
      BY <1>2, <2>1, <3>2 DEF DoneIsClosed
    <3> QED
      BY <3>2, <3>3 DEF HasSink
  <2> QED
    BY <2>2, <2>3
<1> QED
  BY <1>10, <1>11, <1>13, <1>14, <1>15

LEMMA AcceptInv ==
    ASSUME SearchInv, Graph!Accept
    PROVE  SearchInv'
<1> USE DEF SearchInv
<1>1. /\ checked = Len(drafts) /\ \A e \in Arrows : state[e[1]] = "done"
      /\ verdict' = "accepted"
      /\ UNCHANGED <<drafts, checked, edges, state, stack, waiting, cycle>>
  BY DEF Graph!Accept, Graph!Searching, Arrows
<1>2. Arrows' = Arrows /\ Path' = Path /\ Steps' = Steps
  BY <1>1, ArrowsStay DEF Path, Steps
<1>3. ASSUME NEW S \in SUBSET Nodes, S # {}
      PROVE  HasSink(S)
  <2>1. CASE \A n \in S : state[n] = "done"
    BY <1>3, <2>1 DEF DoneHasSinks
  <2>2. CASE \E n \in S : state[n] # "done"
    BY <1>1, <2>2 DEF HasSink
  <2> QED
    BY <2>1, <2>2
<1>4. VerdictHolds'
  BY <1>1, <1>2, <1>3 DEF VerdictHolds, HasSink
<1> QED
  BY <1>1, <1>2, <1>4 DEF SearchTypes, NotStarted, StackIsPath, DoneIsClosed,
                          EdgesAreTried, DoneHasSinks, HasSink

LEMMA SearchNext ==
    ASSUME SearchInv, [Graph!Next]_(Graph!vars)
    PROVE  SearchInv'
<1>1. CASE UNCHANGED Graph!vars
  <2>1. UNCHANGED <<drafts, checked, edges, state, stack, waiting, verdict, cycle>>
    BY <1>1 DEF Graph!vars
  <2>2. Arrows' = Arrows /\ Path' = Path /\ Steps' = Steps
    BY <2>1, ArrowsStay DEF Path, Steps
  <2> QED
    BY <2>1, <2>2 DEF SearchInv, SearchTypes, NotStarted, StackIsPath, DoneIsClosed,
                      EdgesAreTried, DoneHasSinks, HasSink, VerdictHolds
<1> QED
  BY <1>1, CheckEdgeInv, VisitRootInv, LookAtInv, LeaveInv, AcceptInv DEF Graph!Next

LEMMA SearchInvImplies ==
    ASSUME SearchInv
    PROVE  VerdictIsTrue
<1>1. Graph!Proposed = Arrows
  BY DEF Graph!Proposed, Arrows, Graph!Chain
<1>2. verdict = "accepted" =>
          \A S \in (SUBSET Nodes) \ {{}} : \E n \in S : \A m \in S : <<n, m>> \notin Graph!Proposed
  BY <1>1 DEF SearchInv, VerdictHolds, HasSink
<1>3. verdict = "cycle" =>
          /\ Len(cycle) > 1 /\ cycle[1] = cycle[Len(cycle)]
          /\ \A i \in 1 .. (Len(cycle) - 1) : <<cycle[i], cycle[i + 1]>> \in Graph!Proposed
  BY <1>1 DEF SearchInv, VerdictHolds
<1> QED
  BY <1>2, <1>3 DEF VerdictIsTrue, Graph!VerdictIsTrue

-----------------------------------------------------------------------------
(* The composition: a step of one part leaves the others alone.            *)

ReadingInv == TimelineInv /\ RecallInv /\ SearchInv

LEMMA ReadingSteps ==
    ASSUME [ReadingNext]_readingVars
    PROVE  /\ [Dates!Next]_(Dates!vars)
           /\ [Topic!Next]_(Topic!vars)
           /\ [Graph!Next]_(Graph!vars)
<1>1. UNCHANGED walking => UNCHANGED Dates!vars
  BY DEF walking, Dates!vars
<1>2. UNCHANGED recalling => UNCHANGED Topic!vars
  BY DEF recalling, Topic!vars
<1>3. UNCHANGED proposing => UNCHANGED Graph!vars
  BY DEF proposing, Graph!vars
<1>4. CASE UNCHANGED readingVars
  BY <1>1, <1>2, <1>3, <1>4 DEF readingVars
<1>5. CASE StreamStep
  BY <1>1, <1>2, <1>3, <1>5 DEF StreamStep
<1>6. CASE TimelineStep
  BY <1>2, <1>3, <1>6 DEF TimelineStep
<1>7. CASE RecallStep
  BY <1>1, <1>3, <1>7 DEF RecallStep
<1>8. CASE GraphStep
  BY <1>1, <1>2, <1>8 DEF GraphStep
<1> QED
  BY <1>4, <1>5, <1>6, <1>7, <1>8 DEF ReadingNext

LEMMA ReadingInvariant == ReadingSpec => []ReadingInv
<1>1. ReadingInit => ReadingInv
  BY TimelineInit, RecallInit, SearchInit DEF ReadingInit, ReadingInv
<1>2. ReadingInv /\ [ReadingNext]_readingVars => ReadingInv'
  BY ReadingSteps, TimelineNext, RecallNext, SearchNext DEF ReadingInv
<1> QED
  BY <1>1, <1>2, PTL DEF ReadingSpec

\* A walk over the timeline's pages, with events committed between them, repeats
\* nothing and passes over nothing that it could see when it began
\* (list_event_cards of repositories/knowledge.py, the cursor of services/timeline.py).
THEOREM WalksAreComplete == ReadingSpec => []WalkIsComplete
<1>1. ReadingInv => WalkIsComplete
  BY TimelineInvImplies DEF ReadingInv
<1> QED
  BY <1>1, ReadingInvariant, PTL

\* Topic recall hands out a document once, and passes over one only when a shift of
\* the ranking moved it before the offset (RecallService of retrieval/recall.py).
THEOREM RecallPassesOverOnlyByJump == ReadingSpec => []PassedOverOnlyByJump
<1>1. ReadingInv => PassedOverOnlyByJump
  BY RecallInvImplies DEF ReadingInv
<1> QED
  BY <1>1, ReadingInvariant, PTL

\* The search of detect_cycles decides right: a chain it accepts has no cycle, and the
\* cycle it reports is one (services/evolution.py).
THEOREM VerdictsAreTrue == ReadingSpec => []VerdictIsTrue
<1>1. ReadingInv => VerdictIsTrue
  BY SearchInvImplies DEF ReadingInv
<1> QED
  BY <1>1, ReadingInvariant, PTL
=============================================================================
