---------------------------- MODULE IngestProofs -----------------------------
(***************************************************************************)
(* Proofs about Ingest.                                                    *)
(*                                                                         *)
(* The listing, for every adapter, page size, boundary size and number of  *)
(* overlapping runs.  A cursor is only ever made from a page, so           *)
(* the argument is about one page: if the cursor it was requested with     *)
(* covers what is known, the cursor it returns covers what is known once   *)
(* its items are.  Entries arriving push older ones down, which only       *)
(* weakens what a cursor claims.                                           *)
(*                                                                         *)
(* The documents, for any number of items, contents and overlapping runs.  *)
(* A fetch knows a capture of its item's document, if it knows one, and    *)
(* keeps it whatever others capture meanwhile.  No two captures have an    *)
(* instant in common, which makes the direction of a diff strict.  Of the  *)
(* runs that parse one capture at most one holds an insert, so a parse,    *)
(* its diff and its jobs are committed once.                               *)
(***************************************************************************)
EXTENDS Ingest, FiniteSetTheorems, TLAPS

(* The listing.                                                            *)

\* The part of a cursor's type the argument needs.
CursorOK(c) == c.page \in Nat /\ c.top \subseteq 1 .. published

DiscoveryInv ==
    /\ published \in 0 .. MaxEntries
    /\ at = [r \in Runs |-> at[r]]
    /\ page = [r \in Runs |-> page[r]]
    /\ CursorOK(stored)
    /\ \A r \in Runs : CursorOK(at[r]) /\ CursorOK(page[r].next)
    /\ Listing!CursorCovers
    /\ Listing!RunsCover

LEMMA CursorFields ==
    ASSUME NEW p, NEW s, NEW t, NEW d
    PROVE  /\ Listing!Cursor(p, s, t, d).page = p
           /\ Listing!Cursor(p, s, t, d).stop = s
           /\ Listing!Cursor(p, s, t, d).top = t
BY DEF Listing!Cursor

LEMMA StartCovers ==
    ASSUME NEW known
    PROVE  CursorOK(Listing!Start) /\ Listing!Covers(Listing!Start, known)
<1>1. Listing!Start.page = 0 /\ Listing!Start.stop = {} /\ Listing!Start.top = {}
  BY CursorFields DEF Listing!Start
<1> QED
  BY <1>1 DEF CursorOK, Listing!Covers

\* Products of naturals, for the provers.
LEMMA ProductFact ==
    ASSUME NEW p \in Nat \ {0}, PageSize \in Nat
    PROVE  /\ p * PageSize \in Nat
           /\ (p - 1) * PageSize \in Nat
           /\ ((p + 1) - 1) * PageSize = p * PageSize
OBVIOUS

\* The page a list adapter returns.
LEMMA ListPageCovers ==
    ASSUME published \in 0 .. MaxEntries,
           NEW c, NEW known, CursorOK(c), Listing!Covers(c, known)
    PROVE  /\ CursorOK(Listing!ListPage(published, c).next)
           /\ Listing!Covers(Listing!ListPage(published, c).next, known \cup Listing!ListPage(published, c).items)
<1> DEFINE p      == Listing!Position(c)
           listed == Listing!Listed(p, published)
           top    == IF c.page = 0 \/ c.top = {} THEN Listing!Front(listed) ELSE c.top
           more   == /\ listed \cap c.stop = {}
                     /\ Adapter = "page_param" \/ Listing!HasNext(p, published)
           after  == known \cup listed
           next   == Listing!ListPage(published, c).next
<1>1. Listing!ListPage(published, c).items = listed
  BY DEF Listing!ListPage
<1>2. next = IF more
             THEN Listing!Cursor(IF p < Listing!PageCap THEN p + 1 ELSE p, c.stop, top, NoDate)
             ELSE Listing!Cursor(0, top, {}, NoDate)
  BY DEF Listing!ListPage
<1>3. p \in Nat \ {0} /\ published \in Nat /\ PageSize \in Nat /\ MaxEntries \in Nat
  BY IngestAssumption DEF CursorOK, Listing!Position, Listing!DiscoveryAssumption
<1>4. /\ p * PageSize \in Nat
      /\ (p - 1) * PageSize \in Nat
      /\ ((p + 1) - 1) * PageSize = p * PageSize
  BY <1>3, ProductFact
<1>5. ASSUME NEW k \in Listing!Entries
      PROVE  k \in listed <=> /\ k <= published
                              /\ (p - 1) * PageSize <= published - k
                              /\ published - k < p * PageSize
  BY DEF Listing!Listed
<1>6. top \subseteq 1 .. published /\ ((top = c.top /\ c.page # 0) \/ top \subseteq listed)
  <2>1. listed \subseteq 1 .. published
    BY <1>3 DEF Listing!Listed, Listing!Entries
  <2> QED
    BY <2>1 DEF Listing!Front, CursorOK
<1> HIDE DEF next, top, more
\* What lies between the front of the walk and the end of this page is known.
<1>7. ASSUME NEW i \in top, NEW k \in Listing!Entries, k <= i, published - k < p * PageSize
      PROVE  k \in after
  <2>1. i \in Nat /\ k \in Nat /\ k <= published
    BY <1>3, <1>6, <1>7 DEF Listing!Entries
  <2>2. CASE (p - 1) * PageSize <= published - k
    BY <2>1, <2>2, <1>5, <1>7
  <2>3. CASE published - k < (p - 1) * PageSize
    <3>1. CASE top = c.top /\ c.page # 0
      <4>1. k \in known
        BY <3>1, <2>3, <1>7 DEF Listing!Covers
      <4> QED
        BY <4>1
    <3>2. CASE i \in listed
      <4>1. i \in Listing!Entries /\ (p - 1) * PageSize <= published - i
        BY <3>2 DEF Listing!Listed
      <4>2. published - i <= published - k
        BY <2>1, <1>3, <1>7
      <4> QED
        BY <4>1, <4>2, <2>1, <2>3, <1>3, <1>4
    <3> QED
      BY <3>1, <3>2, <1>6
  <2> QED
    BY <2>1, <2>2, <2>3, <1>3, <1>4
<1>8. CASE more
  <2>1. /\ next.page \in {p, p + 1} /\ next.stop = c.stop /\ next.top = top
    BY <1>2, <1>8, CursorFields
  <2>2. CursorOK(next)
    BY <2>1, <1>3, <1>6 DEF CursorOK
  <2>3. \A i \in next.stop : 1 .. i \subseteq after
    BY <2>1 DEF Listing!Covers
  <2>4. ASSUME NEW i \in next.top, NEW k \in Listing!Entries, k <= i,
               published - k < (Listing!Position(next) - 1) * PageSize
        PROVE  k \in after
    <3>1. Listing!Position(next) = next.page
      BY <2>1, <1>3 DEF Listing!Position
    <3>2. k \in Nat /\ published - k \in Int
      BY <1>3 DEF Listing!Entries
    <3>3. (p - 1) * PageSize <= p * PageSize
      BY <1>3
    <3>4. published - k < p * PageSize
      BY <3>1, <3>2, <3>3, <2>1, <2>4, <1>4
    <3> QED
      BY <3>4, <2>1, <2>4, <1>7
  <2> QED
    BY <1>1, <2>2, <2>3, <2>4 DEF Listing!Covers, next
<1>9. CASE ~more
  <2>1. next.page = 0 /\ next.stop = top /\ next.top = {}
    BY <1>2, <1>9, CursorFields
  <2>2. CursorOK(next)
    BY <2>1 DEF CursorOK
  <2>3. ASSUME NEW i \in top, NEW k \in 1 .. i
        PROVE  k \in after
    <3>1. k \in Listing!Entries /\ i \in Nat /\ k \in Nat /\ k <= i /\ k <= published
      BY <1>3, <1>6 DEF Listing!Entries
    <3>2. CASE listed \cap c.stop # {}
      <4>1. PICK b \in listed : b \in c.stop
        BY <3>2
      <4>2. b \in Nat /\ published - b < p * PageSize
        BY <4>1 DEF Listing!Listed, Listing!Entries
      <4>3. CASE k <= b
        BY <4>1, <4>2, <4>3, <3>1 DEF Listing!Covers
      <4>4. CASE b < k
        <5>1. published - k < p * PageSize
          BY <4>2, <4>4, <3>1, <1>3, <1>4
        <5> QED
          BY <5>1, <3>1, <1>7
      <4> QED
        BY <4>2, <4>3, <4>4, <3>1
    <3>3. CASE listed \cap c.stop = {}
      <4>1. ~Listing!HasNext(p, published)
        BY <3>3, <1>9 DEF more
      <4>2. published - k < p * PageSize
        BY <4>1, <3>1, <1>3, <1>4 DEF Listing!HasNext
      <4> QED
        BY <4>2, <3>1, <1>7
    <3> QED
      BY <3>2, <3>3
  <2> QED
    BY <1>1, <2>1, <2>2, <2>3 DEF Listing!Covers, next
<1> QED
  BY <1>8, <1>9

\* What a syndication cursor hides it hides by date: it has no boundary URLs.
LEMMA FeedPageCovers ==
    ASSUME published \in 0 .. MaxEntries,
           NEW c, NEW known, CursorOK(c)
    PROVE  /\ CursorOK(Listing!FeedPage(published, c).next)
           /\ Listing!Covers(Listing!FeedPage(published, c).next, known)
<1> DEFINE p == Listing!Position(c)
<1>1. p \in Nat
  BY DEF CursorOK, Listing!Position
<1>2. PICK d : Listing!FeedPage(published, c).next
                 = Listing!Cursor(IF Listing!HasNext(p, published) THEN p + 1 ELSE 0, {}, {}, d)
  BY DEF Listing!FeedPage
<1> QED
  BY <1>1, <1>2, CursorFields DEF CursorOK, Listing!Covers

LEMMA PageCovers ==
    ASSUME published \in 0 .. MaxEntries,
           NEW c, NEW known, CursorOK(c), Listing!Covers(c, known)
    PROVE  /\ CursorOK(Listing!Page(published, c).next)
           /\ Listing!Covers(Listing!Page(published, c).next, known \cup Listing!Page(published, c).items)
BY ListPageCovers, FeedPageCovers DEF Listing!Page

-----------------------------------------------------------------------------
LEMMA DiscoveryInit == Listing!Init => DiscoveryInv
<1> SUFFICES ASSUME Listing!Init PROVE DiscoveryInv
  OBVIOUS
<1>1. published \in 0 .. MaxEntries
  BY IngestAssumption DEF Listing!Init, Listing!DiscoveryAssumption
<1>2. Listing!NoPage.next = Listing!Start
  BY DEF Listing!NoPage
<1> QED
  BY <1>1, <1>2, StartCovers DEF Listing!Init, DiscoveryInv, Listing!CursorCovers, Listing!RunsCover

LEMMA DiscoveryNext == DiscoveryInv /\ [Listing!Next]_(Listing!vars) => DiscoveryInv'
<1> SUFFICES ASSUME DiscoveryInv, [Listing!Next]_(Listing!vars) PROVE DiscoveryInv'
  OBVIOUS
<1> USE DEF DiscoveryInv, Listing!CursorCovers, Listing!RunsCover
<1>0. published \in Nat /\ MaxEntries \in Nat
  BY IngestAssumption DEF Listing!DiscoveryAssumption
<1>a. Listing!NoPage.next = Listing!Start
  BY DEF Listing!NoPage
<1>1. CASE Listing!Publish
  <2>1. /\ published' = published + 1 /\ published' \in 0 .. MaxEntries
        /\ UNCHANGED <<found, stored, at, page>>
    BY <1>0, <1>1 DEF Listing!Publish
  <2>2. ASSUME NEW c, NEW known, CursorOK(c), Listing!Covers(c, known)
        PROVE  /\ c.page \in Nat
               /\ c.top \subseteq 1 .. published'
               /\ \A i \in c.stop : 1 .. i \subseteq known
               /\ \A i \in c.top, k \in Listing!Entries :
                     k <= i /\ published' - k < (Listing!Position(c) - 1) * PageSize => k \in known
    <3>1. c.top \subseteq 1 .. published'
      BY <1>0, <2>1, <2>2 DEF CursorOK
    <3>2. ASSUME NEW i \in c.top, NEW k \in Listing!Entries, k <= i,
                 published' - k < (Listing!Position(c) - 1) * PageSize
          PROVE  k \in known
      <4>1. PageSize \in Nat /\ Listing!Position(c) \in Nat \ {0} /\ k \in Nat
        BY IngestAssumption, <2>2 DEF Listing!DiscoveryAssumption, CursorOK, Listing!Position, Listing!Entries
      <4>2. (Listing!Position(c) - 1) * PageSize \in Nat
        BY <4>1, ProductFact
      <4>3. published - k < (Listing!Position(c) - 1) * PageSize
        BY <4>1, <4>2, <3>2, <2>1, <1>0
      <4> QED
        BY <4>3, <3>2, <2>2 DEF Listing!Covers
    <3> QED
      BY <3>1, <3>2, <2>2 DEF CursorOK, Listing!Covers
  <2>3. CursorOK(stored)' /\ Listing!Covers(stored, found)'
    BY <2>1, <2>2 DEF CursorOK, Listing!Covers, Listing!Position
  <2>4. ASSUME NEW r \in Runs
        PROVE  /\ CursorOK(at[r])' /\ CursorOK(page[r].next)'
               /\ Listing!Covers(at[r], found)'
               /\ Listing!Covers(page[r].next, found \cup page[r].items)'
    <3>1. CursorOK(at[r])' /\ Listing!Covers(at[r], found)'
      BY <2>1, <2>2 DEF CursorOK, Listing!Covers, Listing!Position
    <3>2. PICK c, known : c = page[r].next /\ known = found \cup page[r].items
      OBVIOUS
    <3>3. CursorOK(c) /\ Listing!Covers(c, known)
      BY <3>2
    <3>4. page'[r].next = c /\ found' \cup page'[r].items = known
      BY <3>2, <2>1
    <3>5. CursorOK(page[r].next)' /\ Listing!Covers(page[r].next, found \cup page[r].items)'
      <4>1. /\ c.page \in Nat
            /\ c.top \subseteq 1 .. published'
            /\ \A i \in c.stop : 1 .. i \subseteq known
            /\ \A i \in c.top, k \in Listing!Entries :
                  k <= i /\ published' - k < (Listing!Position(c) - 1) * PageSize => k \in known
        BY ONLY <3>3, <2>2
      <4>2. CursorOK(page[r].next)'
        BY ONLY <4>1, <3>4 DEF CursorOK
      <4>3. Listing!Covers(page[r].next, found \cup page[r].items)'
        BY ONLY <4>1, <3>4 DEF Listing!Covers, Listing!Position
      <4> QED
        BY <4>2, <4>3
    <3> QED
      BY <3>1, <3>5
  <2> QED
    BY <2>1, <2>3, <2>4
<1>2. ASSUME NEW r \in Runs, Listing!Begin(r) PROVE DiscoveryInv'
  <2>1. /\ UNCHANGED <<published, found, stored, page>>
        /\ at' = [at EXCEPT ![r] = stored]
    BY <1>2 DEF Listing!Begin
  <2>2. \A s \in Runs : at'[s] = IF s = r THEN stored ELSE at[s]
    BY <2>1
  <2> QED
    BY <2>1, <2>2 DEF CursorOK, Listing!Covers
<1>3. ASSUME NEW r \in Runs, Listing!Request(r) PROVE DiscoveryInv'
  <2>1. /\ UNCHANGED <<published, found, stored, at>>
        /\ page' = [page EXCEPT ![r] = Listing!Page(published, at[r])]
    BY <1>3 DEF Listing!Request
  <2>2. \A s \in Runs : page'[s] = IF s = r THEN Listing!Page(published, at[r]) ELSE page[s]
    BY <2>1
  <2>3. /\ CursorOK(Listing!Page(published, at[r]).next)
        /\ Listing!Covers(Listing!Page(published, at[r]).next, found \cup Listing!Page(published, at[r]).items)
    BY PageCovers
  <2> QED
    BY <2>1, <2>2, <2>3 DEF CursorOK, Listing!Covers
\* A run that leaves or goes on takes a cursor that is covered by then.
<1>4. ASSUME NEW r \in Runs, Listing!Leave(r) \/ Listing!GoOn(r),
             UNCHANGED published, found \subseteq found',
             page[r].items \subseteq found' \/ Listing!Leave(r),
             CursorOK(stored)', Listing!Covers(stored, found)'
      PROVE  DiscoveryInv'
  <2>1. /\ page' = [page EXCEPT ![r] = Listing!NoPage]
        /\ at' = [at EXCEPT ![r] = Listing!Start] \/ at' = [at EXCEPT ![r] = page[r].next]
    BY <1>4 DEF Listing!Leave, Listing!GoOn
  <2>2. /\ at' = [s \in Runs |-> at'[s]]
        /\ page' = [s \in Runs |-> page'[s]]
        /\ \A s \in Runs : page'[s] = IF s = r THEN Listing!NoPage ELSE page[s]
        /\ \A s \in Runs : s # r => at'[s] = at[s]
        /\ Listing!Leave(r) => at'[r] = Listing!Start
        /\ Listing!GoOn(r) => at'[r] = page[r].next
    BY <2>1, <1>4 DEF Listing!Leave, Listing!GoOn
  <2>3. ASSUME NEW c, NEW known
        PROVE  CursorOK(c) /\ Listing!Covers(c, known) =>
                 /\ c.page \in Nat /\ c.top \subseteq 1 .. published'
                 /\ \A i \in c.stop : 1 .. i \subseteq known
                 /\ \A i \in c.top, k \in Listing!Entries :
                       k <= i /\ published' - k < (Listing!Position(c) - 1) * PageSize => k \in known
    BY <1>4 DEF CursorOK, Listing!Covers
  <2>4. CursorOK(at[r])' /\ Listing!Covers(at[r], found)'
    <3>1. CASE Listing!Leave(r)
      BY <3>1, <2>2, <2>3, StartCovers DEF CursorOK, Listing!Covers, Listing!Position
    <3>2. CASE ~Listing!Leave(r)
      <4>1. Listing!Covers(page[r].next, found')
        <5>1. found \cup page[r].items \subseteq found'
          BY <3>2, <1>4
        <5> QED
          BY <5>1 DEF Listing!Covers
      <4>2. at'[r] = page[r].next
        BY <3>2, <2>2, <1>4
      <4> QED
        BY <4>1, <4>2, <2>3 DEF CursorOK, Listing!Covers, Listing!Position
    <3> QED
      BY <3>1, <3>2
  <2>5. CursorOK(page[r].next)' /\ Listing!Covers(page[r].next, found \cup page[r].items)'
    <3>1. page'[r].next = Listing!Start
      BY <2>2, <1>a
    <3>2. PICK known : known = found' \cup page'[r].items
      OBVIOUS
    <3>3. CursorOK(Listing!Start) /\ Listing!Covers(Listing!Start, known)
      <4>1. Listing!Start.page = 0 /\ Listing!Start.stop = {} /\ Listing!Start.top = {}
        BY CursorFields DEF Listing!Start
      <4> QED
        BY <4>1 DEF CursorOK, Listing!Covers
    <3>4. found' \cup page'[r].items = known
      BY <3>2
    <3> QED
      <4>1. /\ Listing!Start.page \in Nat
            /\ Listing!Start.top \subseteq 1 .. published'
            /\ \A i \in Listing!Start.stop : 1 .. i \subseteq known
            /\ \A i \in Listing!Start.top, k \in Listing!Entries :
                  k <= i /\ published' - k < (Listing!Position(Listing!Start) - 1) * PageSize => k \in known
        BY ONLY <3>3, <2>3
      <4>2. CursorOK(page[r].next)'
        BY ONLY <4>1, <3>1, <3>4 DEF CursorOK
      <4>3. Listing!Covers(page[r].next, found \cup page[r].items)'
        BY ONLY <4>1, <3>1, <3>4 DEF Listing!Covers, Listing!Position
      <4> QED
        BY <4>2, <4>3
  <2>6. ASSUME NEW s \in Runs, s # r
        PROVE  /\ CursorOK(at[s])' /\ Listing!Covers(at[s], found)'
               /\ CursorOK(page[s].next)'
               /\ Listing!Covers(page[s].next, found \cup page[s].items)'
    <3>1. at'[s] = at[s] /\ page'[s] = page[s]
      BY <2>2, <2>6
    <3>2. Listing!Covers(at[s], found') /\ Listing!Covers(page[s].next, found' \cup page[s].items)
      <4>1. found \cup page[s].items \subseteq found' \cup page[s].items
        BY <1>4
      <4> QED
        BY <4>1, <1>4 DEF Listing!Covers
    <3>3. CursorOK(at[s]) /\ CursorOK(page[s].next)
      OBVIOUS
    <3>4. CursorOK(at[s])' /\ Listing!Covers(at[s], found)'
      BY <3>1, <3>2, <3>3, <2>3 DEF CursorOK, Listing!Covers, Listing!Position
    <3>5. PICK c, known : c = page[s].next /\ known = found' \cup page[s].items
      OBVIOUS
    <3>6. CursorOK(c) /\ Listing!Covers(c, known)
      BY <3>2, <3>3, <3>5
    <3>7. page'[s].next = c /\ found' \cup page'[s].items = known
      BY <3>1, <3>5
    <3>8. CursorOK(page[s].next)' /\ Listing!Covers(page[s].next, found \cup page[s].items)'
      <4>1. /\ c.page \in Nat
            /\ c.top \subseteq 1 .. published'
            /\ \A i \in c.stop : 1 .. i \subseteq known
            /\ \A i \in c.top, k \in Listing!Entries :
                  k <= i /\ published' - k < (Listing!Position(c) - 1) * PageSize => k \in known
        BY ONLY <3>6, <2>3
      <4>2. CursorOK(page[s].next)'
        BY ONLY <4>1, <3>7 DEF CursorOK
      <4>3. Listing!Covers(page[s].next, found \cup page[s].items)'
        BY ONLY <4>1, <3>7 DEF Listing!Covers, Listing!Position
      <4> QED
        BY <4>2, <4>3
    <3> QED
      BY <3>4, <3>8
  <2> QED
    BY <2>2, <2>4, <2>5, <2>6, <1>4
<1>5. ASSUME NEW r \in Runs, Listing!Commit(r) PROVE DiscoveryInv'
  <2>1. /\ UNCHANGED published
        /\ found' = found \cup page[r].items
        /\ stored' = page[r].next
        /\ Listing!Leave(r) \/ Listing!GoOn(r)
    BY <1>5 DEF Listing!Commit, Listing!Upsert, Listing!SaveCursor
  <2>2. CursorOK(stored)' /\ Listing!Covers(stored, found)'
    BY <2>1 DEF CursorOK, Listing!Covers, Listing!Position
  <2> QED
    BY <2>1, <2>2, <1>4
<1>6. ASSUME NEW r \in Runs, Listing!Fail(r) PROVE DiscoveryInv'
  <2>1. UNCHANGED <<published, found, stored>> /\ Listing!Leave(r)
    BY <1>6 DEF Listing!Fail
  <2>2. CursorOK(stored)' /\ Listing!Covers(stored, found)'
    BY <2>1 DEF CursorOK, Listing!Covers, Listing!Position
  <2> QED
    BY <2>1, <2>2, <1>4
<1>7. CASE UNCHANGED Listing!vars
  BY <1>7 DEF Listing!vars, CursorOK, Listing!Covers, Listing!Position
<1> QED
  BY <1>1, <1>2, <1>3, <1>5, <1>6, <1>7 DEF Listing!Next

\* Whatever the interleaving of runs, failures, budgets and new entries, the
\* stored cursor, and the cursors of the runs that are under way, hide nothing
\* that is not a discovery item.
THEOREM CursorsCoverTheorem == ListingSpec => []CursorsCover
<1>1. DiscoveryInv => CursorsCover
  BY DEF DiscoveryInv, CursorsCover, Listing!CursorsCover
<1>2. [Listing!Next /\ UNCHANGED vars]_<<vars, listing>> => [Listing!Next]_(Listing!vars)
  BY DEF listing, Listing!vars
<1> QED
  BY <1>1, <1>2, DiscoveryInit, DiscoveryNext, PTL DEF ListingSpec

-----------------------------------------------------------------------------
(* The documents.                                                          *)

\* Among bounded numbers there is a greatest one.
LEMMA MaxExists ==
    ASSUME NEW S, NEW B \in Nat, S # {}, S \subseteq 0 .. B
    PROVE  \E n \in S : \A m \in S : m <= n
<1> DEFINE R == StrictSubsetOrdering(0 .. B)
           T == {(n + 1) .. B : n \in S}
<1>1. T \subseteq SUBSET (0 .. B) /\ T # {}
  <2>1. \A n \in S : (n + 1) .. B \subseteq 0 .. B
    OBVIOUS
  <2> QED
    BY <2>1
<1>2. IsWellFoundedOn(R, SUBSET (0 .. B))
  BY FS_StrictSubsetOrderingWellFounded, FS_FiniteSubsetsOfFinite, FS_Interval, 0 \in Int, B \in Int, Zenon
<1> HIDE DEF R
<1>3. PICK t \in T : \A y \in T : ~ (<<y, t>> \in R)
  BY <1>1, <1>2, WFMin, Zenon
<1>4. PICK n \in S : t = (n + 1) .. B
  BY <1>3
<1>5. \A m \in S : m <= n
  <2> SUFFICES ASSUME NEW m \in S, ~ (m <= n)
               PROVE  FALSE
    OBVIOUS
  <2>1. (m + 1) .. B \in T
    OBVIOUS
  <2>2. (m + 1) .. B \subseteq (n + 1) .. B /\ m \in (n + 1) .. B /\ m \notin (m + 1) .. B
    OBVIOUS
  <2>3. <<(m + 1) .. B, t>> \in R
    BY <1>1, <1>4, <2>1, <2>2 DEF R, StrictSubsetOrdering
  <2> QED
    BY <1>3, <2>1, <2>3
<1> QED
  BY <1>5

-----------------------------------------------------------------------------
(* The invariant.                                                          *)

FetchRows ==
    [pc : {"idle", "asked", "answered", "writing", "stored", "found"},
     item : Items \cup {None}, prior : Captures \cup {None},
     outcome : Outcomes \cup {None}, served : Contents \cup {None},
     at : Nat, hasBlob : BOOLEAN, hasDoc : BOOLEAN]

ParseRows ==
    [pc : {"idle", "read", "paired"}, capture : Captures \cup {None},
     ok : BOOLEAN, created : BOOLEAN, prior : Captures \cup {None}, at : Nat]

SeenOK ==
    /\ seen \subseteq Observation
    /\ \A o \in seen : o.outcome \in {"captured", "no_change"} /\ o.served # None
                        => o.capture \in Captures

CaptureTypes ==
    /\ origins \subseteq Items
    /\ captures \in [Captures -> Nat]
    /\ current \in [Urls -> Contents \cup {None}]
    /\ blobs \subseteq Contents
    /\ objects \in [Contents -> {"absent", "torn", "whole"}]
    /\ SeenOK
    /\ jobs \subseteq JobKinds \X Captures
    /\ parses \in [Captures -> [at : Nat, ok : BOOLEAN]]
    /\ diffs \subseteq Captures \X Captures
    /\ clock \in Nat
    /\ fetch \in [Fetchers -> FetchRows]
    /\ parse \in [Parsers -> ParseRows]

\* A fetch that has read its item knows a capture of the item's document, if any
\* capture; one that has an answer has an instant, and what it was served.
FetchOK(r) ==
    /\ r.pc = "idle" => r.at = 0
    /\ r.pc # "idle" =>
          /\ r.item \in Items
          /\ r.prior # None => r.prior[1] = UrlOf[r.item] /\ Exists(r.prior)
    /\ r.pc \in {"answered", "writing", "stored", "found"} =>
          /\ r.at # 0
          /\ r.outcome \in Outcomes
          /\ r.outcome = "no_change" =>
                r.served = IF r.prior = None THEN None ELSE r.prior[2]
          /\ r.outcome = "captured" => r.served \in Contents
    /\ r.pc \in {"writing", "stored", "found"} =>
          r.outcome = "captured" /\ objects[r.served] # "absent"

\* No two captures, nor a capture and a fetch, nor two fetches have an instant
\* in common.
InstantsApart ==
    /\ \A c \in Captures : captures[c] <= clock
    /\ \A f \in Fetchers : fetch[f].at <= clock
    /\ \A c, d \in Captures : c # d /\ Exists(c) => captures[c] # captures[d]
    /\ \A f \in Fetchers, c \in Captures : fetch[f].at # 0 => captures[c] # fetch[f].at
    /\ \A f, g \in Fetchers : f # g /\ fetch[f].at # 0 => fetch[f].at # fetch[g].at

\* A parse that holds its insert is the only one of its capture, and has chosen
\* a readable parse of another capture of the document to compare with.
ParseOK(r) ==
    /\ r.pc # "idle" => r.capture \in Captures /\ Exists(r.capture)
    /\ r.pc # "paired" => r.at = 0
    /\ r.pc = "paired" /\ r.created => r.at # 0 /\ ~Parsed(r.capture)
    /\ r.pc = "paired" /\ ~r.created => Parsed(r.capture) /\ r.prior = None
    /\ r.pc = "paired" /\ r.prior # None =>
          /\ r.ok
          /\ r.prior # r.capture
          /\ r.prior[1] = r.capture[1]
          /\ Readable(r.prior)

ParsesApart ==
    \A p, q \in Parsers :
        /\ p # q
        /\ parse[p].pc = "paired" /\ parse[p].created
        /\ parse[q].pc = "paired" /\ parse[q].created
        => parse[p].capture # parse[q].capture

ParseTimesOK ==
    /\ \A c \in Captures : parses[c].at <= MaxParses
    /\ \A p \in Parsers : parse[p].at <= MaxParses

CaptureInv ==
    /\ CaptureTypes
    /\ \A f \in Fetchers : FetchOK(fetch[f])
    /\ InstantsApart
    /\ \A p \in Parsers : ParseOK(parse[p])
    /\ ParsesApart
    /\ ParseTimesOK
    /\ \A x \in blobs : objects[x] # "absent"
    /\ ObservationsTrue
    /\ DiffsForward
    /\ ChainUnbroken

-----------------------------------------------------------------------------
(* The newest capture and the newest parse.                                *)

LEMMA LatestCaptureIs ==
    ASSUME CaptureTypes, InstantsApart, NEW i \in Items, LatestCapture(i) # None
    PROVE  /\ LatestCapture(i) \in Captures
           /\ LatestCapture(i)[1] = UrlOf[i]
           /\ Exists(LatestCapture(i))
<1> DEFINE own == {c \in Captures : c[1] = UrlOf[i] /\ Exists(c)}
           S == {captures[c] : c \in own}
<1>1. own # {}
  BY DEF LatestCapture
<1>2. clock \in Nat /\ S \subseteq 0 .. clock /\ S # {}
  BY <1>1 DEF CaptureTypes, InstantsApart
<1>3. PICK n \in S : \A m \in S : m <= n
  <2> HIDE DEF S
  <2> QED
    BY <1>2, MaxExists
<1>4. \E c \in own : \A d \in own : captures[d] <= captures[c]
  BY <1>3
<1>5. LatestCapture(i) = CHOOSE c \in own : \A d \in own : captures[d] <= captures[c]
  BY <1>1 DEF LatestCapture
<1> HIDE DEF own
<1>6. LatestCapture(i) \in own
  BY <1>4, <1>5
<1> QED
  BY <1>6 DEF own

LEMMA LatestParseIs ==
    ASSUME CaptureTypes, ParseTimesOK, NEW c \in Captures, LatestParse(c) # None,
           MaxParses \in Nat
    PROVE  /\ LatestParse(c) \in Captures
           /\ LatestParse(c)[1] = c[1]
           /\ LatestParse(c) # c
           /\ Readable(LatestParse(c))
<1> DEFINE others == {d \in Captures : d[1] = c[1] /\ d # c /\ Readable(d)}
           S == {parses[d].at : d \in others}
<1>1. others # {}
  BY DEF LatestParse
<1>2. S \subseteq 0 .. MaxParses /\ S # {}
  BY <1>1 DEF CaptureTypes, ParseTimesOK
<1>3. PICK n \in S : \A m \in S : m <= n
  <2> HIDE DEF S
  <2> QED
    BY <1>2, MaxExists
<1>4. \E d \in others : \A e \in others : parses[e].at <= parses[d].at
  BY <1>3
<1>5. LatestParse(c) = CHOOSE d \in others : \A e \in others : parses[e].at <= parses[d].at
  BY <1>1 DEF LatestParse
<1> HIDE DEF others
<1>6. LatestParse(c) \in others
  BY <1>4, <1>5
<1> QED
  BY <1>6 DEF others

LEMMA NextParseTimeIs ==
    ASSUME CaptureTypes, ParseTimesOK, MaxParses \in Nat, NEW p \in Parsers
    PROVE  NextParseTime \in Nat /\ NextParseTime # 0
<1>1. ParseTimes \subseteq 0 .. MaxParses
  BY DEF CaptureTypes, ParseTimesOK, ParseTimes, ParseRows
<1>2. ParseTimes # {}
  BY DEF ParseTimes
<1>3. \E n \in ParseTimes : \A m \in ParseTimes : m <= n
  BY <1>1, <1>2, MaxExists
<1> DEFINE newest == CHOOSE n \in ParseTimes : \A m \in ParseTimes : m <= n
<1>5. newest \in ParseTimes
  BY <1>3
<1> HIDE DEF newest
<1>4. newest \in Nat
  BY <1>1, <1>5
<1> QED
  BY <1>4 DEF NextParseTime, newest

-----------------------------------------------------------------------------
(* Fetches.                                                                *)

LEMMA InitInv == Init => CaptureInv
<1> SUFFICES ASSUME Init PROVE CaptureInv
  OBVIOUS
<1> USE CaptureAssumption
<1>1. NoFetch \in FetchRows /\ NoFetch.pc = "idle" /\ NoFetch.at = 0
  BY DEF NoFetch, FetchRows
<1>2. NoParse \in ParseRows /\ NoParse.pc = "idle" /\ NoParse.at = 0
  BY DEF NoParse, ParseRows
<1>3. fetch \in [Fetchers -> FetchRows] /\ parse \in [Parsers -> ParseRows]
  BY <1>1, <1>2 DEF Init
<1>4. CaptureTypes
  BY <1>3 DEF Init, CaptureTypes, SeenOK
<1>5. \A f \in Fetchers : FetchOK(fetch[f])
  BY <1>1 DEF Init, FetchOK
<1>6. InstantsApart
  BY <1>1 DEF Init, InstantsApart, Exists
<1>7. \A p \in Parsers : ParseOK(parse[p])
  BY <1>2 DEF Init, ParseOK
<1>8. ParsesApart /\ ParseTimesOK
  BY <1>2 DEF Init, ParsesApart, ParseTimesOK
<1>9. ObservationsTrue /\ DiffsForward /\ (\A x \in blobs : objects[x] # "absent")
  BY DEF Init, ObservationsTrue, DiffsForward
<1>10. ChainUnbroken
  BY DEF Init, ChainUnbroken, Exists, Parsed, Readable
<1> QED
  BY <1>4, <1>5, <1>6, <1>7, <1>8, <1>9, <1>10 DEF CaptureInv

\* What parses rely on: captures are only added.
LEMMA ParsesRely ==
    ASSUME CaptureInv, captures' \in [Captures -> Nat],
           \A c \in Captures : Exists(c) => captures'[c] = captures[c],
           UNCHANGED <<parse, parses, diffs>>
    PROVE  /\ \A p \in Parsers : ParseOK(parse[p])'
           /\ ParsesApart' /\ ParseTimesOK' /\ DiffsForward'
<1>1. \A p \in Parsers : ParseOK(parse[p])'
  BY DEF CaptureInv, ParseOK, Exists, Parsed, Readable
<1>2. ParsesApart' /\ ParseTimesOK'
  BY DEF CaptureInv, ParsesApart, ParseTimesOK
<1>3. DiffsForward'
  <2> SUFFICES ASSUME NEW d \in diffs
               PROVE  /\ d[1][1] = d[2][1]
                      /\ captures'[d[1]] < captures'[d[2]]
                      /\ Readable(d[1])' /\ Readable(d[2])'
    BY DEF DiffsForward
  <2>1. /\ d[1] \in Captures /\ d[2] \in Captures
        /\ d[1][1] = d[2][1]
        /\ captures[d[1]] < captures[d[2]]
        /\ Readable(d[1]) /\ Readable(d[2])
    BY DEF CaptureInv, CaptureTypes, DiffsForward
  <2>2. Exists(d[1]) /\ Exists(d[2])
    BY <2>1 DEF CaptureInv, ChainUnbroken, Readable
  <2> QED
    BY <2>1, <2>2 DEF Readable, Parsed
<1> QED
  BY <1>1, <1>2, <1>3

\* What fetches rely on: captures are only added and no file disappears.
LEMMA FetchesRely ==
    ASSUME CaptureInv, NEW f \in Fetchers,
           fetch' = [fetch EXCEPT ![f] = fetch'[f]],
           fetch'[f] \in FetchRows, FetchOK(fetch[f])',
           captures' \in [Captures -> Nat],
           \A c \in Captures : Exists(c) => captures'[c] = captures[c],
           objects' \in [Contents -> {"absent", "torn", "whole"}],
           \A x \in Contents : objects[x] # "absent" => objects'[x] # "absent"
    PROVE  /\ fetch' \in [Fetchers -> FetchRows]
           /\ \A g \in Fetchers : FetchOK(fetch[g])'
<1>1. fetch' \in [Fetchers -> FetchRows]
  BY DEF CaptureInv, CaptureTypes
<1>2. ASSUME NEW g \in Fetchers, g # f
      PROVE  FetchOK(fetch[g])'
  <2>1. fetch'[g] = fetch[g] /\ fetch[g] \in FetchRows /\ FetchOK(fetch[g])
    BY <1>2 DEF CaptureInv, CaptureTypes
  <2>2. fetch[g].prior # None => fetch[g].prior \in Captures
    BY <2>1 DEF FetchRows
  <2> QED
    BY <2>1, <2>2 DEF FetchOK, Exists
<1> QED
  BY <1>1, <1>2

\* A step of one fetch that adds no capture and gives out no instant.
LEMMA QuietFetch ==
    ASSUME CaptureInv, NEW f \in Fetchers,
           fetch' = [fetch EXCEPT ![f] = fetch'[f]],
           fetch'[f] \in FetchRows, FetchOK(fetch[f])',
           fetch'[f].at \in {0, fetch[f].at},
           origins' = origins, SeenOK', ObservationsTrue',
           UNCHANGED <<captures, current, blobs, clock, jobs, parsed, parse>>,
           objects' \in [Contents -> {"absent", "torn", "whole"}],
           \A x \in Contents : objects[x] # "absent" => objects'[x] # "absent"
    PROVE  CaptureInv'
<1>1. UNCHANGED <<parse, parses, diffs>>
  BY DEF parsed
<1>2. captures' \in [Captures -> Nat] /\ \A c \in Captures : captures'[c] = captures[c]
  BY DEF CaptureInv, CaptureTypes
<1>3. /\ \A p \in Parsers : ParseOK(parse[p])'
      /\ ParsesApart' /\ ParseTimesOK' /\ DiffsForward'
  BY <1>1, <1>2, ParsesRely
<1>4. fetch' \in [Fetchers -> FetchRows] /\ \A g \in Fetchers : FetchOK(fetch[g])'
  BY <1>2, FetchesRely
<1>5. CaptureTypes'
  BY <1>1, <1>2, <1>4 DEF CaptureInv, CaptureTypes
<1>6. InstantsApart'
  <2>1. fetch \in [Fetchers -> FetchRows] /\ clock \in Nat
    BY DEF CaptureInv, CaptureTypes
  <2>2. \A g \in Fetchers : /\ fetch[g].at \in Nat
                            /\ fetch'[g].at \in {0, fetch[g].at}
    BY <2>1 DEF FetchRows
  <2> QED
    BY <2>1, <2>2 DEF CaptureInv, InstantsApart, Exists
<1>7. \A x \in blobs' : objects'[x] # "absent"
  BY DEF CaptureInv, CaptureTypes
<1>8. ChainUnbroken'
  <2> SUFFICES ASSUME NEW c \in Captures
               PROVE  /\ Exists(c)' <=> <<"parse", c>> \in jobs'
                      /\ Exists(c)' => /\ c[2] \in blobs'
                                       /\ objects'[c[2]] # "absent"
                                       /\ current'[c[1]] # None
                      /\ Parsed(c)' => Exists(c)'
                      /\ \A kind \in {"index", "route"} : Readable(c)' <=> <<kind, c>> \in jobs'
    BY DEF ChainUnbroken
  <2>1. c[2] \in Contents
    BY DEF Captures
  <2> QED
    BY <1>1, <2>1 DEF CaptureInv, ChainUnbroken, Exists, Parsed, Readable
<1> QED
  BY <1>3, <1>4, <1>5, <1>6, <1>7, <1>8 DEF CaptureInv

LEMMA SeenKept ==
    ASSUME CaptureInv, UNCHANGED <<seen, captures>>
    PROVE  SeenOK' /\ ObservationsTrue'
BY DEF CaptureInv, CaptureTypes, SeenOK, ObservationsTrue, Exists

\* A run that is over.
LEMMA OverIsOK ==
    ASSUME NEW f \in Fetchers, CaptureInv, fetch' = [fetch EXCEPT ![f] = NoFetch]
    PROVE  /\ fetch' = [fetch EXCEPT ![f] = fetch'[f]]
           /\ fetch'[f] \in FetchRows
           /\ FetchOK(fetch[f])'
           /\ fetch'[f].at \in {0, fetch[f].at}
<1>1. fetch'[f] = NoFetch
  BY DEF CaptureInv, CaptureTypes
<1>2. NoFetch \in FetchRows /\ NoFetch.pc = "idle" /\ NoFetch.at = 0
  BY DEF NoFetch, FetchRows
<1> QED
  BY <1>1, <1>2 DEF FetchOK

LEMMA BeginFetchInv ==
    ASSUME CaptureInv, NEW f \in Fetchers, NEW i \in Items, BeginFetch(f, i)
    PROVE  CaptureInv'
<1> DEFINE prior == LatestCapture(i)
<1>1. prior # None => /\ prior \in Captures
                      /\ prior[1] = UrlOf[i]
                      /\ Exists(prior)
  BY LatestCaptureIs DEF CaptureInv
<1> HIDE DEF prior
<1>2. fetch'[f] = [pc |-> "asked", item |-> i, prior |-> prior,
                   outcome |-> None, served |-> None, at |-> 0,
                   hasBlob |-> FALSE, hasDoc |-> FALSE]
  BY DEF BeginFetch, CaptureInv, CaptureTypes, prior
<1>3. fetch'[f] \in FetchRows
  BY <1>1, <1>2 DEF FetchRows
<1>4. UNCHANGED <<captures, objects>>
  BY DEF BeginFetch, pool
<1>5. FetchOK(fetch[f])'
  BY <1>1, <1>2, <1>4 DEF FetchOK, Exists
<1>6. fetch' = [fetch EXCEPT ![f] = fetch'[f]] /\ fetch'[f].at \in {0, fetch[f].at}
  <2>1. fetch \in [Fetchers -> FetchRows]
    BY DEF CaptureInv, CaptureTypes
  <2>2. PICK run : fetch' = [fetch EXCEPT ![f] = run]
    BY DEF BeginFetch
  <2>3. fetch'[f] = run
    BY <2>1, <2>2
  <2>4. fetch'[f].at = 0
    BY <1>2
  <2> QED
    BY <2>2, <2>3, <2>4
<1>7. SeenOK' /\ ObservationsTrue'
  BY SeenKept DEF BeginFetch, pool
<1> QED
  BY <1>3, <1>4, <1>5, <1>6, <1>7, QuietFetch DEF BeginFetch, pool, CaptureInv, CaptureTypes

LEMMA AnswerOfInv ==
    ASSUME CaptureInv, NEW f \in Fetchers, NEW served, NEW outcome \in Outcomes,
           served \in Contents \cup {None},
           outcome = "no_change" =>
              served = IF fetch[f].prior = None THEN None ELSE fetch[f].prior[2],
           outcome = "captured" => served \in Contents,
           AnswerOf(f, served, outcome)
    PROVE  CaptureInv'
<1>1. /\ clock \in Nat /\ clock' = clock + 1
      /\ fetch \in [Fetchers -> FetchRows]
      /\ UNCHANGED <<pool, parsed, objects, jobs, parse>>
  BY DEF AnswerOf, CaptureInv, CaptureTypes
<1>2. fetch'[f] = [pc |-> "answered", item |-> fetch[f].item, prior |-> fetch[f].prior,
                   outcome |-> outcome, served |-> served, at |-> clock + 1,
                   hasBlob |-> FALSE, hasDoc |-> FALSE]
  BY <1>1 DEF AnswerOf
<1>3. fetch'[f] \in FetchRows
  BY <1>1, <1>2 DEF FetchRows
<1>4. UNCHANGED <<origins, captures, current, blobs, seen, parses, diffs, objects, jobs, parse>>
  BY <1>1 DEF pool, parsed
<1>5. fetch[f].pc = "asked" /\ FetchOK(fetch[f])
  BY DEF AnswerOf, CaptureInv
<1>6. FetchOK(fetch[f])'
  BY <1>1, <1>2, <1>4, <1>5 DEF FetchOK, Exists
<1>7. fetch' = [fetch EXCEPT ![f] = fetch'[f]]
  BY <1>1, <1>2 DEF AnswerOf
<1>8. captures' \in [Captures -> Nat] /\ \A c \in Captures : captures'[c] = captures[c]
  BY <1>4 DEF CaptureInv, CaptureTypes
<1>9. fetch' \in [Fetchers -> FetchRows] /\ \A g \in Fetchers : FetchOK(fetch[g])'
  BY <1>3, <1>4, <1>6, <1>7, <1>8, FetchesRely DEF CaptureInv, CaptureTypes
<1>10. /\ \A p \in Parsers : ParseOK(parse[p])'
       /\ ParsesApart' /\ ParseTimesOK' /\ DiffsForward'
  BY <1>4, <1>8, ParsesRely
<1>11. CaptureTypes'
  BY <1>1, <1>4, <1>9 DEF CaptureInv, CaptureTypes, SeenOK
<1>12. InstantsApart'
  <2>1. \A g \in Fetchers : /\ fetch[g].at \in Nat
                            /\ fetch'[g].at = IF g = f THEN clock + 1 ELSE fetch[g].at
    BY <1>1, <1>2 DEF FetchRows, AnswerOf
  <2>2. captures \in [Captures -> Nat]
    BY DEF CaptureInv, CaptureTypes
  <2>3. InstantsApart
    BY DEF CaptureInv
  <2>4. /\ \A c \in Captures : captures'[c] <= clock'
        /\ \A g \in Fetchers : fetch'[g].at <= clock'
    BY <1>1, <1>4, <2>1, <2>2, <2>3 DEF InstantsApart
  <2>5. \A c, d \in Captures : c # d /\ Exists(c)' => captures'[c] # captures'[d]
    BY <1>4, <2>3 DEF InstantsApart, Exists
  <2>6. \A g \in Fetchers, c \in Captures : fetch'[g].at # 0 => captures'[c] # fetch'[g].at
    BY <1>1, <1>4, <2>1, <2>2, <2>3 DEF InstantsApart
  <2>7. \A g, h \in Fetchers : g # h /\ fetch'[g].at # 0 => fetch'[g].at # fetch'[h].at
    BY <1>1, <2>1, <2>3 DEF InstantsApart
  <2> QED
    BY <2>4, <2>5, <2>6, <2>7 DEF InstantsApart
<1>13. ObservationsTrue'
  BY <1>4, SeenKept
<1>14. \A x \in blobs' : objects'[x] # "absent"
  BY <1>4 DEF CaptureInv
<1>15. ChainUnbroken'
  BY <1>4 DEF CaptureInv, ChainUnbroken, Exists, Parsed, Readable
<1> QED
  BY <1>9, <1>10, <1>11, <1>12, <1>13, <1>14, <1>15 DEF CaptureInv

LEMMA AnswerInv ==
    ASSUME CaptureInv, NEW f \in Fetchers, Answer(f)
    PROVE  CaptureInv'
<1> USE CaptureAssumption
<1>1. CASE \E c \in Contents : AnswerOf(f, c, "captured")
  <2>1. PICK c \in Contents : AnswerOf(f, c, "captured")
    BY <1>1
  <2> QED
    BY <2>1, AnswerOfInv DEF Outcomes
<1>2. CASE fetch[f].prior # None /\ AnswerOf(f, fetch[f].prior[2], "no_change")
  <2>1. fetch[f] \in FetchRows
    BY DEF CaptureInv, CaptureTypes
  <2>2. fetch[f].prior[2] \in Contents
    BY <1>2, <2>1 DEF FetchRows, Captures
  <2> QED
    BY <1>2, <2>2, AnswerOfInv DEF Outcomes
<1>3. CASE \E o \in Refusals : AnswerOf(f, None, o)
  <2>1. PICK o \in Refusals : AnswerOf(f, None, o)
    BY <1>3
  <2>2. o \in Outcomes /\ o # "no_change" /\ o # "captured"
    BY CaptureAssumption DEF Outcomes, Failures
  <2> QED
    BY <2>1, <2>2, AnswerOfInv
<1>4. CASE fetch[f].prior = None /\ AnswerOf(f, None, "no_change")
  BY <1>4, AnswerOfInv DEF Outcomes
<1> QED
  BY <1>1, <1>2, <1>3, <1>4 DEF Answer

LEMMA RecordUnchangedInv ==
    ASSUME CaptureInv, NEW f \in Fetchers, RecordUnchanged(f)
    PROVE  CaptureInv'
<1> DEFINE r == fetch[f]
           o == Observed(r, "no_change", Bound(r))
<1>1. r \in FetchRows /\ FetchOK(r) /\ r.pc = "answered" /\ Unchanged(r)
  BY DEF RecordUnchanged, CaptureInv, CaptureTypes
<1>2. r.item \in Items /\ r.served \in Contents \cup {None}
  BY <1>1 DEF FetchOK, FetchRows
<1>3. IF r.served = None THEN r.prior = None
      ELSE /\ r.prior \in Captures /\ Exists(r.prior)
           /\ r.prior = <<UrlOf[r.item], r.served>>
  <2>1. CASE r.prior = None
    BY <1>1, <2>1 DEF Unchanged, FetchOK
  <2>2. CASE r.prior # None
    <3>1. r.prior \in Captures /\ r.prior[1] = UrlOf[r.item] /\ Exists(r.prior)
      BY <1>1, <2>2 DEF FetchOK, FetchRows
    <3>2. r.prior[2] = r.served
      BY <1>1, <2>2 DEF Unchanged, FetchOK
    <3>3. r.served \in Contents /\ r.served # None
      BY <3>1, <3>2, CaptureAssumption DEF Captures
    <3> QED
      BY <3>1, <3>2, <3>3 DEF Captures
  <2> QED
    BY <2>1, <2>2
<1>4. o = [item |-> r.item, outcome |-> "no_change", served |-> r.served, capture |-> r.prior]
  BY DEF Observed, Bound
<1>5. o \in Observation
  BY <1>2, <1>3, <1>4 DEF Observation, Outcomes
<1>6. seen' = seen \cup {o}
  BY DEF RecordUnchanged
<1>7. UNCHANGED <<origins, captures, current, blobs, clock, jobs, parsed, parse, objects>>
  BY DEF RecordUnchanged
<1>8. SeenOK'
  BY <1>3, <1>4, <1>5, <1>6 DEF CaptureInv, CaptureTypes, SeenOK
<1>9. ObservationsTrue'
  <2>1. ObservationsTrue
    BY DEF CaptureInv
  <2>2. /\ o.outcome = "no_change"
        /\ IF o.served = None THEN o.capture = None
           ELSE o.capture = <<UrlOf[o.item], o.served>> /\ Exists(o.capture)
    BY <1>3, <1>4
  <2> HIDE DEF o
  <2> QED
    BY <1>6, <1>7, <2>1, <2>2 DEF ObservationsTrue, Exists
<1>10. fetch' = [fetch EXCEPT ![f] = NoFetch]
  BY DEF RecordUnchanged
<1> QED
  BY <1>7, <1>8, <1>9, <1>10, OverIsOK, QuietFetch DEF CaptureInv, CaptureTypes

LEMMA RecordFailureInv ==
    ASSUME CaptureInv, NEW f \in Fetchers, RecordFailure(f)
    PROVE  CaptureInv'
<1> DEFINE r == fetch[f]
           shown == IF r.outcome = "ssrf_blocked" THEN "error" ELSE r.outcome
           o == Observed(r, shown, None)
<1>1. r \in FetchRows /\ FetchOK(r) /\ r.pc = "answered" /\ r.outcome \in Failures
  BY DEF RecordFailure, CaptureInv, CaptureTypes
<1>2. r.item \in Items /\ r.served \in Contents \cup {None}
  BY <1>1 DEF FetchOK, FetchRows
<1>3. o = [item |-> r.item, outcome |-> shown, served |-> r.served, capture |-> None]
  BY DEF Observed
<1>4. shown \in Outcomes /\ shown \notin {"captured", "no_change"}
  BY <1>1 DEF Outcomes, Failures
<1>5. o \in Observation
  <2> HIDE DEF shown
  <2> QED
    BY <1>2, <1>3, <1>4 DEF Observation
<1>6. seen' = seen \cup {o}
  BY DEF RecordFailure
<1>7. UNCHANGED <<origins, captures, current, blobs, clock, jobs, parsed, parse, objects>>
  BY DEF RecordFailure
<1>8. SeenOK'
  BY <1>3, <1>4, <1>5, <1>6 DEF CaptureInv, CaptureTypes, SeenOK
<1>9. ObservationsTrue'
  <2>1. ObservationsTrue
    BY DEF CaptureInv
  <2>2. o.outcome \notin {"captured", "no_change"} /\ o.capture = None
    BY <1>3, <1>4
  <2> HIDE DEF o
  <2> QED
    BY <1>6, <1>7, <2>1, <2>2 DEF ObservationsTrue, Exists
<1>10. fetch' = [fetch EXCEPT ![f] = NoFetch]
  BY DEF RecordFailure
<1> QED
  BY <1>7, <1>8, <1>9, <1>10, OverIsOK, QuietFetch DEF CaptureInv, CaptureTypes

LEMMA StoreObjectInv ==
    ASSUME CaptureInv, NEW f \in Fetchers, StoreObject(f)
    PROVE  CaptureInv'
<1> DEFINE r == fetch[f]
           writes == r.served \notin blobs /\ objects[r.served] = "absent"
<1>1. r \in FetchRows /\ FetchOK(r) /\ r.pc = "answered" /\ r.outcome = "captured"
  BY DEF StoreObject, CaptureInv, CaptureTypes
<1>2. r.served \in Contents
  BY <1>1 DEF FetchOK
<1>3. fetch'[f] = Moved(r, IF writes THEN "writing" ELSE "stored", r.served \in blobs, FALSE)
  BY DEF StoreObject, CaptureInv, CaptureTypes
<1>4. objects' = IF writes THEN [objects EXCEPT ![r.served] = "torn"] ELSE objects
  BY DEF StoreObject
<1>5. /\ objects' \in [Contents -> {"absent", "torn", "whole"}]
      /\ \A x \in Contents : objects[x] # "absent" => objects'[x] # "absent"
      /\ objects'[r.served] # "absent"
  BY <1>2, <1>4 DEF CaptureInv, CaptureTypes
<1>6. UNCHANGED <<origins, captures, current, blobs, seen, clock, jobs, parsed, parse>>
  BY DEF StoreObject, pool
<1>7. PICK stage \in {"writing", "stored"} : fetch'[f] = Moved(r, stage, r.served \in blobs, FALSE)
  BY <1>3
<1>8. fetch'[f] \in FetchRows
  BY <1>1, <1>7 DEF Moved, FetchRows
<1>9. FetchOK(fetch[f])'
  BY <1>1, <1>5, <1>6, <1>7 DEF Moved, FetchOK, Exists
<1>10. fetch' = [fetch EXCEPT ![f] = fetch'[f]] /\ fetch'[f].at \in {0, fetch[f].at}
  <2>1. fetch' = [fetch EXCEPT ![f] = fetch'[f]]
    BY <1>3 DEF StoreObject
  <2>2. fetch'[f].at = fetch[f].at
    BY <1>7 DEF Moved
  <2> QED
    BY <2>1, <2>2
<1>11. SeenOK' /\ ObservationsTrue'
  BY <1>6, SeenKept
<1> QED
  BY <1>5, <1>6, <1>8, <1>9, <1>10, <1>11, QuietFetch

LEMMA FindDocumentInv ==
    ASSUME CaptureInv, NEW f \in Fetchers, FindDocument(f)
    PROVE  CaptureInv'
<1> DEFINE r == fetch[f]
           hasDoc == current[UrlOf[r.item]] # None
<1>1. r \in FetchRows /\ FetchOK(r) /\ r.pc \in {"writing", "stored"}
  BY DEF FindDocument, CaptureInv, CaptureTypes
<1>2. r.served \in Contents /\ objects[r.served] # "absent"
  BY <1>1 DEF FetchOK
<1>3. fetch'[f] = Moved(r, "found", r.hasBlob, hasDoc)
  BY DEF FindDocument, CaptureInv, CaptureTypes
<1>4. objects' = IF r.pc = "writing" THEN [objects EXCEPT ![r.served] = "whole"] ELSE objects
  BY DEF FindDocument
<1>5. /\ objects' \in [Contents -> {"absent", "torn", "whole"}]
      /\ \A x \in Contents : objects[x] # "absent" => objects'[x] # "absent"
      /\ objects'[r.served] # "absent"
  BY <1>2, <1>4 DEF CaptureInv, CaptureTypes
<1>6. UNCHANGED <<origins, captures, current, blobs, seen, clock, jobs, parsed, parse>>
  BY DEF FindDocument, pool
<1>7. hasDoc \in BOOLEAN
  OBVIOUS
<1>10. fetch' = [fetch EXCEPT ![f] = fetch'[f]] /\ fetch'[f].at \in {0, fetch[f].at}
  <2>1. fetch' = [fetch EXCEPT ![f] = fetch'[f]]
    BY <1>3 DEF FindDocument
  <2>2. fetch'[f].at = fetch[f].at
    BY <1>3 DEF Moved
  <2> QED
    BY <2>1, <2>2
<1> HIDE DEF hasDoc
<1>8. fetch'[f] \in FetchRows
  BY <1>1, <1>3, <1>7 DEF Moved, FetchRows
<1>9. FetchOK(fetch[f])'
  BY <1>1, <1>3, <1>5, <1>6 DEF Moved, FetchOK, Exists
<1>11. SeenOK' /\ ObservationsTrue'
  BY <1>6, SeenKept
<1> QED
  BY <1>5, <1>6, <1>8, <1>9, <1>10, <1>11, QuietFetch

LEMMA RecordCaptureInv ==
    ASSUME CaptureInv, NEW f \in Fetchers, RecordCapture(f)
    PROVE  CaptureInv'
<1> USE CaptureAssumption
<1> DEFINE r == fetch[f]
           c == <<UrlOf[r.item], r.served>>
           o == Observed(r, "captured", c)
<1>1. /\ CaptureTypes /\ r \in FetchRows /\ FetchOK(r) /\ r.pc = "found"
      /\ InstantsApart /\ ObservationsTrue /\ ChainUnbroken
  BY DEF RecordCapture, CaptureInv, CaptureTypes
<1>2. /\ r.item \in Items /\ r.served \in Contents /\ r.at # 0 /\ r.at \in Nat
      /\ objects[r.served] # "absent"
  BY <1>1 DEF FetchOK, FetchRows
<1>3. c \in Captures /\ c[1] = UrlOf[r.item] /\ c[2] = r.served /\ c[1] \in Urls
  BY <1>2 DEF Captures
<1>4. ~Exists(c)
  BY DEF RecordCapture, Conflict
<1>5. /\ blobs' = blobs \cup {r.served}
      /\ origins' = origins \cup {r.item}
      /\ captures' = [captures EXCEPT ![c] = r.at]
      /\ current' = [current EXCEPT ![c[1]] = c[2]]
      /\ seen' = seen \cup {o}
      /\ jobs' = jobs \cup {<<"parse", c>>}
      /\ fetch' = [fetch EXCEPT ![f] = NoFetch]
      /\ UNCHANGED <<parsed, objects, clock, parse>>
  BY DEF RecordCapture
<1>6. o = [item |-> r.item, outcome |-> "captured", served |-> r.served, capture |-> c]
  BY DEF Observed
<1>7. o \in Observation
  BY <1>2, <1>3, <1>6 DEF Observation, Outcomes
<1>8. UNCHANGED <<parse, parses, diffs>>
  BY <1>5 DEF parsed
<1> HIDE DEF c
<1>9. /\ captures' \in [Captures -> Nat]
      /\ \A d \in Captures : captures'[d] = IF d = c THEN r.at ELSE captures[d]
  BY <1>1, <1>2, <1>3, <1>5 DEF CaptureTypes
<1>10. \A d \in Captures : Exists(d) => captures'[d] = captures[d]
  BY <1>4, <1>9
<1>11. \A d \in Captures : Exists(d)' <=> Exists(d) \/ d = c
  BY <1>2, <1>9 DEF Exists
<1>12. /\ \A p \in Parsers : ParseOK(parse[p])'
       /\ ParsesApart' /\ ParseTimesOK' /\ DiffsForward'
  BY <1>8, <1>9, <1>10, ParsesRely
<1>13. fetch' \in [Fetchers -> FetchRows] /\ \A g \in Fetchers : FetchOK(fetch[g])'
  BY <1>1, <1>5, <1>9, <1>10, OverIsOK, FetchesRely DEF CaptureTypes
<1>14. CaptureTypes'
  <2>1. current' \in [Urls -> Contents \cup {None}]
    BY <1>1, <1>2, <1>3, <1>5 DEF CaptureTypes
  <2>2. SeenOK'
    BY <1>1, <1>3, <1>5, <1>6, <1>7 DEF CaptureTypes, SeenOK
  <2>3. jobs' \subseteq JobKinds \X Captures
    BY <1>1, <1>3, <1>5 DEF CaptureTypes, JobKinds
  <2> QED
    BY <1>1, <1>2, <1>5, <1>8, <1>9, <1>13, <2>1, <2>2, <2>3 DEF CaptureTypes
<1>15. InstantsApart'
  <2>1. \A g \in Fetchers : /\ fetch[g].at \in Nat
                            /\ fetch'[g].at = IF g = f THEN 0 ELSE fetch[g].at
    BY <1>1, <1>5 DEF CaptureTypes, FetchRows, NoFetch
  <2>2. captures \in [Captures -> Nat] /\ clock \in Nat /\ clock' = clock
    BY <1>1, <1>5 DEF CaptureTypes
  <2>4. /\ \A d \in Captures : captures'[d] <= clock'
        /\ \A g \in Fetchers : fetch'[g].at <= clock'
    BY <1>1, <1>9, <2>1, <2>2 DEF InstantsApart
  <2>5. \A d, e \in Captures : d # e /\ Exists(d)' => captures'[d] # captures'[e]
    BY <1>1, <1>2, <1>9, <1>11 DEF InstantsApart, Exists
  <2>6. \A g \in Fetchers, d \in Captures : fetch'[g].at # 0 => captures'[d] # fetch'[g].at
    BY <1>1, <1>2, <1>9, <2>1 DEF InstantsApart
  <2>7. \A g, h \in Fetchers : g # h /\ fetch'[g].at # 0 => fetch'[g].at # fetch'[h].at
    BY <1>1, <2>1 DEF InstantsApart
  <2> QED
    BY <2>4, <2>5, <2>6, <2>7 DEF InstantsApart
<1>16. \A x \in blobs' : objects'[x] # "absent"
  BY <1>2, <1>5 DEF CaptureInv
<1>17. ObservationsTrue'
  <2>2. /\ o.outcome = "captured" /\ o.served # None
        /\ o.capture = <<UrlOf[o.item], o.served>> /\ o.capture = c
    BY <1>2, <1>6 DEF c
  <2>3. \A e \in seen : e.outcome \in {"captured", "no_change"} /\ e.served # None =>
            e.capture \in Captures /\ Exists(e.capture)
    BY <1>1 DEF CaptureTypes, SeenOK, ObservationsTrue
  <2> HIDE DEF o
  <2> QED
    BY <1>1, <1>3, <1>5, <1>11, <2>2, <2>3 DEF ObservationsTrue
<1>18. ChainUnbroken'
  <2> SUFFICES ASSUME NEW d \in Captures
               PROVE  /\ Exists(d)' <=> <<"parse", d>> \in jobs'
                      /\ Exists(d)' => /\ d[2] \in blobs'
                                       /\ objects'[d[2]] # "absent"
                                       /\ current'[d[1]] # None
                      /\ Parsed(d)' => Exists(d)'
                      /\ \A kind \in {"index", "route"} : Readable(d)' <=> <<kind, d>> \in jobs'
    BY DEF ChainUnbroken
  <2>1. d[1] \in Urls /\ d[2] \in Contents
    BY DEF Captures
  <2>2. /\ Exists(d) <=> <<"parse", d>> \in jobs
        /\ Exists(d) => /\ d[2] \in blobs
                        /\ objects[d[2]] # "absent"
                        /\ current[d[1]] # None
        /\ Parsed(d) => Exists(d)
        /\ \A kind \in {"index", "route"} : Readable(d) <=> <<kind, d>> \in jobs
    BY <1>1 DEF ChainUnbroken
  <2>3. Exists(d)' <=> <<"parse", d>> \in jobs'
    BY <1>5, <1>11, <2>2
  <2>4. Exists(d)' => /\ d[2] \in blobs'
                      /\ objects'[d[2]] # "absent"
                      /\ current'[d[1]] # None
    <3>1. current \in [Urls -> Contents \cup {None}]
      BY <1>1 DEF CaptureTypes
    <3>2. current'[d[1]] # None
          \/ ~ (Exists(d) \/ d = c)
      BY <1>2, <1>3, <1>5, <2>1, <2>2, <3>1
    <3> QED
      BY <1>2, <1>3, <1>5, <1>11, <2>1, <2>2, <3>2
  <2>5. (Parsed(d)' <=> Parsed(d)) /\ (Readable(d)' <=> Readable(d))
    BY <1>8 DEF Parsed, Readable
  <2>6. \A kind \in {"index", "route"} : <<kind, d>> \in jobs' <=> <<kind, d>> \in jobs
    BY <1>5
  <2> QED
    BY <1>11, <2>2, <2>3, <2>4, <2>5, <2>6
<1> QED
  BY <1>12, <1>13, <1>14, <1>15, <1>16, <1>17, <1>18 DEF CaptureInv

\* A fetch that ends without a trace.
LEMMA FetchOverInv ==
    ASSUME CaptureInv, NEW f \in Fetchers, fetch' = [fetch EXCEPT ![f] = NoFetch],
           UNCHANGED <<pool, parsed, objects, jobs, clock, parse>>
    PROVE  CaptureInv'
<1>1. UNCHANGED <<origins, captures, current, blobs, seen, clock, jobs, parsed, parse, objects>>
  BY DEF pool
<1>2. SeenOK' /\ ObservationsTrue'
  BY <1>1, SeenKept
<1> QED
  BY <1>1, <1>2, OverIsOK, QuietFetch DEF CaptureInv, CaptureTypes

LEMMA FetchStepInv ==
    ASSUME CaptureInv, NEW f \in Fetchers, FetchStep(f)
    PROVE  CaptureInv'
<1>1. CASE \E i \in Items : BeginFetch(f, i)
  BY <1>1, BeginFetchInv
<1>2. CASE Answer(f)
  BY <1>2, AnswerInv
<1>3. CASE RecordUnchanged(f)
  BY <1>3, RecordUnchangedInv
<1>4. CASE RecordFailure(f)
  BY <1>4, RecordFailureInv
<1>5. CASE StoreObject(f)
  BY <1>5, StoreObjectInv
<1>6. CASE FindDocument(f)
  BY <1>6, FindDocumentInv
<1>7. CASE RecordCapture(f)
  BY <1>7, RecordCaptureInv
<1>8. CASE RefuseCapture(f)
  BY <1>8, FetchOverInv DEF RefuseCapture
<1>9. CASE CrashFetch(f)
  BY <1>9, FetchOverInv DEF CrashFetch
<1> QED
  BY <1>1, <1>2, <1>3, <1>4, <1>5, <1>6, <1>7, <1>8, <1>9 DEF FetchStep

-----------------------------------------------------------------------------
(* Parses.                                                                 *)

\* What fetches are not touched by: a step of a parse.
LEMMA FetchesKept ==
    ASSUME CaptureInv, UNCHANGED <<pool, objects, clock, fetch>>
    PROVE  /\ \A f \in Fetchers : FetchOK(fetch[f])'
           /\ InstantsApart'
           /\ \A x \in blobs' : objects'[x] # "absent"
           /\ ObservationsTrue'
<1>1. UNCHANGED <<captures, blobs, seen, objects, clock, fetch>>
  BY DEF pool
<1> QED
  BY <1>1 DEF CaptureInv, FetchOK, InstantsApart, ObservationsTrue, Exists

\* A step of one parse that commits nothing.
LEMMA QuietParse ==
    ASSUME CaptureInv, NEW p \in Parsers,
           parse' = [parse EXCEPT ![p] = parse'[p]],
           parse'[p] \in ParseRows, ParseOK(parse[p])',
           parse'[p].at <= MaxParses, MaxParses \in Nat,
           parse'[p].pc = "paired" /\ parse'[p].created =>
              \A q \in Parsers \ {p} :
                 parse[q].pc = "paired" /\ parse[q].created =>
                    parse[q].capture # parse'[p].capture,
           UNCHANGED <<pool, parsed, objects, jobs, clock, fetch>>
    PROVE  CaptureInv'
<1>1. UNCHANGED <<origins, captures, current, blobs, seen, parses, diffs, objects, jobs, clock, fetch>>
  BY DEF pool, parsed
<1>2. /\ parse' \in [Parsers -> ParseRows]
      /\ \A q \in Parsers : q # p => parse'[q] = parse[q]
  BY DEF CaptureInv, CaptureTypes
<1>3. CaptureTypes'
  BY <1>1, <1>2 DEF CaptureInv, CaptureTypes, SeenOK
<1>4. \A q \in Parsers : ParseOK(parse[q])'
  BY <1>1, <1>2 DEF CaptureInv, ParseOK, Exists, Parsed, Readable
<1>5. ParsesApart'
  BY <1>2 DEF CaptureInv, ParsesApart
<1>6. ParseTimesOK'
  BY <1>1, <1>2 DEF CaptureInv, ParseTimesOK
<1>7. DiffsForward' /\ ChainUnbroken'
  BY <1>1 DEF CaptureInv, DiffsForward, ChainUnbroken, Exists, Parsed, Readable
<1> QED
  BY <1>3, <1>4, <1>5, <1>6, <1>7, FetchesKept DEF CaptureInv

LEMMA BeginParseInv ==
    ASSUME CaptureInv, NEW p \in Parsers, NEW c \in Captures, BeginParse(p, c)
    PROVE  CaptureInv'
<1>1. PICK ok \in BOOLEAN :
         parse' = [parse EXCEPT ![p] = [pc |-> "read", capture |-> c, ok |-> ok,
                                        created |-> FALSE, prior |-> None, at |-> 0]]
  BY DEF BeginParse
<1>2. parse'[p] = [pc |-> "read", capture |-> c, ok |-> ok,
                   created |-> FALSE, prior |-> None, at |-> 0]
  BY <1>1 DEF CaptureInv, CaptureTypes
<1>3. parse' = [parse EXCEPT ![p] = parse'[p]]
  BY <1>1, <1>2
<1>4. parse'[p] \in ParseRows
  BY <1>2 DEF ParseRows
<1>5. Exists(c) /\ Exists(c)'
  BY DEF BeginParse, CaptureInv, ChainUnbroken, Exists, pool
<1>6. ParseOK(parse[p])'
  BY <1>2, <1>5 DEF ParseOK
<1>7. parse'[p].at = 0 /\ parse'[p].pc = "read"
  BY <1>2
<1>8. 0 <= MaxParses /\ MaxParses \in Nat
  BY CaptureAssumption
<1>9. UNCHANGED <<pool, parsed, objects, jobs, clock, fetch>>
  BY DEF BeginParse
<1> QED
  BY <1>3, <1>4, <1>6, <1>7, <1>8, <1>9, QuietParse

LEMMA PairParseInv ==
    ASSUME CaptureInv, NEW p \in Parsers, PairParse(p)
    PROVE  CaptureInv'
<1> DEFINE r == parse[p]
           c == r.capture
           created == ~Parsed(c)
           latest == LatestParse(c)
           prior == IF created /\ r.ok THEN latest ELSE None
           time == IF created THEN NextParseTime ELSE 0
<1>1. /\ CaptureTypes /\ ParseTimesOK /\ MaxParses \in Nat
      /\ r \in ParseRows /\ ParseOK(r) /\ r.pc = "read" /\ c \in Captures
      /\ NextParseTime <= MaxParses
  BY CaptureAssumption DEF PairParse, CaptureInv, CaptureTypes, ParseOK
<1>2. latest # None => /\ latest \in Captures
                       /\ latest[1] = c[1]
                       /\ latest # c
                       /\ Readable(latest)
  BY <1>1, LatestParseIs
<1>3. NextParseTime \in Nat /\ NextParseTime # 0
  BY <1>1, NextParseTimeIs
<1>4. time \in Nat /\ time <= MaxParses /\ (created => time # 0)
  BY <1>1, <1>3
<1>5. parse' = [parse EXCEPT ![p] = [pc |-> "paired", capture |-> c, ok |-> r.ok,
                                     created |-> created, prior |-> prior, at |-> time]]
  BY DEF PairParse
<1>6. created \in BOOLEAN
  OBVIOUS
<1>7. UNCHANGED <<pool, parsed, objects, jobs, clock, fetch>>
  BY DEF PairParse
<1>8. \A q \in Parsers \ {p} : parse[q].pc = "paired" /\ parse[q].created => parse[q].capture # c
  BY DEF PairParse, Waits
<1>9. (created => ~Parsed(c)) /\ (~created => Parsed(c))
  OBVIOUS
<1>10. /\ prior # None => prior = latest /\ latest # None /\ r.ok
       /\ ~created => prior = None
  OBVIOUS
<1> HIDE DEF latest, time, prior, created
<1>11. parse'[p] = [pc |-> "paired", capture |-> c, ok |-> r.ok,
                    created |-> created, prior |-> prior, at |-> time]
  BY <1>5 DEF CaptureInv, CaptureTypes
<1>12. parse' = [parse EXCEPT ![p] = parse'[p]]
  BY <1>5, <1>11
<1>13. parse'[p] \in ParseRows
  <2>1. prior \in Captures \cup {None}
    BY <1>2, <1>10
  <2> QED
    BY <1>1, <1>4, <1>6, <1>11, <2>1 DEF ParseRows
<1>14. ParseOK(parse[p])'
  <2>1. UNCHANGED <<captures, parses>>
    BY <1>7 DEF pool, parsed
  <2>2. Exists(c)
    BY <1>1 DEF ParseOK
  <2> QED
    BY <1>1, <1>2, <1>4, <1>9, <1>10, <1>11, <2>1, <2>2 DEF ParseOK, Exists, Parsed, Readable
<1>15. parse'[p].at = time /\ parse'[p].capture = c
  BY <1>11
<1> QED
  BY <1>1, <1>4, <1>7, <1>8, <1>12, <1>13, <1>14, <1>15, QuietParse

LEMMA NoParseIsOK ==
    ASSUME NEW p \in Parsers, CaptureInv, parse' = [parse EXCEPT ![p] = NoParse]
    PROVE  /\ parse' = [parse EXCEPT ![p] = parse'[p]]
           /\ parse'[p] = NoParse
           /\ parse'[p] \in ParseRows
           /\ ParseOK(parse[p])'
           /\ parse'[p].at = 0 /\ parse'[p].pc = "idle"
<1>1. parse'[p] = NoParse
  BY DEF CaptureInv, CaptureTypes
<1>2. NoParse \in ParseRows /\ NoParse.pc = "idle" /\ NoParse.at = 0
  BY DEF NoParse, ParseRows
<1> QED
  BY <1>1, <1>2 DEF ParseOK

LEMMA CrashParseInv ==
    ASSUME CaptureInv, NEW p \in Parsers, CrashParse(p)
    PROVE  CaptureInv'
<1>1. parse' = [parse EXCEPT ![p] = NoParse] /\ UNCHANGED <<pool, parsed, objects, jobs, clock, fetch>>
  BY DEF CrashParse
<1>2. 0 <= MaxParses /\ MaxParses \in Nat
  BY CaptureAssumption
<1> QED
  BY <1>1, <1>2, NoParseIsOK, QuietParse

LEMMA CommitParseInv ==
    ASSUME CaptureInv, NEW p \in Parsers, CommitParse(p)
    PROVE  CaptureInv'
<1> DEFINE r == parse[p]
           c == r.capture
<1>1. /\ CaptureTypes /\ ParseTimesOK /\ ParsesApart /\ InstantsApart /\ ChainUnbroken
      /\ r \in ParseRows /\ ParseOK(r) /\ r.pc = "paired" /\ c \in Captures /\ Exists(c)
  BY DEF CommitParse, CaptureInv, CaptureTypes, ParseOK
<1>2. /\ parses' = [parses EXCEPT ![c] = ParseRow(r)]
      /\ diffs' = IF r.prior = None THEN diffs ELSE diffs \cup {DiffOf(c, r.prior)}
      /\ jobs' = jobs \cup FollowUps(r)
      /\ parse' = [parse EXCEPT ![p] = NoParse]
      /\ UNCHANGED <<pool, objects, clock, fetch>>
  BY DEF CommitParse
<1>3. UNCHANGED <<origins, captures, current, blobs, seen, objects, clock, fetch>>
  BY <1>2 DEF pool
<1>4. /\ ParseRow(r) \in [at : Nat, ok : BOOLEAN]
      /\ ParseRow(r).at <= MaxParses /\ ParseRow(r).at # 0
      /\ r.created => ParseRow(r).ok = r.ok
      /\ ~r.created => ParseRow(r) = parses[c]
  <2>1. CASE r.created
    <3>1. ParseRow(r) = [at |-> r.at, ok |-> r.ok]
      BY <2>1 DEF ParseRow
    <3>2. r.at \in Nat /\ r.ok \in BOOLEAN /\ r.at # 0 /\ r.at <= MaxParses
      BY <1>1, <2>1 DEF ParseRows, ParseOK, ParseTimesOK
    <3> QED
      BY <2>1, <3>1, <3>2
  <2>2. CASE ~r.created
    <3>1. ParseRow(r) = parses[c]
      BY <2>2 DEF ParseRow
    <3>2. Parsed(c)
      BY <1>1, <2>2 DEF ParseOK
    <3> QED
      BY <1>1, <2>2, <3>1, <3>2 DEF CaptureTypes, ParseTimesOK, Parsed
  <2> QED
    BY <2>1, <2>2
<1>5. /\ parses' \in [Captures -> [at : Nat, ok : BOOLEAN]]
      /\ \A d \in Captures : parses'[d] = IF d = c THEN ParseRow(r) ELSE parses[d]
  BY <1>1, <1>2, <1>4 DEF CaptureTypes
<1>6. \A d \in Captures : Parsed(d) => parses'[d] = parses[d]
  BY <1>1, <1>4, <1>5 DEF ParseOK, Parsed
<1>7. \A d \in Captures : /\ Parsed(d) => Parsed(d)'
                          /\ Readable(d) => Readable(d)'
                          /\ Parsed(d)' => Parsed(d) \/ d = c
                          /\ Readable(d)' <=> Readable(d) \/ (d = c /\ r.created /\ r.ok)
  <2> TAKE d \in Captures
  <2>1. CASE d # c
    BY <1>5, <2>1 DEF Parsed, Readable
  <2>2. CASE d = c /\ r.created
    <3>1. ~Parsed(c)
      BY <1>1, <2>2 DEF ParseOK
    <3>2. parses'[d].at # 0 /\ parses'[d].ok = r.ok
      BY <1>1, <1>4, <1>5, <2>2
    <3> QED
      BY <2>2, <3>1, <3>2 DEF Parsed, Readable
  <2>3. CASE d = c /\ ~r.created
    BY <1>1, <1>4, <1>5, <2>3 DEF Parsed, Readable
  <2> QED
    BY <2>1, <2>2, <2>3
<1>8. r.prior # None => /\ r.created /\ r.ok
                        /\ r.prior \in Captures /\ r.prior # c
                        /\ r.prior[1] = c[1] /\ Readable(r.prior)
                        /\ Exists(r.prior)
  BY <1>1 DEF ParseOK, ParseRows, ChainUnbroken, Readable
<1>9. r.prior # None => /\ DiffOf(c, r.prior) \in Captures \X Captures
                        /\ DiffOf(c, r.prior)[1][1] = DiffOf(c, r.prior)[2][1]
                        /\ captures[DiffOf(c, r.prior)[1]] < captures[DiffOf(c, r.prior)[2]]
                        /\ DiffOf(c, r.prior)[1] \in {c, r.prior}
                        /\ DiffOf(c, r.prior)[2] \in {c, r.prior}
  <2> SUFFICES ASSUME r.prior # None
               PROVE  /\ DiffOf(c, r.prior) \in Captures \X Captures
                      /\ DiffOf(c, r.prior)[1][1] = DiffOf(c, r.prior)[2][1]
                      /\ captures[DiffOf(c, r.prior)[1]] < captures[DiffOf(c, r.prior)[2]]
                      /\ DiffOf(c, r.prior)[1] \in {c, r.prior}
                      /\ DiffOf(c, r.prior)[2] \in {c, r.prior}
    OBVIOUS
  <2>1. captures[c] \in Nat /\ captures[r.prior] \in Nat /\ captures[c] # captures[r.prior]
    BY <1>1, <1>8 DEF CaptureTypes, InstantsApart
  <2>2. CASE captures[r.prior] <= captures[c]
    <3>1. DiffOf(c, r.prior) = <<r.prior, c>>
      BY <2>2 DEF DiffOf
    <3> QED
      BY <1>1, <1>8, <2>1, <2>2, <3>1
  <2>3. CASE ~(captures[r.prior] <= captures[c])
    <3>1. DiffOf(c, r.prior) = <<c, r.prior>>
      BY <2>3 DEF DiffOf
    <3> QED
      BY <1>1, <1>8, <2>1, <2>3, <3>1
  <2> QED
    BY <2>2, <2>3
<1>10. /\ parse' = [parse EXCEPT ![p] = parse'[p]]
       /\ parse'[p] \in ParseRows
       /\ ParseOK(parse[p])'
       /\ parse'[p].at = 0 /\ parse'[p].pc = "idle"
  BY <1>2, NoParseIsOK
<1>11. /\ parse' \in [Parsers -> ParseRows]
       /\ \A q \in Parsers : q # p => parse'[q] = parse[q]
  BY <1>1, <1>2, <1>10 DEF CaptureTypes
<1>12. CaptureTypes'
  <2>1. diffs' \subseteq Captures \X Captures
    <3> DEFINE new == DiffOf(c, r.prior)
    <3>1. r.prior # None => new \in Captures \X Captures
      BY <1>9
    <3>2. diffs' = IF r.prior = None THEN diffs ELSE diffs \cup {new}
      BY <1>2
    <3> HIDE DEF new
    <3> QED
      BY <1>1, <3>1, <3>2 DEF CaptureTypes
  <2>2. jobs' \subseteq JobKinds \X Captures
    BY <1>1, <1>2 DEF CaptureTypes, FollowUps, JobKinds
  <2> QED
    BY <1>1, <1>3, <1>5, <1>11, <2>1, <2>2 DEF CaptureTypes, SeenOK
<1>13. \A q \in Parsers : ParseOK(parse[q])'
  <2> SUFFICES ASSUME NEW q \in Parsers, q # p
               PROVE  ParseOK(parse[q])'
    BY <1>10
  <2>1. /\ parse'[q] = parse[q] /\ parse[q] \in ParseRows /\ ParseOK(parse[q])
        /\ \A p1, p2 \in Parsers :
              p1 # p2 /\ parse[p1].pc = "paired" /\ parse[p1].created
                 /\ parse[p2].pc = "paired" /\ parse[p2].created
              => parse[p1].capture # parse[p2].capture
    BY <1>1, <1>11 DEF CaptureInv, CaptureTypes, ParsesApart
  <2>2. parse[q].pc = "paired" /\ parse[q].created => ~Parsed(parse[q].capture)'
    <3> SUFFICES ASSUME parse[q].pc = "paired", parse[q].created
                 PROVE  ~Parsed(parse[q].capture)'
      OBVIOUS
    <3>1. ~Parsed(parse[q].capture) /\ parse[q].capture \in Captures
      BY <2>1 DEF ParseOK
    <3>2. parse[q].capture # c
      <4>1. CASE r.created
        BY <1>1, <2>1, <4>1
      <4>2. CASE ~r.created
        BY <1>1, <3>1, <4>2 DEF ParseOK
      <4> QED
        BY <4>1, <4>2
    <3> QED
      BY <1>7, <2>1, <3>1, <3>2 DEF Parsed
  <2>3. parse[q].pc # "idle" => parse[q].capture \in Captures
    BY <2>1 DEF ParseOK
  <2>4. parse[q].prior # None => parse[q].prior \in Captures
    BY <2>1 DEF ParseRows
  <2>5. \A d \in Captures : Exists(d) => captures'[d] # 0
    BY <1>3 DEF Exists
  <2>6. \A d \in Captures : /\ Parsed(d) => parses'[d].at # 0
                            /\ Readable(d) => parses'[d].at # 0 /\ parses'[d].ok
    BY <1>7 DEF Parsed, Readable
  <2> QED
    BY <2>1, <2>2, <2>3, <2>4, <2>5, <2>6 DEF ParseOK, Exists, Parsed, Readable
<1>14. ParsesApart'
  BY <1>1, <1>10, <1>11 DEF ParsesApart
<1>15. ParseTimesOK'
  <2>1. 0 <= MaxParses
    BY CaptureAssumption
  <2> QED
    BY <1>1, <1>4, <1>5, <1>10, <1>11, <2>1 DEF ParseTimesOK
<1>16. DiffsForward'
  <2> SUFFICES ASSUME NEW d \in diffs'
               PROVE  /\ d[1][1] = d[2][1]
                      /\ captures'[d[1]] < captures'[d[2]]
                      /\ Readable(d[1])' /\ Readable(d[2])'
    BY DEF DiffsForward
  <2>1. CASE d \in diffs
    <3>1. /\ d[1] \in Captures /\ d[2] \in Captures
          /\ d[1][1] = d[2][1]
          /\ captures[d[1]] < captures[d[2]]
          /\ Readable(d[1]) /\ Readable(d[2])
      BY <2>1 DEF CaptureInv, CaptureTypes, DiffsForward
    <3> QED
      BY <1>3, <1>7, <3>1
  <2>2. CASE d \notin diffs
    <3>1. r.prior # None /\ d = DiffOf(c, r.prior)
      BY <1>2, <2>2
    <3>2. \A x \in Captures : x \in {c, r.prior} => Readable(x)'
      BY <1>1, <1>7, <1>8, <3>1
    <3>3. d[1][1] = d[2][1] /\ captures[d[1]] < captures[d[2]]
      BY <1>9, <3>1
    <3>4. d[1] \in {c, r.prior} /\ d[2] \in {c, r.prior}
      BY <1>9, <3>1
    <3>5. d[1] \in Captures /\ d[2] \in Captures
      BY <1>9, <3>1
    <3>6. Readable(d[1])' /\ Readable(d[2])'
      BY <3>2, <3>4, <3>5
    <3> QED
      BY <1>3, <3>3, <3>5, <3>6
  <2> QED
    BY <2>1, <2>2
<1>17. ChainUnbroken'
  <2> SUFFICES ASSUME NEW d \in Captures
               PROVE  /\ Exists(d)' <=> <<"parse", d>> \in jobs'
                      /\ Exists(d)' => /\ d[2] \in blobs'
                                       /\ objects'[d[2]] # "absent"
                                       /\ current'[d[1]] # None
                      /\ Parsed(d)' => Exists(d)'
                      /\ \A kind \in {"index", "route"} : Readable(d)' <=> <<kind, d>> \in jobs'
    BY DEF ChainUnbroken
  <2>1. /\ Exists(d) <=> <<"parse", d>> \in jobs
        /\ Exists(d) => /\ d[2] \in blobs
                        /\ objects[d[2]] # "absent"
                        /\ current[d[1]] # None
        /\ Parsed(d) => Exists(d)
        /\ \A kind \in {"index", "route"} : Readable(d) <=> <<kind, d>> \in jobs
    BY <1>1 DEF ChainUnbroken
  <2>2. <<"parse", d>> \in jobs' <=> <<"parse", d>> \in jobs
    BY <1>2 DEF FollowUps
  <2>3. \A kind \in {"index", "route"} :
           <<kind, d>> \in jobs' <=> <<kind, d>> \in jobs \/ (d = c /\ r.created /\ r.ok)
    BY <1>2 DEF FollowUps
  <2>4. Exists(d)' <=> Exists(d)
    BY <1>3 DEF Exists
  <2>5. Parsed(d)' => Exists(d)'
    BY <1>1, <1>7, <2>1, <2>4
  <2> QED
    BY <1>3, <1>7, <2>1, <2>2, <2>3, <2>4, <2>5
<1> QED
  BY <1>2, <1>12, <1>13, <1>14, <1>15, <1>16, <1>17, FetchesKept DEF CaptureInv

LEMMA ParseStepInv ==
    ASSUME CaptureInv, NEW p \in Parsers, ParseStep(p)
    PROVE  CaptureInv'
<1>1. CASE \E c \in Captures : BeginParse(p, c)
  BY <1>1, BeginParseInv
<1>2. CASE PairParse(p)
  BY <1>2, PairParseInv
<1>3. CASE CommitParse(p)
  BY <1>3, CommitParseInv
<1>4. CASE CrashParse(p)
  BY <1>4, CrashParseInv
<1> QED
  BY <1>1, <1>2, <1>3, <1>4 DEF ParseStep

-----------------------------------------------------------------------------
(* The theorems.                                                           *)

LEMMA NextInv == CaptureInv /\ [Next]_vars => CaptureInv'
<1> SUFFICES ASSUME CaptureInv, [Next]_vars
             PROVE  CaptureInv'
  OBVIOUS
<1>1. CASE \E f \in Fetchers : FetchStep(f)
  BY <1>1, FetchStepInv
<1>2. CASE \E p \in Parsers : ParseStep(p)
  BY <1>2, ParseStepInv
<1>3. CASE UNCHANGED vars
  <2>1. UNCHANGED <<state, origins, captures, current, blobs, seen, parses, diffs,
                    scope, objects, jobs, lost, clock, fetch, parse>>
    BY <1>3 DEF vars, pool, parsed
  <2> QED
    BY <2>1 DEF CaptureInv, CaptureTypes, SeenOK, FetchOK, InstantsApart, ParseOK,
                ParsesApart, ParseTimesOK, ObservationsTrue, DiffsForward, ChainUnbroken,
                Exists, Parsed, Readable
<1> QED
  BY <1>1, <1>2, <1>3 DEF Next

\* What fetches and parses keep, whatever overlaps and wherever they die.
THEOREM CaptureInvariant == Spec => []CaptureInv
<1> QED
  BY InitInv, NextInv, PTL DEF Spec

\* What is recorded of a visit is what was served then, though the page may
\* have been captured by others between the read and the commit.
THEOREM ObservationsAreTrue == Spec => []ObservationsTrue
<1>1. CaptureInv => ObservationsTrue
  BY DEF CaptureInv
<1> QED
  BY <1>1, CaptureInvariant, PTL

\* Diffs lead from the older capture of a document to the newer one, in
\* whatever order the captures are parsed.
THEOREM DiffsLeadForward == Spec => []DiffsForward
<1>1. CaptureInv => DiffsForward
  BY DEF CaptureInv
<1> QED
  BY <1>1, CaptureInvariant, PTL

\* A capture has its blob, file, document and parse job, and a readable parse
\* its index and route jobs; an unreadable or a missing one has none.
THEOREM ChainHolds == Spec => []ChainUnbroken
<1>1. CaptureInv => ChainUnbroken
  BY DEF CaptureInv
<1> QED
  BY <1>1, CaptureInvariant, PTL

LEMMA FetchKeepsHistory ==
    ASSUME CaptureInv, NEW f \in Fetchers, FetchStep(f)
    PROVE  History
<1>1. CASE RecordCapture(f)
  <2> DEFINE c == <<UrlOf[fetch[f].item], fetch[f].served>>
  <2>1. /\ captures' = [captures EXCEPT ![c] = fetch[f].at]
        /\ ~Exists(c)
        /\ UNCHANGED parses /\ seen \subseteq seen' /\ origins \subseteq origins' /\ UNCHANGED diffs
    BY <1>1 DEF RecordCapture, Conflict, parsed
  <2> HIDE DEF c
  <2>2. \A d \in Captures : Exists(d) => captures'[d] = captures[d]
    BY <2>1 DEF CaptureInv, CaptureTypes
  <2> QED
    BY <2>1, <2>2 DEF History
<1>2. CASE ~RecordCapture(f)
  <2>1. /\ UNCHANGED <<captures, parses, origins, diffs>>
        /\ seen \subseteq seen'
    BY <1>2 DEF FetchStep, BeginFetch, Answer, AnswerOf, RecordUnchanged, RecordFailure,
                StoreObject, FindDocument, RefuseCapture, CrashFetch, pool, parsed
  <2> QED
    BY <2>1 DEF History
<1> QED
  BY <1>1, <1>2

LEMMA ParseKeepsHistory ==
    ASSUME CaptureInv, NEW p \in Parsers, ParseStep(p)
    PROVE  History
<1>1. CASE CommitParse(p)
  <2> DEFINE r == parse[p]
             c == r.capture
  <2>1. /\ parses' = [parses EXCEPT ![c] = ParseRow(r)]
        /\ diffs \subseteq diffs'
        /\ UNCHANGED <<captures, seen, origins>>
    BY <1>1 DEF CommitParse, pool
  <2>2. ParseOK(r) /\ r.pc = "paired"
    BY <1>1 DEF CommitParse, CaptureInv
  <2>3. Parsed(c) => ParseRow(r) = parses[c]
    BY <2>2 DEF ParseOK, ParseRow
  <2> HIDE DEF r, c
  <2>4. \A d \in Captures : Parsed(d) => parses'[d] = parses[d]
    BY <2>1, <2>3 DEF CaptureInv, CaptureTypes
  <2> QED
    BY <2>1, <2>4 DEF History
<1>2. CASE ~CommitParse(p)
  <2>1. UNCHANGED <<captures, parses, origins, diffs, seen>>
    BY <1>2 DEF ParseStep, BeginParse, PairParse, CrashParse, pool, parsed
  <2> QED
    BY <2>1 DEF History
<1> QED
  BY <1>1, <1>2

\* Nothing that was captured, parsed or seen is rewritten.
THEOREM HistoryIsKept == Spec => HistoryKept
<1>1. CaptureInv /\ [Next]_vars => [History]_vars
  <2>1. ASSUME CaptureInv, Next
        PROVE  History
    BY <2>1, FetchKeepsHistory, ParseKeepsHistory DEF Next
  <2> QED
    BY <2>1
<1>2. Spec => [][History]_vars
  BY <1>1, CaptureInvariant, PTL DEF Spec
<1> QED
  BY <1>2 DEF HistoryKept
=============================================================================
