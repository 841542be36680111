------------------------ MODULE DashboardStreamProofs ------------------------
(***************************************************************************)
(* What the live view of a device guarantees for every page size, every    *)
(* number of points it retains, and any number of rows and failures: its   *)
(* types, that a stream has at most one owner, and that a chart never      *)
(* hides a hole.                                                           *)
(***************************************************************************)
EXTENDS DashboardStream, FiniteSetTheorems, TLAPS

-------------------------------------------------------------------------------
(* Finite sets of rows *)

LEMMA RowsFinite ==
    ASSUME NEW S \in SUBSET Ids
    PROVE  IsFiniteSet(S) /\ Cardinality(S) \in Nat /\ S \subseteq Nat
<1>1. IsFiniteSet(Ids) /\ Ids \subseteq Nat
  BY FS_Interval, StreamAssumption DEF Ids
<1> QED
  BY <1>1, FS_Subset, FS_CardinalityType

\* Some member of a set of sets of rows is strictly above no other.
LEMMA SmallestSet ==
    ASSUME NEW T \in SUBSET SUBSET Ids, T # {}
    PROVE  \E t \in T : \A u \in T : u \subseteq t => u = t
<1>1. IsFiniteSet(Ids)
  BY RowsFinite
<1>2. IsWellFoundedOn(StrictSubsetOrdering(Ids), SUBSET Ids)
  BY <1>1, FS_StrictSubsetOrderingWellFounded, FS_FiniteSubsetsOfFinite
<1>3. PICK t \in T : \A u \in T : ~(<<u, t>> \in StrictSubsetOrdering(Ids))
  <2> HIDE DEF StrictSubsetOrdering
  <2> QED
    BY <1>2, WFMin
<1> QED
  BY <1>3 DEF StrictSubsetOrdering

\* A set of rows has an oldest and a newest one.
LEMMA MinOfRows ==
    ASSUME NEW S \in SUBSET Ids, S # {}
    PROVE  Min(S) \in S /\ \A y \in S : Min(S) <= y
<1> DEFINE Below(x) == {j \in S : j < x}
           T == {Below(x) : x \in S}
<1>1. S \subseteq Nat
  BY RowsFinite
<1>2. T \in SUBSET SUBSET Ids /\ T # {}
  OBVIOUS
<1>3. PICK t \in T : \A u \in T : u \subseteq t => u = t
  <2> HIDE DEF T
  <2> QED
    BY <1>2, SmallestSet
<1>4. PICK x \in S : t = Below(x)
  BY <1>3
<1>5. ASSUME NEW y \in S PROVE x <= y
  <2>1. SUFFICES ASSUME y < x PROVE FALSE
    BY <1>1
  <2>2. Below(y) \subseteq Below(x) /\ y \in Below(x) /\ y \notin Below(y)
    <3>1. y \in Below(x) /\ x \in Nat /\ y \in Nat
      BY <2>1, <1>1
    <3>2. \A j \in Below(y) : j \in Nat /\ j < x
      BY <2>1, <3>1, <1>1
    <3>3. y \notin Below(y)
      BY <3>1
    <3> QED
      BY <3>1, <3>2, <3>3
  <2>3. Below(y) \in T
    OBVIOUS
  <2>4. Below(y) = Below(x)
    <3> HIDE DEF T
    <3> QED
      BY <2>2, <2>3, <1>3, <1>4
  <2> QED
    BY <2>2, <2>4
<1> QED
  BY <1>5 DEF Min

LEMMA MaxOfRows ==
    ASSUME NEW S \in SUBSET Ids, S # {}
    PROVE  Max(S) \in S /\ \A y \in S : y <= Max(S)
<1> DEFINE Above(x) == {j \in S : j > x}
           T == {Above(x) : x \in S}
<1>1. S \subseteq Nat
  BY RowsFinite
<1>2. T \in SUBSET SUBSET Ids /\ T # {}
  OBVIOUS
<1>3. PICK t \in T : \A u \in T : u \subseteq t => u = t
  <2> HIDE DEF T
  <2> QED
    BY <1>2, SmallestSet
<1>4. PICK x \in S : t = Above(x)
  BY <1>3
<1>5. ASSUME NEW y \in S PROVE x >= y
  <2>1. SUFFICES ASSUME y > x PROVE FALSE
    BY <1>1
  <2>2. Above(y) \subseteq Above(x) /\ y \in Above(x) /\ y \notin Above(y)
    <3>1. y \in Above(x) /\ x \in Nat /\ y \in Nat
      BY <2>1, <1>1
    <3>2. \A j \in Above(y) : j \in Nat /\ j > x
      BY <2>1, <3>1, <1>1
    <3>3. y \notin Above(y)
      BY <3>1
    <3> QED
      BY <3>1, <3>2, <3>3
  <2>3. Above(y) \in T
    OBVIOUS
  <2>4. Above(y) = Above(x)
    <3> HIDE DEF T
    <3> QED
      BY <2>2, <2>3, <1>3, <1>4
  <2> QED
    BY <2>2, <2>4
<1>6. Max(S) \in S /\ \A y \in S : Max(S) >= y
  BY <1>5 DEF Max
<1> QED
  BY <1>6, <1>1

\* R holds the newest rows of S: n of them, or all.
Keeps(R, S, n) ==
    /\ R \subseteq S
    /\ \A h \in R, x \in S : h <= x => x \in R
    /\ Cardinality(R) <= n
    /\ Cardinality(R) >= n \/ R = S

LEMMA NewestKeeps ==
    ASSUME NEW S \in SUBSET Ids, NEW n \in Nat
    PROVE  Keeps(Newest(S, n), S, n)
<1> DEFINE R == Newest(S, n)
           Above(x) == {j \in S : j > x}
<1>1. R \subseteq S /\ R \in SUBSET Ids /\ \A x : Above(x) \in SUBSET Ids
  BY DEF Newest
<1>2. \A x \in S : Cardinality(Above(x)) \in Nat /\ (x \in R <=> Cardinality(Above(x)) < n)
  BY <1>1, RowsFinite DEF Newest
<1>3. ASSUME NEW h \in R, NEW x \in S, h <= x PROVE x \in R
  <2>1. Above(x) \subseteq Above(h)
    BY <1>1, <1>3, RowsFinite
  <2>2. Cardinality(Above(x)) <= Cardinality(Above(h))
    BY <2>1, <1>1, RowsFinite, FS_Subset
  <2> QED
    BY <2>2, <1>1, <1>2
<1>4. Cardinality(R) <= n
  <2>1. CASE R = {}
    BY <2>1, FS_EmptySet
  <2>2. CASE R # {}
    <3>1. PICK m \in R : \A y \in R : m <= y
      BY <2>2, <1>1, MinOfRows
    <3>2. R \ {m} \subseteq Above(m)
      BY <3>1, <1>1, RowsFinite
    <3>3. Cardinality(R \ {m}) <= Cardinality(Above(m)) /\ Cardinality(R \ {m}) \in Nat
      BY <3>2, <1>1, RowsFinite, FS_Subset
    <3>4. Cardinality(R \ {m}) = Cardinality(R) - 1
      BY <1>1, RowsFinite, FS_RemoveElement
    <3> QED
      BY <3>1, <3>3, <3>4, <1>1, <1>2, RowsFinite
  <2> QED
    BY <2>1, <2>2
<1>5. Cardinality(R) >= n \/ R = S
  <2>1. SUFFICES ASSUME S \ R # {} PROVE Cardinality(R) >= n
    BY <1>1
  <2>2. PICK x \in S \ R : \A y \in S \ R : y <= x
    BY <2>1, <1>1, MaxOfRows
  <2>3. Above(x) \subseteq R
    BY <2>2, <1>1, RowsFinite
  <2>4. Cardinality(Above(x)) <= Cardinality(R)
    BY <2>3, <1>1, RowsFinite, FS_Subset
  <2> QED
    BY <2>2, <2>4, <1>1, <1>2, RowsFinite
<1> QED
  BY <1>1, <1>3, <1>4, <1>5 DEF Keeps

\* Behind a set of n rows nothing older is kept.
LEMMA KeepsFull ==
    ASSUME NEW S \in SUBSET Ids, NEW n \in Nat, NEW R, Keeps(R, S, n),
           NEW G \in SUBSET S, Cardinality(G) >= n, NEW h \in R
    PROVE  \E g \in G : g <= h
<1> SUFFICES ASSUME \A g \in G : ~(g <= h) PROVE FALSE
  OBVIOUS
<1>1. R \in SUBSET Ids /\ G \in SUBSET Ids /\ h \in Nat /\ G \subseteq Nat
  BY RowsFinite DEF Keeps
<1>2. G \subseteq R \ {h}
  BY <1>1 DEF Keeps
<1>3. Cardinality(G) <= Cardinality(R \ {h})
  BY <1>1, <1>2, RowsFinite, FS_Subset
<1>4. Cardinality(R \ {h}) = Cardinality(R) - 1
  BY <1>1, RowsFinite, FS_RemoveElement
<1> QED
  BY <1>1, <1>3, <1>4, RowsFinite DEF Keeps

\* Keeping the newest rows twice is keeping them once.
LEMMA KeepsTwice ==
    ASSUME NEW A \in SUBSET Ids, NEW B \in SUBSET Ids, NEW n \in Nat,
           NEW R1, Keeps(R1, A, n), NEW R, Keeps(R, R1 \cup B, n)
    PROVE  Keeps(R, A \cup B, n)
<1>1. R1 \in SUBSET Ids /\ R1 \cup B \in SUBSET Ids /\ R \in SUBSET Ids
  BY DEF Keeps
<1>2. ASSUME NEW h \in R, NEW x \in A \cup B, h <= x PROVE x \in R
  <2>1. CASE x \in R1 \cup B
    BY <1>2, <2>1 DEF Keeps
  <2>2. CASE x \in A \ R1
    <3>1. Cardinality(R1) >= n
      BY <2>2 DEF Keeps
    <3>2. PICK g \in R1 : g <= h
      BY <3>1, <1>1, KeepsFull
    <3>3. g \in Nat /\ h \in Nat /\ x \in Nat
      BY <1>1, RowsFinite
    <3> QED
      BY <3>2, <3>3, <2>2, <1>2 DEF Keeps
  <2> QED
    BY <2>1, <2>2
<1>3. Cardinality(R) >= n \/ R = A \cup B
  <2>1. CASE Cardinality(R1) >= n
    <3>1. CASE R = R1 \cup B
      BY <2>1, <3>1, <1>1, RowsFinite, FS_Subset
    <3> QED
      BY <3>1 DEF Keeps
  <2>2. CASE R1 = A
    BY <2>2 DEF Keeps
  <2> QED
    BY <2>1, <2>2 DEF Keeps
<1> QED
  BY <1>2, <1>3 DEF Keeps


-------------------------------------------------------------------------------
(* Types, and the one owner *)

\* Until the seed is there nothing has been started.
Unseeded ==
    seed = "loading" =>
        /\ series = [held |-> {}, anchor |-> NoRow] /\ ~contiguous /\ queued = {}
        /\ sock = "none" /\ ~backoff /\ ~retryTimer
        /\ catchUp = "idle" /\ attempt = NoAttempt /\ ~historyIncomplete

\* A page that is followed by another is not empty.
PageHasRows == request.more => request.items # {}

OwnerInv == StreamTypeOK /\ OneOwner /\ Unseeded /\ PageHasRows

SeriesType == [held : SUBSET Ids, anchor : Maybe]
AttemptType == [from : Maybe, before : Maybe, pages : 0 .. MaxPages - 1, collected : SUBSET Ids]
RequestType == [state : {"none", "asked", "answered", "failed"}, items : SUBSET Ids, more : BOOLEAN]

LEMMA PagesPositive == MaxPages \in Nat /\ MaxPages >= 2
<1> DEFINE q == (MaxPoints + Limit - 1) \div Limit + 1
<1>1. MaxPoints + Limit - 1 \in Nat /\ Limit \in Nat /\ Limit > 0
  BY StreamAssumption
<1>2. q \in Int
  BY <1>1
<1> HIDE DEF q
<1>3. \E x \in {2, q} : \A y \in {2, q} : x >= y
  BY <1>2
<1>4. Max({2, q}) \in {2, q} /\ Max({2, q}) >= 2
  BY <1>3 DEF Max
<1>5. MaxPages = Max({2, q})
  BY DEF MaxPages, q
<1> QED
  BY <1>2, <1>4, <1>5

\* Whatever is absorbed, the view shows the newest rows it can, and its anchor
\* moves only on proof, to the newest of them.
LEMMA AbsorbedKeeps ==
    ASSUME NEW view \in SeriesType, Cardinality(view.held) <= MaxPoints,
           NEW incoming \in SUBSET Ids, NEW proven \in BOOLEAN
    PROVE  /\ Absorbed(view, incoming, proven) \in SeriesType
           /\ Keeps(Absorbed(view, incoming, proven).held, view.held \cup incoming, MaxPoints)
           /\ \/ Absorbed(view, incoming, proven).anchor = view.anchor
              \/ /\ proven
                 /\ Absorbed(view, incoming, proven).anchor \in Absorbed(view, incoming, proven).held
<1> DEFINE H == view.held \cup incoming
           held == Newest(H, MaxPoints)
<1>1. H \in SUBSET Ids /\ view.held \in SUBSET Ids /\ MaxPoints \in Nat /\ MaxPoints >= 1
  BY StreamAssumption DEF SeriesType
<1>2. Keeps(held, H, MaxPoints)
  BY <1>1, NewestKeeps
<1>3. CASE incoming \subseteq view.held
  <2>1. H = view.held
    BY <1>3
  <2> QED
    BY <1>3, <2>1 DEF Absorbed, Keeps
<1>4. CASE ~(incoming \subseteq view.held)
  <2>1. held # {}
    BY <1>1, <1>2, <1>4, FS_EmptySet DEF Keeps
  <2>2. held \in SUBSET Ids
    BY <1>1, <1>2 DEF Keeps
  <2>3. Max(held) \in held
    BY <2>1, <2>2, MaxOfRows
  <2>4. Absorbed(view, incoming, proven) = [held |-> held, anchor |-> IF proven THEN Max(held) ELSE view.anchor]
    BY <1>4 DEF Absorbed
  <2> HIDE DEF held
  <2>5. (IF proven THEN Max(held) ELSE view.anchor) \in Maybe
    BY <2>2, <2>3 DEF SeriesType, Maybe
  <2> QED
    BY <1>2, <2>2, <2>3, <2>4, <2>5 DEF SeriesType
<1> QED
  BY <1>3, <1>4

LEMMA StreamTyped_Init == StreamInit => OwnerInv
<1> SUFFICES ASSUME StreamInit PROVE OwnerInv
  OBVIOUS
<1>1. Cardinality({}) = 0 /\ 0 \in 0 .. MaxPages - 1 /\ MaxPoints \in Nat /\ 0 \in 0 .. MaxDrops
  BY FS_EmptySet, PagesPositive, StreamAssumption
<1>2. committed \in Nat /\ published = committed /\ committed - published = 0
  BY StreamAssumption DEF StreamInit
<1>3. attempt \in AttemptType /\ request \in RequestType /\ series \in SeriesType
  BY <1>1 DEF StreamInit, AttemptType, RequestType, SeriesType, NoAttempt, Request, Maybe, NoRow
<1>4. StreamTypeOK
  <2>1. published \in 0 .. committed /\ delivered \in 0 .. published /\ committed \in 0 .. MaxRows
    BY <1>2 DEF StreamInit
  <2>2. {backoff, manual, stopped, contiguous, retryTimer, historyIncomplete, left} \subseteq BOOLEAN
    BY DEF StreamInit
  <2>3. series.held = {} /\ queued = {}
    BY DEF StreamInit
  <2> QED
    BY <1>1, <1>2, <1>3, <2>1, <2>2, <2>3 DEF StreamInit, StreamTypeOK, AttemptType, RequestType, SeriesType
<1> QED
  BY <1>4 DEF StreamInit, OwnerInv, OneOwner, Unseeded, PageHasRows, Request, Reconciling, NoAttempt, NoRow

\* The types, variable by variable.
LEMMA Typed ==
    ASSUME StreamTypeOK
    PROVE  /\ committed \in Nat /\ published \in Nat /\ delivered \in Nat
           /\ delivered <= published /\ published <= committed /\ committed <= MaxRows
           /\ published = committed \/ published + 1 = committed
           /\ backoff \in BOOLEAN /\ manual \in BOOLEAN /\ stopped \in BOOLEAN
           /\ contiguous \in BOOLEAN /\ retryTimer \in BOOLEAN
           /\ historyIncomplete \in BOOLEAN /\ left \in BOOLEAN
           /\ series \in SeriesType /\ series.held \in SUBSET Ids /\ series.anchor \in Maybe
           /\ queued \in SUBSET Ids
           /\ attempt \in AttemptType /\ attempt.collected \in SUBSET Ids
           /\ request \in RequestType /\ request.items \in SUBSET Ids
           /\ MaxRows \in Nat /\ MaxDrops \in Nat /\ MaxPoints \in Nat /\ MaxPoints >= 1
<1>1. MaxRows \in Nat /\ MaxDrops \in Nat /\ MaxPoints \in Nat /\ MaxPoints >= 1
  BY StreamAssumption
<1>2. /\ committed \in Nat /\ published \in Nat /\ delivered \in Nat
      /\ delivered <= published /\ published <= committed /\ committed <= MaxRows
      /\ published = committed \/ published + 1 = committed
  BY <1>1 DEF StreamTypeOK
<1>3. /\ backoff \in BOOLEAN /\ manual \in BOOLEAN /\ stopped \in BOOLEAN
      /\ contiguous \in BOOLEAN /\ retryTimer \in BOOLEAN
      /\ historyIncomplete \in BOOLEAN /\ left \in BOOLEAN
  BY DEF StreamTypeOK
<1>4. /\ series \in SeriesType /\ queued \in SUBSET Ids
      /\ attempt \in AttemptType /\ request \in RequestType
  BY DEF StreamTypeOK, SeriesType, AttemptType, RequestType
<1> QED
  BY <1>1, <1>2, <1>3, <1>4 DEF SeriesType, AttemptType, RequestType

LEMMA ReconcileTyped ==
    ASSUME StreamTypeOK, Reconcile
    PROVE  /\ attempt' \in AttemptType /\ request' \in RequestType
           /\ request'.more = FALSE /\ catchUp' = "running" /\ retryTimer' = FALSE
<1>1. 0 \in 0 .. MaxPages - 1
  BY PagesPositive
<1> QED
  BY <1>1, Typed DEF Reconcile, NoAttempt, Request, AttemptType, RequestType, Maybe, NoRow

\* What a catch-up shows in the end: the newest of what was shown, what it
\* collected and what it held back.
LEMMA Concluded ==
    ASSUME StreamTypeOK, NEW C \in SUBSET Ids, NEW proof \in {"complete", "truncated", "failed"},
           Concludes(proof, C)
    PROVE  /\ series' \in SeriesType
           /\ Keeps(series'.held, series.held \cup C \cup queued, MaxPoints)
           /\ \/ series'.anchor = series.anchor
              \/ proof # "failed" /\ series'.anchor \in series.held \cup C \cup queued
<1> DEFINE proven == proof # "failed"
           view == Absorbed(series, C, proven)
           seen == Absorbed(view, queued, proven)
<1>1. series' = seen
  BY DEF Concludes
<1>2. series \in SeriesType /\ Cardinality(series.held) <= MaxPoints /\ proven \in BOOLEAN
      /\ queued \in SUBSET Ids /\ series.held \in SUBSET Ids /\ MaxPoints \in Nat
  BY Typed DEF StreamTypeOK
<1>3. /\ view \in SeriesType /\ Keeps(view.held, series.held \cup C, MaxPoints)
      /\ \/ view.anchor = series.anchor
         \/ proven /\ view.anchor \in view.held
  BY <1>2, AbsorbedKeeps
<1>4. Cardinality(view.held) <= MaxPoints /\ view.held \subseteq series.held \cup C
  BY <1>3 DEF Keeps
<1>5. /\ seen \in SeriesType /\ Keeps(seen.held, view.held \cup queued, MaxPoints)
      /\ \/ seen.anchor = view.anchor
         \/ proven /\ seen.anchor \in seen.held
  BY <1>2, <1>3, <1>4, AbsorbedKeeps
<1>6. Keeps(seen.held, series.held \cup C \cup queued, MaxPoints)
  <2> HIDE DEF view, seen
  <2> QED
    BY <1>2, <1>3, <1>5, KeepsTwice
<1>7. seen.held \subseteq series.held \cup C \cup queued
  BY <1>6 DEF Keeps
<1> HIDE DEF view, seen
<1> QED
  BY <1>1, <1>3, <1>4, <1>5, <1>6, <1>7

\* A page that arrived ends the catch-up or asks for the next.
LEMMA PageCases ==
    ASSUME StreamTypeOK, PageArrives
    PROVE  \/ request.state = "failed" /\ Concludes("failed", attempt.collected)
           \/ /\ request.state = "answered"
              /\ LET C == attempt.collected \cup request.items
                     proof == Proof(request, C)
                 IN \/ proof \in {"complete", "truncated", "failed"} /\ Concludes(proof, C)
                    \/ /\ proof = "open"
                       /\ attempt' = [attempt EXCEPT !.before = Min(request.items),
                                        !.pages = @ + 1, !.collected = C]
                       /\ request' = Request("asked")
                       /\ UNCHANGED <<rows, seed, retryTimer, catchUp, historyIncomplete>>
<1> DEFINE C == attempt.collected \cup request.items
<1>1. Proof(request, C) \in {"complete", "truncated", "failed", "open"}
  BY DEF Proof
<1> QED
  BY <1>1 DEF PageArrives, Answered

LEMMA PageTyped ==
    ASSUME StreamTypeOK, NEW from, NEW before
    PROVE  /\ PageOf(from, before) \in RequestType
           /\ PageOf(from, before).more => PageOf(from, before).items # {}
<1> DEFINE matching == {i \in 1 .. committed : i >= from /\ (before # NoRow => i < before)}
<1>1. matching \in SUBSET Ids /\ Limit \in Nat /\ Limit >= 1
  BY Typed, StreamAssumption DEF Ids
<1>2. Cardinality(matching) \in Nat
  BY <1>1, RowsFinite
<1> HIDE DEF matching
<1>3. Keeps(Newest(matching, Limit), matching, Limit)
  BY <1>1, NewestKeeps
<1>4. Cardinality(matching) > Limit => Newest(matching, Limit) # {}
  BY <1>1, <1>2, <1>3, FS_EmptySet DEF Keeps
<1>5. PageOf(from, before) =
        [state |-> "answered", items |-> Newest(matching, Limit), more |-> Cardinality(matching) > Limit]
  BY DEF PageOf, matching
<1>6. Newest(matching, Limit) \in SUBSET Ids
  BY <1>1, <1>3 DEF Keeps
<1>7. (Cardinality(matching) > Limit) \in BOOLEAN
  OBVIOUS
<1>8. ASSUME NEW items \in SUBSET Ids, NEW more \in BOOLEAN
      PROVE  [state |-> "answered", items |-> items, more |-> more] \in RequestType
  BY DEF RequestType
<1>9. PageOf(from, before) \in RequestType
  BY <1>5, <1>6, <1>7, <1>8
<1>10. PageOf(from, before).items = Newest(matching, Limit)
  BY <1>5
<1>11. PageOf(from, before).more = (Cardinality(matching) > Limit)
  BY <1>5
<1> QED
  BY <1>4, <1>9, <1>10, <1>11

\* The invariant of one owner, for the steps that leave the rows alone.
LEMMA OwnerOfTheRest ==
    ASSUME OwnerInv,
           \/ CommitRow \/ Publish \/ Answer \/ CatchUpTimer \/ LateAnswer
           \/ Opens \/ SocketCloses \/ SocketTimer \/ RetryNow \/ Leave
    PROVE  OwnerInv'
<1> USE DEF OwnerInv, table, socket, rows, fetching
<1>0. StreamTypeOK /\ OneOwner /\ Unseeded /\ PageHasRows
  OBVIOUS
<1>1. CASE CommitRow
  <2>1. committed' \in 0 .. MaxRows /\ published' \in 0 .. committed' /\ committed' - published' \in {0, 1}
    BY <1>1, Typed DEF CommitRow
  <2>2. StreamTypeOK'
    BY <1>0, <1>1, <2>1 DEF CommitRow, StreamTypeOK
  <2> QED
    BY <1>0, <1>1, <2>2 DEF CommitRow, OneOwner, Unseeded, PageHasRows, Reconciling
<1>2. CASE Publish
  <2>1. /\ published' \in 0 .. committed' /\ committed' - published' \in {0, 1}
        /\ delivered' \in 0 .. published'
    BY <1>2, Typed DEF Publish
  <2>2. StreamTypeOK'
    BY <1>0, <1>2, <2>1 DEF Publish, StreamTypeOK
  <2> QED
    BY <1>0, <1>2, <2>2 DEF Publish, OneOwner, Unseeded, PageHasRows, Reconciling
<1>3. CASE Answer
  <2>1. request' \in RequestType /\ drops' \in 0 .. MaxDrops /\ (request'.more => request'.items # {})
    <3>1. CASE request' = PageOf(attempt.from, attempt.before) /\ UNCHANGED drops
      BY <1>0, <3>1, PageTyped DEF StreamTypeOK
    <3>2. CASE request' = Request("failed") /\ Drop
      BY <1>0, <3>2, Typed DEF StreamTypeOK, Request, RequestType, Drop
    <3> QED
      BY <1>3, <3>1, <3>2 DEF Answer
  <2>2. StreamTypeOK'
    BY <1>0, <1>3, <2>1 DEF Answer, StreamTypeOK, RequestType
  <2> QED
    BY <1>0, <1>3, <2>1, <2>2 DEF Answer, OneOwner, Unseeded, PageHasRows, Reconciling
<1>4. CASE CatchUpTimer
  <2>1. StreamTypeOK'
    BY <1>0, <1>4, ReconcileTyped DEF CatchUpTimer, StreamTypeOK, AttemptType, RequestType
  <2> QED
    BY <1>0, <1>4, <2>1, ReconcileTyped
    DEF CatchUpTimer, OneOwner, Unseeded, PageHasRows, Reconciling
<1>5. CASE LateAnswer
  <2>1. request' \in RequestType /\ ~request'.more
    BY <1>5 DEF LateAnswer, Request, RequestType
  <2>2. StreamTypeOK'
    BY <1>0, <1>5, <2>1 DEF LateAnswer, StreamTypeOK, RequestType
  <2> QED
    BY <1>0, <1>5, <2>1, <2>2 DEF LateAnswer, OneOwner, Unseeded, PageHasRows, Reconciling
<1>6. CASE Opens
  <2>1. Reconcile
    BY <1>6 DEF Opens, Supersedes
  <2>2. delivered' \in 0 .. published' /\ manual' = FALSE
    BY <1>6, Typed DEF Opens
  <2>3. StreamTypeOK'
    BY <1>0, <1>6, <2>1, <2>2, ReconcileTyped DEF Opens, StreamTypeOK, AttemptType, RequestType
  <2> QED
    BY <1>0, <1>6, <2>1, <2>3, ReconcileTyped DEF Opens, OneOwner, Unseeded, PageHasRows, Reconciling
<1>7. CASE SocketCloses
  <2>1. /\ delivered' \in 0 .. published' /\ manual' = FALSE /\ drops' \in 0 .. MaxDrops
        /\ stopped' \in BOOLEAN /\ backoff' \in BOOLEAN
    <3>1. delivered' \in 0 .. published' /\ manual' = FALSE
      BY <1>7, Typed DEF SocketCloses
    <3>2. drops \in 0 .. MaxDrops /\ drops < MaxDrops /\ drops' = drops + 1
      BY <1>7 DEF SocketCloses, Drop, StreamTypeOK
    <3>3. stopped' \in BOOLEAN /\ backoff' \in BOOLEAN
      BY <1>7, Typed DEF SocketCloses
    <3> QED
      BY <3>1, <3>2, <3>3, Typed
  <2>2. StreamTypeOK'
    BY <1>0, <1>7, <2>1 DEF SocketCloses, StreamTypeOK
  <2> QED
    BY <1>0, <1>7, <2>2 DEF SocketCloses, OneOwner, Unseeded, PageHasRows, Reconciling
<1>8. CASE SocketTimer
  <2>1. StreamTypeOK'
    BY <1>0, <1>8 DEF SocketTimer, StreamTypeOK
  <2> QED
    BY <1>0, <1>8, <2>1 DEF SocketTimer, OneOwner, Unseeded, PageHasRows, Reconciling
<1>9. CASE RetryNow
  <2>1. ~left /\ left' = left /\ seed # "loading" /\ seed' = seed
    BY <1>0, <1>9 DEF RetryNow, RetryOffered, Unseeded
  <2>2. /\ sock' \in {"none", "connecting", "reconnecting", "open"} /\ manual' \in BOOLEAN /\ backoff' \in BOOLEAN
        /\ ~(sock' # "none" /\ backoff')
    BY <1>0, <1>9, Typed DEF RetryNow, TakesOver, OneOwner, StreamTypeOK
  <2>3. /\ attempt' \in AttemptType /\ request' \in RequestType /\ (request'.more => request'.items # {})
        /\ catchUp' \in {"idle", "running", "complete", "truncated", "failed"}
        /\ retryTimer' \in BOOLEAN /\ ~(catchUp' = "running" /\ retryTimer')
    <3>1. CASE Reconciling
      <4>1. UNCHANGED fetching
        BY <1>9, <3>1 DEF RetryNow
      <4>2. /\ attempt \in AttemptType /\ request \in RequestType /\ retryTimer \in BOOLEAN
            /\ catchUp \in {"idle", "running", "complete", "truncated", "failed"}
        BY <1>0, Typed DEF StreamTypeOK
      <4> QED
        BY <1>0, <3>1, <4>1, <4>2 DEF Reconciling, OneOwner, PageHasRows
    <3>2. CASE ~Reconciling
      BY <1>0, <1>9, <3>2, ReconcileTyped DEF RetryNow
    <3> QED
      BY <3>1, <3>2
  <2>4. StreamTypeOK'
    BY <1>0, <1>9, <2>2, <2>3 DEF RetryNow, StreamTypeOK, AttemptType, RequestType
  <2> QED
    BY <1>0, <2>1, <2>2, <2>3, <2>4 DEF OneOwner, Unseeded, PageHasRows, Reconciling
<1>10. CASE Leave
  <2>1. delivered' \in 0 .. published' /\ left' = TRUE /\ manual' = FALSE /\ backoff' = FALSE /\ retryTimer' = FALSE
    BY <1>10, Typed DEF Leave
  <2>2. StreamTypeOK'
    BY <1>0, <1>10, <2>1 DEF Leave, StreamTypeOK
  <2> QED
    BY <1>0, <1>10, <2>2 DEF Leave, OneOwner, Unseeded, PageHasRows, Reconciling
<1> QED
  BY <1>1, <1>2, <1>3, <1>4, <1>5, <1>6, <1>7, <1>8, <1>9, <1>10

\* What the seed shows.
LEMMA Seeded ==
    ASSUME StreamTypeOK, SeedArrives, request.state # "failed"
    PROVE  /\ series' \in SeriesType
           /\ Keeps(series'.held, series.held \cup request.items, MaxPoints)
           /\ series'.held = {} => series'.anchor = NoRow
           /\ series'.held # {} => series'.anchor \in series'.held
           /\ seed' = "ready" /\ contiguous' = TRUE
<1> DEFINE H == series.held \cup request.items
           held == Newest(H, MaxPoints)
<1>1. H \in SUBSET Ids /\ MaxPoints \in Nat
  BY Typed
<1>2. Keeps(held, H, MaxPoints)
  BY <1>1, NewestKeeps
<1>3. held \in SUBSET Ids
  BY <1>1, <1>2 DEF Keeps
<1>4. series' = [held |-> held, anchor |-> IF held = {} THEN NoRow ELSE Max(held)]
      /\ seed' = "ready" /\ contiguous' = TRUE
  BY DEF SeedArrives
<1>5. held # {} => Max(held) \in held
  BY <1>3, MaxOfRows
<1> HIDE DEF held
<1>6. (IF held = {} THEN NoRow ELSE Max(held)) \in Maybe
  BY <1>3, <1>5 DEF Maybe
<1> QED
  BY <1>2, <1>3, <1>4, <1>5, <1>6 DEF SeriesType

\* What a frame adds to the rows shown.
LEMMA Framed ==
    ASSUME StreamTypeOK, Frame, ~Reconciling
    PROVE  /\ series' \in SeriesType
           /\ Keeps(series'.held, series.held \cup {delivered + 1}, MaxPoints)
           /\ \/ series'.anchor = series.anchor
              \/ contiguous /\ series'.anchor \in series'.held
           /\ delivered + 1 \in Ids
<1>1. delivered + 1 \in Ids
  BY Typed DEF Frame, Ids
<1>2. series' = Absorbed(series, {delivered + 1}, contiguous)
  BY DEF Frame
<1>3. Cardinality(series.held) <= MaxPoints
  BY DEF StreamTypeOK
<1>4. series \in SeriesType /\ contiguous \in BOOLEAN /\ {delivered + 1} \in SUBSET Ids
  BY <1>1, Typed
<1> QED
  BY ONLY <1>1, <1>2, <1>3, <1>4, AbsorbedKeeps

\* What is held back while a catch-up runs.
LEMMA FrameHeld ==
    ASSUME StreamTypeOK, Frame, Reconciling
    PROVE  /\ Keeps(queued', queued \cup {delivered + 1}, MaxPoints)
           /\ delivered + 1 \in Ids /\ queued' \in SUBSET Ids
           /\ series' = series
<1>1. delivered + 1 \in Ids
  BY Typed DEF Frame, Ids
<1>2. Keeps(queued', queued \cup {delivered + 1}, MaxPoints)
  BY <1>1, Typed, NewestKeeps DEF Frame
<1> QED
  BY <1>1, <1>2, Typed DEF Keeps, Frame

LEMMA OwnerOfTheRows ==
    ASSUME OwnerInv, PageArrives \/ SeedArrives \/ Frame
    PROVE  OwnerInv'
<1> USE DEF OwnerInv, table, socket, rows, fetching
<1>0. StreamTypeOK /\ OneOwner /\ Unseeded /\ PageHasRows
  OBVIOUS
<1>1. CASE SeedArrives
  <2>1. request' \in RequestType /\ ~request'.more
    BY <1>1 DEF SeedArrives, Request, RequestType
  <2>2. /\ series' \in SeriesType /\ Cardinality(series'.held) <= MaxPoints
        /\ contiguous' \in BOOLEAN /\ seed' \in {"ready", "failed"}
    <3>1. CASE request.state = "failed"
      BY <1>0, <1>1, <3>1, Typed DEF SeedArrives, StreamTypeOK
    <3>2. CASE request.state # "failed"
      BY <1>0, <1>1, <3>2, Seeded DEF Keeps
    <3> QED
      BY <3>1, <3>2
  <2>3. StreamTypeOK'
    BY <1>0, <1>1, <2>1, <2>2 DEF SeedArrives, StreamTypeOK, SeriesType, RequestType
  <2> QED
    BY <1>0, <1>1, <2>1, <2>2, <2>3
    DEF SeedArrives, Current, OneOwner, Unseeded, PageHasRows, Reconciling
<1>2. CASE Frame
  <2>1. delivered' \in 0 .. published' /\ seed # "loading"
    BY <1>0, <1>2, Typed DEF Frame, Unseeded
  <2>2. /\ series' \in SeriesType /\ Cardinality(series'.held) <= MaxPoints
        /\ queued' \in SUBSET Ids /\ Cardinality(queued') <= MaxPoints
    <3>1. CASE Reconciling
      BY <1>0, <3>1, <1>2, FrameHeld, Typed DEF Keeps, StreamTypeOK
    <3>2. CASE ~Reconciling
      BY <1>0, <3>2, <1>2, Framed, Typed DEF Keeps, StreamTypeOK, Frame
    <3> QED
      BY <3>1, <3>2
  <2>3. StreamTypeOK'
    BY <1>0, <1>2, <2>1, <2>2 DEF Frame, StreamTypeOK, SeriesType
  <2> QED
    BY <1>0, <1>2, <2>1, <2>3 DEF Frame, OneOwner, Unseeded, PageHasRows, Reconciling
<1>3. CASE PageArrives
  <2>0. ~left /\ Reconciling /\ UNCHANGED <<table, socket, left, drops>> /\ seed # "loading"
    BY <1>0, <1>3 DEF PageArrives, Current, Unseeded, Reconciling
  <2>1. ASSUME NEW C \in SUBSET Ids, NEW proof \in {"complete", "truncated", "failed"},
               Concludes(proof, C)
        PROVE  OwnerInv'
    <3>1. series' \in SeriesType /\ Cardinality(series'.held) <= MaxPoints
      BY <1>0, <2>1, Concluded DEF Keeps
    <3>2. queued' = {} /\ Cardinality({}) <= MaxPoints
      BY <2>1, FS_EmptySet, StreamAssumption DEF Concludes
    <3>3. /\ request' \in RequestType /\ ~request'.more /\ attempt' \in AttemptType
          /\ 0 \in 0 .. MaxPages - 1
      BY <2>1, PagesPositive
      DEF Concludes, Request, RequestType, NoAttempt, AttemptType, Maybe, NoRow
    <3>4. /\ contiguous' \in BOOLEAN /\ retryTimer' \in BOOLEAN /\ historyIncomplete' \in BOOLEAN
          /\ seed' \in {"ready", "failed"} /\ catchUp' = proof
      BY <1>0, <2>0, <2>1 DEF Concludes, Rearms, StreamTypeOK
    <3>5. StreamTypeOK'
      BY <1>0, <2>0, <3>1, <3>2, <3>3, <3>4 DEF StreamTypeOK, SeriesType, RequestType, AttemptType
    <3> QED
      BY <1>0, <2>0, <3>3, <3>4, <3>5 DEF OneOwner, Unseeded, PageHasRows, Reconciling
  <2>2. ASSUME NEW C \in SUBSET Ids, Proof(request, C) = "open",
               attempt' = [attempt EXCEPT !.before = Min(request.items),
                                        !.pages = @ + 1, !.collected = C],
               request' = Request("asked"),
               UNCHANGED <<rows, seed, retryTimer, catchUp, historyIncomplete>>
        PROVE  OwnerInv'
    <3>1. request.more /\ attempt.pages + 1 # MaxPages
      BY <2>2 DEF Proof
    <3>2. Min(request.items) \in Ids
      BY <1>0, <3>1, Typed, MinOfRows DEF PageHasRows
    <3>3. attempt.pages + 1 \in 0 .. MaxPages - 1
      BY <1>0, <3>1, Typed, PagesPositive DEF AttemptType
    <3>4. attempt' \in AttemptType
      BY <1>0, <2>2, <3>2, <3>3, Typed DEF AttemptType, Maybe
    <3>5. request' \in RequestType /\ ~request'.more
      BY <2>2 DEF Request, RequestType
    <3>6. StreamTypeOK'
      BY <1>0, <2>0, <2>2, <3>4, <3>5 DEF StreamTypeOK, AttemptType, RequestType
    <3> QED
      BY <1>0, <2>0, <2>2, <3>5, <3>6 DEF OneOwner, Unseeded, PageHasRows, Reconciling
  <2>3. attempt.collected \in SUBSET Ids /\ attempt.collected \cup request.items \in SUBSET Ids
    BY <1>0, Typed
  <2> QED
    BY <1>0, <1>3, <2>1, <2>2, <2>3, PageCases
<1> QED
  BY <1>1, <1>2, <1>3

LEMMA OwnerStep == OwnerInv /\ [StreamNext]_streamVars => OwnerInv'
<1> SUFFICES ASSUME OwnerInv, [StreamNext]_streamVars PROVE OwnerInv'
  OBVIOUS
<1>1. CASE StreamNext
  BY <1>1, OwnerOfTheRest, OwnerOfTheRows DEF StreamNext, Browser
<1>2. CASE UNCHANGED streamVars
  BY <1>2 DEF OwnerInv, StreamTypeOK, OneOwner, Unseeded, PageHasRows, Reconciling,
     streamVars, table, socket, rows, fetching
<1> QED
  BY <1>1, <1>2

LEMMA OwnerAlways == StreamSpec => []OwnerInv
BY StreamTyped_Init, OwnerStep, PTL DEF StreamSpec

\* Every variable of the live view has its type, the view never holds more rows
\* than it retains, and a catch-up never asks for more pages than it may.
THEOREM StreamTyped == StreamSpec => []StreamTypeOK
BY OwnerAlways, PTL DEF OwnerInv

\* Never two sockets, never a socket beside the timer that replaces it, never a
\* catch-up beside its own timer, and nothing at all for a view that was left
\* (socket.ts:12 "At most one socket and one timer exist at a time").
THEOREM AtMostOneOwner == StreamSpec => []OneOwner
BY OwnerAlways, PTL DEF OwnerInv

-------------------------------------------------------------------------------
(* No hidden hole *)

\* From any of its rows on, up to top, S misses none.
NoGap(S, top) == \A h \in S, x \in Ids : h <= x /\ x <= top => x \in S

Live == catchUp \in {"complete", "truncated"}
Full == Cardinality(series.held) >= MaxPoints

\* An open socket has started a catch-up.
Attended == sock = "open" => catchUp # "idle"

\* Frames wait during a catch-up only, and were delivered.
HeldBack ==
    /\ ~Reconciling => queued = {}
    /\ \A q \in queued : q <= delivered

\* What the end of the last catch-up leaves said.
EndSaid ==
    /\ Live => contiguous
    /\ catchUp = "failed" => ~contiguous
    /\ catchUp \in {"truncated", "failed"} => historyIncomplete
    /\ contiguous \/ historyIncomplete \/ series.held = {}

Shown ==
    /\ \A h \in series.held : h <= committed
    /\ series.anchor # NoRow => \E g \in series.held : series.anchor <= g

\* Nothing is missing up to the anchor; nor at all, while contiguous.
Gapless ==
    /\ NoGap(series.held, series.anchor)
    /\ contiguous => \A g \in series.held : NoGap(series.held, g)

\* The next frame does not fall below the rows shown, leaving a hole, unless the
\* view is so full that it would not be shown.
NextFrameMeets ==
    sock = "open" /\ series.held # {} /\ (series.anchor # NoRow \/ Live) =>
        Full \/ \E h \in series.held : h <= delivered + 1

\* Up to the last frame delivered a live view misses nothing.
LiveCovers ==
    sock = "open" /\ Live =>
        /\ series.held = {} => delivered = 0
        /\ NoGap(series.held, delivered)

\* Nor does a frame that waits.
WaitingMeets ==
    series.anchor # NoRow /\ ~Full => \A q \in queued : \E h \in series.held : h <= q

\* The frame was held back and displaced by newer ones.
Displaced(x) == Cardinality(queued) >= MaxPoints /\ \A q \in queued : x < q

\* What the pages of a catch-up collected reaches from its oldest row to top.
Gathered(top) ==
    /\ \A h \in series.held : h <= top
    /\ \A c \in attempt.collected : attempt.from <= c /\ c <= top
    /\ NoGap(attempt.collected, top)
    /\ attempt.pages > 0 =>
          /\ attempt.before \in attempt.collected /\ attempt.before > attempt.from
          /\ \A c \in attempt.collected : attempt.before <= c

\* The newest row the page in flight may hold.
LastRow(top) == IF attempt.pages = 0 THEN top ELSE attempt.before - 1

\* The page that was answered ends there, and is the whole rest if none follows.
PageShows(top) ==
    request.state = "answered" =>
        /\ \A i \in request.items : attempt.from <= i /\ i <= LastRow(top)
        /\ NoGap(request.items, LastRow(top))
        /\ ~request.more => \A x \in Ids : attempt.from <= x /\ x <= LastRow(top) => x \in request.items

\* The rows behind top come as frames.
FramesFollow(top) ==
    /\ sock = "open" => \A x \in Ids : top < x /\ x <= delivered => x \in queued \/ Displaced(x)
    /\ \A q \in queued, x \in Ids : top < x /\ x <= q => x \in queued \/ Displaced(x)

\* What a catch-up has proven so far: top is the newest row when its first page
\* was answered.
PagesProve ==
    Reconciling =>
        /\ attempt.from = series.anchor
        /\ attempt.pages = 0 => attempt.collected = {} /\ attempt.before = NoRow
        /\ attempt.pages > 0 \/ request.state = "answered" =>
              \E top \in 0 .. committed : Gathered(top) /\ PageShows(top) /\ FramesFollow(top)

SeedProves ==
    seed = "loading" /\ request.state = "answered" =>
        \E top \in 0 .. committed : (\A i \in request.items : i <= top) /\ NoGap(request.items, top)

HistoryInv ==
    /\ Attended /\ HeldBack /\ EndSaid /\ Shown /\ Gapless
    /\ NextFrameMeets /\ LiveCovers /\ WaitingMeets
    /\ PagesProve /\ SeedProves

LEMMA HistoryInit == StreamInit => HistoryInv
<1> SUFFICES ASSUME StreamInit PROVE HistoryInv
  OBVIOUS
<1>1. series.held = {} /\ series.anchor = NoRow /\ queued = {} /\ sock = "none" /\ catchUp = "idle"
      /\ ~contiguous /\ request.state = "asked"
  BY DEF StreamInit, Request
<1> QED
  BY <1>1 DEF HistoryInv, Attended, HeldBack, EndSaid, Shown, Gapless, NoGap, NextFrameMeets, LiveCovers,
     WaitingMeets, PagesProve, SeedProves, Live, Reconciling, NoRow

\* The backend goes on, or the socket is lost: what was proven stays so.
LEMMA NothingShown ==
    ASSUME OwnerInv, OwnerInv', HistoryInv,
           UNCHANGED <<rows, seed, attempt, request, catchUp, historyIncomplete>>,
           committed <= committed', delivered <= delivered',
           sock' = "open" => sock = "open" /\ delivered' = delivered
    PROVE  HistoryInv'
<1> USE DEF HistoryInv, rows
<1>1. /\ series' = series /\ queued' = queued /\ contiguous' = contiguous /\ seed' = seed
      /\ attempt' = attempt /\ request' = request /\ catchUp' = catchUp
      /\ historyIncomplete' = historyIncomplete
  OBVIOUS
<1>2. /\ committed \in Nat /\ delivered \in Nat /\ committed' \in Nat /\ delivered' \in Nat
      /\ series.held \subseteq Nat /\ queued \subseteq Nat
  <2>1. StreamTypeOK /\ StreamTypeOK'
    BY DEF OwnerInv
  <2>2. MaxRows \in Nat
    BY StreamAssumption
  <2>3. committed' \in Nat /\ delivered' \in Nat
    BY <2>1, <2>2 DEF StreamTypeOK
  <2> QED
    BY <2>1, <2>3, Typed, RowsFinite
<1>3. Attended' /\ EndSaid'
  BY <1>1 DEF Attended, EndSaid, Live
<1>4. HeldBack'
  BY <1>1, <1>2 DEF HeldBack, Reconciling
<1>5. Shown'
  BY <1>1, <1>2 DEF Shown
<1>6. Gapless'
  BY <1>1 DEF Gapless, NoGap
<1>7. NextFrameMeets' /\ LiveCovers'
  BY <1>1 DEF NextFrameMeets, LiveCovers, Live, Full, NoGap
<1>8. WaitingMeets'
  BY <1>1 DEF WaitingMeets, Full
<1>9. \A top : Gathered(top) => Gathered(top)'
  BY <1>1 DEF Gathered, NoGap
<1>10. \A top : PageShows(top) => PageShows(top)'
  BY <1>1 DEF PageShows, NoGap, LastRow
<1>11. \A top : FramesFollow(top) => FramesFollow(top)'
  BY <1>1 DEF FramesFollow, Displaced
<1>12. 0 .. committed \subseteq 0 .. committed'
  BY <1>2
<1>13. PagesProve'
  BY <1>1, <1>9, <1>10, <1>11, <1>12 DEF PagesProve, Reconciling
<1>14. SeedProves'
  BY <1>1, <1>12 DEF SeedProves, NoGap
<1> QED
  BY <1>3, <1>4, <1>5, <1>6, <1>7, <1>8, <1>13, <1>14

\* A catch-up starts, on a socket that may be new.
LEMMA Restarted ==
    ASSUME OwnerInv, OwnerInv', HistoryInv, Reconcile,
           UNCHANGED <<rows, seed, historyIncomplete, committed>>, delivered <= delivered',
           sock' = "open" => (sock = "open" /\ delivered' = delivered) \/ committed <= delivered' + 1
    PROVE  HistoryInv'
<1> USE DEF HistoryInv, rows
<1>1. /\ series' = series /\ queued' = queued /\ contiguous' = contiguous /\ seed' = seed
      /\ committed' = committed /\ historyIncomplete' = historyIncomplete
  OBVIOUS
<1>2. /\ catchUp' = "running" /\ request'.state = "asked" /\ attempt'.from = series.anchor
      /\ attempt'.pages = 0 /\ attempt'.collected = {} /\ attempt'.before = NoRow
  BY DEF Reconcile, Request, NoAttempt
<1>3. /\ committed \in Nat /\ delivered \in Nat /\ delivered' \in Nat
      /\ series.held \subseteq Nat /\ queued \subseteq Nat
  <2>1. StreamTypeOK /\ StreamTypeOK'
    BY DEF OwnerInv
  <2>2. MaxRows \in Nat
    BY StreamAssumption
  <2>3. committed' \in Nat /\ delivered' \in Nat
    BY <2>1, <2>2 DEF StreamTypeOK
  <2> QED
    BY <2>1, <2>3, Typed, RowsFinite
<1>4. Attended' /\ EndSaid'
  BY <1>1, <1>2 DEF Attended, EndSaid, Live
<1>5. HeldBack'
  BY <1>1, <1>2, <1>3 DEF HeldBack, Reconciling
<1>6. Shown' /\ Gapless' /\ WaitingMeets'
  BY <1>1 DEF Shown, Gapless, WaitingMeets, NoGap, Full
<1>7. NextFrameMeets'
  BY <1>1, <1>2, <1>3 DEF NextFrameMeets, Live, Full, Shown
<1>8. LiveCovers'
  BY <1>2 DEF LiveCovers, Live
<1>9. PagesProve' /\ SeedProves'
  BY <1>1, <1>2 DEF PagesProve, SeedProves
<1> QED
  BY <1>4, <1>5, <1>6, <1>7, <1>8, <1>9

\* A page ends at the row before its cursor, or at the newest there is.
LEMMA PageOfShows ==
    ASSUME StreamTypeOK, NEW from \in Maybe, NEW before \in Maybe, NEW last \in 0 .. committed,
           last = IF before = NoRow THEN committed ELSE before - 1
    PROVE  LET page == PageOf(from, before)
           IN /\ page.state = "answered"
              /\ \A i \in page.items : from <= i /\ i <= last
              /\ NoGap(page.items, last)
              /\ ~page.more => \A x \in Ids : from <= x /\ x <= last => x \in page.items
<1> DEFINE matching == {i \in 1 .. committed : i >= from /\ (before # NoRow => i < before)}
           items == Newest(matching, Limit)
<1>1. matching \in SUBSET Ids /\ Limit \in Nat /\ Limit >= 1
  BY Typed, StreamAssumption DEF Ids
<1>2. from \in Nat /\ before \in Nat /\ committed \in Nat /\ committed <= MaxRows /\ MaxRows \in Nat
      /\ Ids \subseteq Nat
  BY Typed DEF Maybe, Ids, NoRow
<1>3. \A x \in Ids : x \in matching <=> from <= x /\ x <= last
  <2>1. CASE before = NoRow
    BY <1>2, <2>1 DEF Ids
  <2>2. CASE before # NoRow
    BY <1>2, <2>2 DEF Ids
  <2> QED
    BY <2>1, <2>2
<1> HIDE DEF matching
<1>4. Keeps(items, matching, Limit)
  BY <1>1, NewestKeeps
<1>5. Cardinality(matching) \in Nat
  BY <1>1, RowsFinite
<1>6. ~(Cardinality(matching) > Limit) => items = matching
  <2>1. IsFiniteSet(matching) /\ items \in SUBSET matching
    BY <1>1, <1>4, RowsFinite DEF Keeps
  <2>2. Cardinality(items) <= Cardinality(matching) /\ (Cardinality(matching) = Cardinality(items) => matching = items)
    BY <2>1, FS_Subset
  <2>3. Cardinality(items) \in Nat
    BY <2>1, FS_Subset, FS_CardinalityType
  <2> QED
    BY <2>2, <2>3, <1>1, <1>4, <1>5 DEF Keeps
<1>7. PageOf(from, before) =
        [state |-> "answered", items |-> items, more |-> Cardinality(matching) > Limit]
  BY DEF PageOf, matching
<1> HIDE DEF items
<1>8. /\ PageOf(from, before).state = "answered" /\ PageOf(from, before).items = items
      /\ PageOf(from, before).more = (Cardinality(matching) > Limit)
  BY <1>7
<1>9. \A i \in items : i \in Ids /\ from <= i /\ i <= last
  BY <1>1, <1>3, <1>4 DEF Keeps
<1>10. NoGap(items, last)
  <2> SUFFICES ASSUME NEW h \in items, NEW x \in Ids, h <= x, x <= last PROVE x \in items
    BY DEF NoGap
  <2>1. from <= x
    <3>1. h \in Ids /\ from <= h
      BY <1>9
    <3>2. h \in Nat /\ x \in Nat
      BY <3>1, <1>2
    <3> QED
      BY <3>1, <3>2, <1>2
  <2> QED
    BY <2>1, <1>3, <1>4 DEF Keeps
<1>11. ~PageOf(from, before).more => \A x \in Ids : from <= x /\ x <= last => x \in items
  BY <1>3, <1>6, <1>8
<1> QED
  BY <1>8, <1>9, <1>10, <1>11

LEMMA HistoryOfAnswer ==
    ASSUME OwnerInv, HistoryInv, Answer
    PROVE  HistoryInv'
<1> USE DEF HistoryInv, table, socket, rows
<1>1. /\ request.state = "asked" /\ UNCHANGED <<table, socket, seed, rows, attempt, retryTimer, catchUp>>
      /\ UNCHANGED historyIncomplete
  BY DEF Answer
<1>2. /\ Attended' /\ HeldBack' /\ EndSaid' /\ Shown' /\ Gapless'
      /\ NextFrameMeets' /\ LiveCovers' /\ WaitingMeets'
  BY <1>1 DEF Attended, HeldBack, EndSaid, Shown, Gapless, NextFrameMeets, LiveCovers, WaitingMeets,
     Live, Full, NoGap, Reconciling
<1>3. /\ StreamTypeOK /\ committed \in Nat /\ delivered <= committed /\ delivered \in Nat
      /\ attempt.from \in Maybe /\ attempt.before \in Maybe /\ attempt.pages \in Nat
      /\ queued \subseteq Ids /\ Ids \subseteq Nat /\ MaxPages \in Nat
  <2>1. StreamTypeOK
    BY DEF OwnerInv
  <2>2. attempt \in AttemptType /\ delivered <= published /\ published <= committed
        /\ published \in Nat /\ committed \in Nat /\ delivered \in Nat /\ queued \in SUBSET Ids
    BY <2>1, Typed
  <2>3. attempt.pages \in 0 .. MaxPages - 1 /\ attempt.from \in Maybe /\ attempt.before \in Maybe
    BY <2>2 DEF AttemptType
  <2> QED
    BY <2>1, <2>2, <2>3, PagesPositive, RowsFinite
<1>4. request'.state # "answered" \/ request' = PageOf(attempt.from, attempt.before)
  BY DEF Answer, Request
<1>5. \A top : Gathered(top) => Gathered(top)'
  BY <1>1 DEF Gathered, NoGap
<1>6. \A top : FramesFollow(top) => FramesFollow(top)'
  BY <1>1 DEF FramesFollow, Displaced
<1>7. ASSUME NEW top \in 0 .. committed, Gathered(top), attempt.pages > 0 \/ top = committed,
             attempt.pages = 0 => attempt.before = NoRow
      PROVE  PageShows(top)'
  <2>1. SUFFICES ASSUME request' = PageOf(attempt.from, attempt.before) PROVE PageShows(top)'
    BY <1>4 DEF PageShows
  <2>2. LastRow(top) \in 0 .. committed
        /\ LastRow(top) = IF attempt.before = NoRow THEN committed ELSE attempt.before - 1
    <3>1. CASE attempt.pages = 0
      BY <1>3, <1>7, <3>1 DEF LastRow
    <3>2. CASE attempt.pages > 0
      <4>1. attempt.before \in attempt.collected /\ attempt.before > attempt.from
        BY <1>7, <3>2 DEF Gathered
      <4>2. attempt.before <= top /\ attempt.before # NoRow /\ attempt.before \in Nat /\ attempt.before >= 1
        BY <1>3, <1>7, <4>1 DEF Gathered, Maybe, NoRow, Ids
      <4> QED
        BY <1>3, <3>2, <4>2 DEF LastRow
    <3> QED
      BY <1>3, <3>1, <3>2
  <2>3. LastRow(top)' = LastRow(top) /\ attempt' = attempt
    BY <1>1 DEF LastRow
  <2> HIDE DEF LastRow
  <2> QED
    BY <1>3, <2>1, <2>2, <2>3, PageOfShows DEF PageShows, NoGap
<1>8. PagesProve'
  <2>1. SUFFICES ASSUME Reconciling PROVE PagesProve'
    BY <1>1 DEF PagesProve, Reconciling
  <2>2. /\ attempt.from = series.anchor
        /\ attempt.pages = 0 => attempt.collected = {} /\ attempt.before = NoRow
    BY <2>1 DEF PagesProve
  <2>3. \E top \in 0 .. committed : Gathered(top) /\ FramesFollow(top) /\ (attempt.pages > 0 \/ top = committed)
    <3>1. CASE attempt.pages > 0
      BY <2>1, <3>1 DEF PagesProve
    <3>2. CASE attempt.pages = 0
      <4>1. Gathered(committed)
        BY <2>2, <3>2 DEF Gathered, NoGap, Shown
      <4>2. FramesFollow(committed)
        BY <1>3 DEF FramesFollow, HeldBack
      <4> QED
        BY <1>3, <4>1, <4>2
    <3> QED
      BY <1>3, <3>1, <3>2
  <2>4. \E top \in 0 .. committed : Gathered(top)' /\ FramesFollow(top)' /\ PageShows(top)'
    BY <1>5, <1>6, <1>7, <2>2, <2>3
  <2> QED
    BY <1>1, <2>2, <2>4 DEF PagesProve
<1>9. SeedProves'
  <2>1. SUFFICES ASSUME seed = "loading", request' = PageOf(attempt.from, attempt.before) PROVE SeedProves'
    BY <1>1, <1>4 DEF SeedProves
  <2>2. attempt.before = NoRow /\ committed \in 0 .. committed
    BY <1>3, <2>1 DEF OwnerInv, Unseeded, NoAttempt
  <2>3. (\A i \in request'.items : i <= committed) /\ NoGap(request'.items, committed)
    BY <1>3, <2>1, <2>2, PageOfShows
  <2> QED
    BY <1>1, <2>2, <2>3 DEF SeedProves, NoGap
<1> QED
  BY <1>2, <1>8, <1>9

LEMMA HistoryOfTheRest ==
    ASSUME OwnerInv, OwnerInv', HistoryInv,
           \/ CommitRow \/ Publish \/ CatchUpTimer \/ LateAnswer
           \/ Opens \/ SocketCloses \/ SocketTimer \/ RetryNow \/ Leave
    PROVE  HistoryInv'
<1> USE DEF table, socket, rows, fetching
<1>1. /\ committed \in Nat /\ published \in Nat /\ delivered \in Nat
      /\ delivered <= published /\ published <= committed /\ committed <= published + 1
  <2>1. StreamTypeOK
    BY DEF OwnerInv
  <2> QED
    BY <2>1, Typed
<1>2. CASE CommitRow
  BY <1>1, <1>2, NothingShown DEF CommitRow
<1>3. CASE Publish
  BY <1>1, <1>3, NothingShown DEF Publish
<1>4. CASE CatchUpTimer
  BY <1>1, <1>4, Restarted DEF CatchUpTimer
<1>5. CASE Opens
  BY <1>1, <1>5, Restarted DEF Opens, Supersedes
<1>6. CASE SocketCloses
  BY <1>1, <1>6, NothingShown DEF SocketCloses
<1>7. CASE SocketTimer
  BY <1>1, <1>7, NothingShown DEF SocketTimer
<1>8. CASE Leave
  BY <1>1, <1>8, NothingShown DEF Leave
<1>9. CASE RetryNow
  <2>1. sock' = "open" => sock = "open"
    BY <1>9 DEF RetryNow, TakesOver
  <2>2. CASE Reconciling
    BY <1>1, <1>9, <2>1, <2>2, NothingShown DEF RetryNow
  <2>3. CASE ~Reconciling
    BY <1>1, <1>9, <2>1, <2>3, Restarted DEF RetryNow
  <2> QED
    BY <2>2, <2>3
<1>10. CASE LateAnswer
  <2>1. /\ request'.state = "none" /\ UNCHANGED historyIncomplete
        /\ UNCHANGED <<table, socket, seed, rows, attempt, retryTimer, catchUp>>
    BY <1>10 DEF LateAnswer, Request
  <2>2. /\ Attended' /\ HeldBack' /\ EndSaid' /\ Shown' /\ Gapless'
        /\ NextFrameMeets' /\ LiveCovers' /\ WaitingMeets' /\ SeedProves'
    BY <2>1 DEF HistoryInv, Attended, HeldBack, EndSaid, Shown, Gapless, NextFrameMeets, LiveCovers,
       WaitingMeets, Live, Full, NoGap, Reconciling, SeedProves
  <2>3. \A top : Gathered(top) => Gathered(top)'
    BY <2>1 DEF Gathered, NoGap
  <2>4. \A top : FramesFollow(top) => FramesFollow(top)'
    BY <2>1 DEF FramesFollow, Displaced
  <2>5. \A top : PageShows(top)'
    BY <2>1 DEF PageShows
  <2>6. PagesProve'
    BY <2>1, <2>3, <2>4, <2>5 DEF HistoryInv, PagesProve, Reconciling
  <2> QED
    BY <2>2, <2>6 DEF HistoryInv
<1> QED
  BY <1>2, <1>3, <1>4, <1>5, <1>6, <1>7, <1>8, <1>9, <1>10

\* The rows shown after some were dropped, and none above them was.
LEMMA KeptGapless ==
    ASSUME NEW S \in SUBSET Ids, NEW R, Keeps(R, S, MaxPoints), NEW top,
           \A h \in R, x \in Ids : h <= x /\ x <= top => x \in S
    PROVE  NoGap(R, top)
BY DEF Keeps, NoGap

\* The newest row is kept.
LEMMA KeptReaches ==
    ASSUME NEW S \in SUBSET Ids, NEW R, Keeps(R, S, MaxPoints), NEW g \in S, NEW y \in Nat, y <= g
    PROVE  \E h \in R : y <= h
<1>1. R # {}
  BY FS_EmptySet, StreamAssumption DEF Keeps
<1>2. PICK h \in R : TRUE
  BY <1>1
<1>3. h \in Nat /\ g \in Nat
  BY RowsFinite DEF Keeps
<1>4. g \in R \/ g < h
  BY <1>2, <1>3 DEF Keeps
<1> QED
  BY <1>3, <1>4

LEMMA HistoryOfSeed ==
    ASSUME OwnerInv, OwnerInv', HistoryInv, SeedArrives
    PROVE  HistoryInv'
<1> USE DEF HistoryInv, table, socket, rows, fetching
<1>1. /\ sock' = "connecting" /\ queued' = {} /\ catchUp' = "idle" /\ request'.state = "none"
      /\ historyIncomplete' = historyIncomplete /\ committed' = committed
      /\ series.held = {} /\ series.anchor = NoRow /\ ~contiguous
      /\ seed = "loading" /\ (seed' = "failed" => series' = series /\ contiguous' = contiguous)
  BY DEF SeedArrives, OwnerInv, Unseeded, Request
<1>2. Attended' /\ HeldBack' /\ NextFrameMeets' /\ LiveCovers' /\ WaitingMeets' /\ PagesProve'
  BY <1>1 DEF Attended, HeldBack, NextFrameMeets, LiveCovers, WaitingMeets, PagesProve, Reconciling
<1>3. CASE request.state = "failed"
  <2>1. series' = series /\ contiguous' = contiguous /\ seed' = "failed"
    BY <1>3 DEF SeedArrives
  <2> QED
    BY <1>1, <1>2, <2>1 DEF EndSaid, Live, Shown, Gapless, NoGap, SeedProves
<1>4. CASE request.state # "failed"
  <2>0. StreamTypeOK /\ request.items \in SUBSET Ids /\ committed \in Nat /\ Ids \subseteq Nat
    <3>1. StreamTypeOK
      BY DEF OwnerInv
    <3> QED
      BY <3>1, Typed, RowsFinite
  <2>1. /\ Keeps(series'.held, request.items, MaxPoints)
        /\ series'.held = {} => series'.anchor = NoRow
        /\ series'.held # {} => series'.anchor \in series'.held
        /\ seed' = "ready" /\ contiguous' = TRUE
    <3>1. series.held \cup request.items = request.items
      BY <1>1
    <3> QED
      BY <1>4, <2>0, <3>1, Seeded
  <2>2. PICK top \in 0 .. committed : (\A i \in request.items : i <= top) /\ NoGap(request.items, top)
    BY <1>1, <1>4 DEF SeedProves, SeedArrives, Answered
  <2>3. series'.held \subseteq request.items
    BY <2>1 DEF Keeps
  <2>4. \A h \in series'.held : h \in Nat /\ h <= top /\ h <= committed
    <3> SUFFICES ASSUME NEW h \in series'.held PROVE h \in Nat /\ h <= top /\ h <= committed
      OBVIOUS
    <3>1. h \in Nat /\ h <= top
      BY <2>0, <2>2, <2>3
    <3> QED
      BY <2>0, <3>1
  <2>5. NoGap(series'.held, top)
    BY <2>0, <2>1, <2>2, <2>3, KeptGapless DEF NoGap
  <2>6. \A g \in series'.held : NoGap(series'.held, g)
    BY <2>0, <2>2, <2>4, <2>5 DEF NoGap
  <2>7. Gapless'
    <3>1. CASE series'.held = {}
      BY <3>1 DEF Gapless, NoGap
    <3>2. CASE series'.held # {}
      BY <2>1, <2>6, <3>2 DEF Gapless, NoGap
    <3> QED
      BY <3>1, <3>2
  <2>8. Shown'
    BY <1>1, <2>1, <2>4 DEF Shown
  <2>9. EndSaid' /\ SeedProves'
    BY <1>1, <2>1 DEF EndSaid, Live, SeedProves
  <2> QED
    BY <1>2, <2>7, <2>8, <2>9
<1> QED
  BY <1>3, <1>4

\* A frame that waits: what it displaces was older than all that wait.
LEMMA HistoryOfWaiting ==
    ASSUME OwnerInv, OwnerInv', HistoryInv, Frame, Reconciling
    PROVE  HistoryInv'
<1> USE DEF HistoryInv, table, socket, rows, fetching
<1>0. /\ StreamTypeOK /\ delivered \in Nat /\ committed \in Nat /\ queued \in SUBSET Ids
      /\ series.held \in SUBSET Ids /\ Ids \subseteq Nat /\ MaxPoints \in Nat
      /\ Cardinality(queued) <= MaxPoints /\ MaxPoints >= 1
  <2>1. StreamTypeOK
    BY DEF OwnerInv
  <2> QED
    BY <2>1, Typed, RowsFinite DEF StreamTypeOK
<1>1. /\ sock = "open" /\ sock' = "open" /\ delivered' = delivered + 1 /\ catchUp = "running"
      /\ seed' = seed /\ contiguous' = contiguous /\ UNCHANGED fetching
      /\ historyIncomplete' = historyIncomplete /\ committed' = committed
  BY DEF Frame, Reconciling
<1>2. /\ Keeps(queued', queued \cup {delivered + 1}, MaxPoints)
      /\ delivered + 1 \in Ids /\ queued' \in SUBSET Ids /\ series' = series
  BY <1>0, FrameHeld
<1>3. queued' \subseteq queued \cup {delivered + 1}
  BY <1>2 DEF Keeps
<1>4. \A q \in queued : q \in Nat /\ q <= delivered
  BY <1>0 DEF HeldBack
<1>5. Attended' /\ EndSaid' /\ Shown' /\ Gapless' /\ LiveCovers' /\ SeedProves'
  BY <1>1, <1>2 DEF Attended, EndSaid, Shown, Gapless, LiveCovers, SeedProves, Live, NoGap
<1>6. HeldBack'
  <2>1. \A q \in queued' : q <= delivered + 1
    BY <1>0, <1>3, <1>4
  <2> QED
    BY <1>1, <2>1 DEF HeldBack, Reconciling
<1>7. NextFrameMeets'
  <2>1. \A h \in series.held : h <= delivered + 1 => h <= delivered' + 1
    <3> SUFFICES ASSUME NEW h \in series.held, h <= delivered + 1 PROVE h <= delivered' + 1
      OBVIOUS
    <3>1. h \in Nat
      BY <1>0
    <3> QED
      BY <3>1, <1>0, <1>1
  <2> QED
    BY <1>1, <1>2, <2>1 DEF NextFrameMeets, Live, Full
<1>8. WaitingMeets'
  <2>1. SUFFICES ASSUME series.anchor # NoRow, ~Full, NEW q \in queued' PROVE \E h \in series.held : h <= q
    BY <1>2 DEF WaitingMeets, Full
  <2>2. CASE q \in queued
    BY <2>1, <2>2 DEF WaitingMeets
  <2>3. CASE q = delivered + 1
    BY <1>1, <2>1, <2>3 DEF NextFrameMeets, Shown
  <2> QED
    BY <1>3, <2>2, <2>3
<1>9. ASSUME NEW x \in Ids, x \in queued \/ Displaced(x) \/ x = delivered + 1, x <= delivered + 1
      PROVE  x \in queued' \/ Displaced(x)'
  <2>1. CASE Cardinality(queued') < MaxPoints
    <3>1. queued' = queued \cup {delivered + 1}
      <4>1. Cardinality(queued') \in Nat
        BY <1>2, RowsFinite
      <4> QED
        BY <1>0, <1>2, <2>1, <4>1 DEF Keeps
    <3>2. Cardinality(queued) <= Cardinality(queued') /\ Cardinality(queued) \in Nat
      BY <1>0, <1>2, <3>1, RowsFinite, FS_Subset
    <3>3. ~Displaced(x)
      BY <1>0, <1>2, <2>1, <3>2, RowsFinite DEF Displaced
    <3> QED
      BY <1>9, <3>1, <3>3
  <2>2. CASE Cardinality(queued') >= MaxPoints
    <3>1. CASE x \in queued \cup {delivered + 1}
      <4>1. SUFFICES ASSUME x \notin queued', NEW q \in queued' PROVE x < q
        BY <2>2 DEF Displaced
      <4>2. q \in Nat /\ x \in Nat
        BY <1>0, <1>2
      <4> QED
        BY <1>2, <3>1, <4>1, <4>2 DEF Keeps
    <3>2. CASE Displaced(x) /\ x # delivered + 1
      <4>1. x < delivered + 1
        BY <1>0, <1>9, <3>2
      <4>2. \A q \in queued' : x < q
        BY <1>3, <3>2, <4>1 DEF Displaced
      <4> QED
        BY <2>2, <4>2 DEF Displaced
    <3> QED
      BY <1>9, <3>1, <3>2
  <2> QED
    BY <1>0, <1>2, <2>1, <2>2, RowsFinite
<1>10. ASSUME NEW top \in 0 .. committed, FramesFollow(top) PROVE FramesFollow(top)'
  <2>1. \A x \in Ids : top < x /\ x <= delivered + 1 => x \in queued' \/ Displaced(x)'
    <3>1. \A x \in Ids : top < x /\ x <= delivered + 1 => x \in queued \/ Displaced(x) \/ x = delivered + 1
      BY <1>0, <1>1, <1>10 DEF FramesFollow
    <3> QED
      BY <1>9, <3>1
  <2>2. \A q \in queued' : q <= delivered + 1 /\ q \in Nat
    BY <1>0, <1>3, <1>4
  <2>3. \A q \in queued', x \in Ids : x <= q => x <= delivered + 1
    BY <1>0, <2>2
  <2> QED
    BY <1>1, <2>1, <2>3 DEF FramesFollow
<1>11. \A top : Gathered(top) => Gathered(top)'
  BY <1>1, <1>2 DEF Gathered, NoGap
<1>12. \A top : PageShows(top) => PageShows(top)'
  BY <1>1 DEF PageShows, NoGap, LastRow
<1>13. PagesProve'
  BY <1>1, <1>2, <1>10, <1>11, <1>12 DEF PagesProve, Reconciling
<1> QED
  BY <1>5, <1>6, <1>7, <1>8, <1>13

\* A frame that is shown at once: it meets the rows shown, or is not shown.
LEMMA HistoryOfShowing ==
    ASSUME OwnerInv, OwnerInv', HistoryInv, Frame, ~Reconciling
    PROVE  HistoryInv'
<1> USE DEF HistoryInv, table, socket, rows, fetching
<1> DEFINE new == delivered + 1
           all == series.held \cup {new}
<1>0. /\ StreamTypeOK /\ delivered \in Nat /\ committed \in Nat /\ delivered + 1 <= committed
      /\ series.held \in SUBSET Ids /\ series.held \subseteq Nat /\ Ids \subseteq Nat /\ MaxPoints \in Nat
      /\ MaxPoints >= 1 /\ new \in Ids /\ series.anchor \in Nat
  <2>1. StreamTypeOK
    BY DEF OwnerInv
  <2>2. delivered + 1 <= committed /\ series.anchor \in Nat
    BY <2>1, Typed DEF Frame, Maybe, NoRow, Ids
  <2> QED
    BY <2>1, <2>2, Typed, RowsFinite, Framed
<1>1. /\ sock = "open" /\ sock' = "open" /\ delivered' = new /\ catchUp \in {"complete", "truncated", "failed"}
      /\ seed' = seed /\ contiguous' = contiguous /\ UNCHANGED fetching /\ queued' = queued /\ queued = {}
      /\ historyIncomplete' = historyIncomplete /\ committed' = committed
      /\ seed # "loading"
  BY <1>0 DEF Frame, Reconciling, Attended, StreamTypeOK, HeldBack, OwnerInv, Unseeded
<1>2. /\ Keeps(series'.held, all, MaxPoints)
      /\ series'.anchor = series.anchor \/ (contiguous /\ series'.anchor \in series'.held)
  BY <1>0, Framed
<1>3. series'.held \subseteq all /\ series'.held # {} /\ all \in SUBSET Ids /\ series'.held \in SUBSET Ids
  <2>1. series'.held \subseteq all /\ all \in SUBSET Ids
    BY <1>0, <1>2 DEF Keeps
  <2>2. series'.held # {}
    BY <1>0, <1>2, FS_EmptySet DEF Keeps
  <2> QED
    BY <2>1, <2>2
<1>4. contiguous <=> Live
  BY <1>1 DEF EndSaid, Live
<1> HIDE DEF all
<1>5. \A h \in series'.held, x \in all : h <= x => x \in series'.held
  BY <1>2 DEF Keeps
\* below a row that is shown there is one that was
<1>6. ASSUME series.held # {}, series.anchor # NoRow \/ Live, NEW h \in series'.held, NEW x \in Ids,
             h <= x, x # new
      PROVE  \E g \in series.held : g <= x
  <2>1. CASE Full
    <3>1. \E g \in series.held : g <= h
      BY <1>0, <1>2, <1>3, <2>1, KeepsFull DEF Full, all
    <3> QED
      BY <3>1, <1>0, <1>3, <1>6
  <2>2. CASE ~Full
    <3>1. PICK g \in series.held : g <= new
      BY <1>1, <1>6, <2>2 DEF NextFrameMeets
    <3>2. h \in series.held \/ h = new
      BY <1>3 DEF all
    <3> QED
      BY <3>1, <3>2, <1>0, <1>6
  <2> QED
    BY <2>1, <2>2
<1>7. Shown'
  <2>1. \A h \in series'.held : h <= committed
    BY <1>0, <1>3 DEF Shown, all
  <2>2. series'.anchor # NoRow => \E g \in series'.held : series'.anchor <= g
    <3>1. CASE series'.anchor = series.anchor /\ series.anchor # NoRow
      <4>1. PICK g \in series.held : series.anchor <= g
        BY <3>1 DEF Shown
      <4> QED
        BY <1>0, <1>2, <1>3, <3>1, <4>1, KeptReaches DEF all
    <3>2. CASE series'.anchor \in series'.held
      <4>1. series'.anchor \in Ids
        BY <1>3, <3>2
      <4>2. series'.anchor \in Nat
        BY <4>1, RowsFinite
      <4>3. series'.anchor <= series'.anchor
        BY <4>2
      <4> QED
        BY <3>2, <4>3
    <3> QED
      BY <1>2, <3>1, <3>2
  <2> QED
    BY <1>1, <2>1, <2>2 DEF Shown
<1>8. NextFrameMeets'
  <2>1. CASE new \in series'.held
    <3>1. new <= delivered' + 1
      BY <1>0, <1>1
    <3> QED
      BY <2>1, <3>1 DEF NextFrameMeets
  <2>2. CASE new \notin series'.held
    <3>1. Full'
      BY <1>2, <2>2 DEF Keeps, Full, all
    <3> QED
      BY <3>1 DEF NextFrameMeets
  <2> QED
    BY <2>1, <2>2
<1>9. ASSUME contiguous, NEW g \in series'.held PROVE NoGap(series'.held, g)
  <2> SUFFICES ASSUME NEW h \in series'.held, NEW x \in Ids, h <= x, x <= g PROVE x \in all
    BY <1>5 DEF NoGap
  <2>1. CASE x = new
    BY <2>1 DEF all
  <2>2. CASE x # new /\ series.held = {}
    BY <1>0, <1>3, <2>2 DEF all
  <2>3. CASE x # new /\ series.held # {}
    <3>1. PICK k \in series.held : k <= x
      BY <1>4, <1>6, <1>9, <2>3
    <3>2. CASE g \in series.held
      BY <1>9, <3>1, <3>2 DEF Gapless, NoGap, all
    <3>3. CASE g = new
      <4>1. x <= delivered
        BY <1>0, <2>3, <3>3
      <4> QED
        BY <1>1, <1>4, <1>9, <3>1, <4>1 DEF LiveCovers, NoGap, all
    <3> QED
      BY <1>3, <3>2, <3>3 DEF all
  <2> QED
    BY <2>1, <2>2, <2>3
<1>10. NoGap(series'.held, series'.anchor)
  <2>1. CASE contiguous
    <3>1. CASE series'.anchor = NoRow
      BY <1>0, <1>3, <3>1 DEF NoGap, NoRow, Ids
    <3>2. CASE series'.anchor # NoRow
      <4>1. PICK g \in series'.held : series'.anchor <= g
        BY <1>7, <3>2 DEF Shown
      <4>2. NoGap(series'.held, g)
        BY <1>9, <2>1
      <4>3. series'.anchor \in Nat /\ g \in Nat
        BY <1>0, <1>2, <1>3
      <4> QED
        BY <1>0, <4>1, <4>2, <4>3 DEF NoGap
    <3> QED
      BY <3>1, <3>2
  <2>2. CASE ~contiguous
    <3>1. series'.anchor = series.anchor
      BY <1>2, <2>2
    <3> SUFFICES ASSUME NEW h \in series'.held, NEW x \in Ids, h <= x, x <= series.anchor, x # new PROVE x \in all
      BY <1>5, <3>1 DEF NoGap, all
    <3>2. series.anchor # NoRow /\ series.held # {}
      BY <1>0 DEF NoRow, Ids, Shown
    <3>3. PICK k \in series.held : k <= x
      BY <1>6, <3>2
    <3> QED
      BY <3>3 DEF Gapless, NoGap, all
  <2> QED
    BY <2>1, <2>2
<1>11. Gapless'
  BY <1>1, <1>9, <1>10 DEF Gapless
<1>12. LiveCovers'
  <2> SUFFICES ASSUME Live PROVE NoGap(series'.held, new)
    BY <1>1, <1>3 DEF LiveCovers, Live
  <2> SUFFICES ASSUME NEW h \in series'.held, NEW x \in Ids, h <= x, x <= new, x # new PROVE x \in all
    BY <1>5 DEF NoGap, all
  <2>1. x <= delivered
    BY <1>0
  <2>2. h \in series.held
    BY <1>0, <1>3, <2>1 DEF all
  <2> QED
    BY <1>1, <2>1, <2>2 DEF LiveCovers, NoGap, all
<1>13. EndSaid'
  BY <1>1, <1>4 DEF EndSaid, Live
<1>14. Attended' /\ HeldBack' /\ WaitingMeets' /\ PagesProve' /\ SeedProves'
  BY <1>1 DEF Attended, HeldBack, WaitingMeets, PagesProve, SeedProves, Reconciling
<1> QED
  BY <1>7, <1>8, <1>11, <1>12, <1>13, <1>14

\* The end of a catch-up, whatever it proved: what depends on its rows is left.
LEMMA ConclusionEnds ==
    ASSUME OwnerInv, HistoryInv, Reconciling, NEW C \in SUBSET Ids,
           NEW proof \in {"complete", "truncated", "failed"}, Concludes(proof, C),
           UNCHANGED <<table, socket, left, drops>>
    PROVE  /\ Attended' /\ HeldBack' /\ EndSaid' /\ WaitingMeets' /\ PagesProve' /\ SeedProves'
           /\ catchUp' = proof /\ contiguous' = (proof # "failed") /\ queued' = {}
           /\ committed' = committed /\ delivered' = delivered /\ sock' = sock
<1>1. /\ catchUp' = proof /\ contiguous' = (proof # "failed") /\ queued' = {}
      /\ historyIncomplete' = (proof # "complete") /\ seed' \in {seed, "ready"}
      /\ committed' = committed /\ delivered' = delivered /\ sock' = sock /\ seed # "loading"
  BY DEF Concludes, table, socket, OwnerInv, Unseeded, Reconciling
<1>2. Attended' /\ HeldBack'
  BY <1>1 DEF HistoryInv, Attended, HeldBack, Reconciling
<1>3. EndSaid'
  <2>1. CASE proof = "failed"
    BY <1>1, <2>1 DEF EndSaid, Live
  <2>2. CASE proof # "failed"
    BY <1>1, <2>2 DEF EndSaid, Live
  <2> QED
    BY <2>1, <2>2
<1>4. WaitingMeets' /\ PagesProve' /\ SeedProves'
  BY <1>1 DEF WaitingMeets, PagesProve, SeedProves, Reconciling
<1> QED
  BY <1>1, <1>2, <1>3, <1>4

\* The rows a catch-up leaves shown were committed, and reach the anchor.
LEMMA ConclusionShown ==
    ASSUME OwnerInv, OwnerInv', HistoryInv, Reconciling, NEW C \in SUBSET Ids,
           NEW proof \in {"complete", "truncated", "failed"}, Concludes(proof, C),
           UNCHANGED <<table, socket, left, drops>>, \A c \in C : c <= committed
    PROVE  Shown'
<1> DEFINE all == series.held \cup C \cup queued
<1>0. StreamTypeOK /\ committed' = committed
  BY DEF OwnerInv, table
<1>1. /\ all \in SUBSET Ids /\ all \subseteq Nat /\ series.anchor \in Nat
      /\ committed \in Nat /\ delivered \in Nat /\ delivered <= committed
  <2>1. series.anchor \in Nat /\ delivered <= committed
    BY <1>0, Typed DEF Maybe, NoRow, Ids
  <2> QED
    BY <1>0, <2>1, Typed, RowsFinite
<1>2. /\ Keeps(series'.held, all, MaxPoints)
      /\ series'.anchor = series.anchor \/ series'.anchor \in all
  BY <1>0, Concluded
<1>3. \A h \in all : h <= committed
  <2>1. \A q \in queued : q <= committed
    BY <1>1 DEF HistoryInv, HeldBack
  <2> QED
    BY <2>1 DEF HistoryInv, Shown
<1>4. series'.anchor # NoRow => \E g \in all : series'.anchor <= g /\ series'.anchor \in Nat
  <2>1. CASE series'.anchor \in all
    <3>1. series'.anchor \in Nat
      BY <1>1, <2>1
    <3>2. series'.anchor <= series'.anchor
      BY <3>1
    <3> QED
      BY <2>1, <3>1, <3>2
  <2>2. CASE series'.anchor = series.anchor
    BY <1>1, <2>2 DEF HistoryInv, Shown
  <2> QED
    BY <1>2, <2>1, <2>2
<1> HIDE DEF all
<1>5. \A h \in series'.held : h <= committed
  BY <1>2, <1>3 DEF Keeps
<1>6. series'.anchor # NoRow => \E g \in series'.held : series'.anchor <= g
  BY <1>1, <1>2, <1>4, KeptReaches
<1> QED
  BY <1>0, <1>5, <1>6 DEF Shown

\* A catch-up that failed keeps the anchor, and opens no hole below it: what it
\* collected is no older than the anchor, and what waited meets the rows shown.
LEMMA HistoryOfFailure ==
    ASSUME OwnerInv, OwnerInv', HistoryInv, Reconciling, NEW C \in SUBSET Ids,
           Concludes("failed", C), UNCHANGED <<table, socket, left, drops>>,
           \A c \in C : series.anchor <= c /\ c <= committed
    PROVE  HistoryInv'
<1> DEFINE all == series.held \cup C \cup queued
<1>0. StreamTypeOK
  BY DEF OwnerInv
<1>1. /\ all \in SUBSET Ids /\ all \subseteq Nat /\ series.held \subseteq Nat /\ Ids \subseteq Nat
      /\ series.anchor \in Nat /\ MaxPoints \in Nat /\ series.held \in SUBSET Ids
  <2>1. series.anchor \in Nat
    BY <1>0, Typed DEF Maybe, NoRow, Ids
  <2> QED
    BY <1>0, <2>1, Typed, RowsFinite
<1>2. Keeps(series'.held, all, MaxPoints) /\ series'.anchor = series.anchor
  BY <1>0, Concluded
<1>3. /\ Attended' /\ HeldBack' /\ EndSaid' /\ WaitingMeets' /\ PagesProve' /\ SeedProves'
      /\ catchUp' = "failed" /\ contiguous' = FALSE /\ delivered' = delivered /\ sock' = sock
  BY ConclusionEnds
<1>4. Shown'
  BY ConclusionShown
<1>5. NoGap(series'.held, series.anchor)
  <2> SUFFICES ASSUME NEW h \in series'.held, NEW x \in Ids, h <= x, x <= series.anchor PROVE x \in all
    BY <1>1, <1>2, KeptGapless
  <2>1. h \in all /\ h \in Nat /\ x \in Nat
    BY <1>1, <1>2 DEF Keeps
  <2>2. series.anchor # NoRow
    BY <1>1 DEF NoRow, Ids
  <2>3. CASE h \in C
    <3>1. x = h
      BY <1>1, <2>1, <2>3
    <3> QED
      BY <2>3, <3>1
  <2>4. CASE h \in series.held
    BY <2>4 DEF HistoryInv, Gapless, NoGap
  <2>5. CASE h \in queued
    <3>1. \E g \in series.held : g <= h
      <4>1. CASE Full
        BY <1>1, <1>2, <4>1, KeepsFull DEF Full
      <4>2. CASE ~Full
        BY <2>2, <2>5, <4>2 DEF HistoryInv, WaitingMeets
      <4> QED
        BY <4>1, <4>2
    <3>2. PICK g \in series.held : g <= h
      BY <3>1
    <3>3. g <= x
      BY <1>1, <2>1, <3>2
    <3> QED
      BY <3>2, <3>3 DEF HistoryInv, Gapless, NoGap
  <2> QED
    BY <2>1, <2>3, <2>4, <2>5
<1>6. Gapless'
  BY <1>2, <1>3, <1>5 DEF Gapless
<1>7. NextFrameMeets'
  <2> SUFFICES ASSUME sock = "open", series.anchor # NoRow, ~(Cardinality(series'.held) >= MaxPoints)
               PROVE  \E h \in series'.held : h <= delivered + 1
    BY <1>2, <1>3 DEF NextFrameMeets, Live, Full
  <2>1. series'.held = all
    BY <1>2 DEF Keeps
  <2>2. ~Full
    <3>1. Cardinality(series.held) <= Cardinality(all) /\ Cardinality(series.held) \in Nat /\ Cardinality(all) \in Nat
      BY <1>1, RowsFinite, FS_Subset
    <3> QED
      BY <1>1, <2>1, <3>1 DEF Full
  <2>3. PICK h \in series.held : h <= delivered + 1
    BY <2>2 DEF HistoryInv, NextFrameMeets, Shown
  <2> QED
    BY <2>1, <2>3
<1>8. LiveCovers'
  BY <1>3 DEF LiveCovers, Live
<1> QED
  BY <1>3, <1>4, <1>6, <1>7, <1>8 DEF HistoryInv

\* A catch-up that proved what it collected leaves no hole: it met the anchor,
\* or reached the first row, or is all the view can show; and the frames that
\* waited follow it without a gap, or displaced what they did not follow.
LEMMA HistoryOfSuccess ==
    ASSUME OwnerInv, OwnerInv', HistoryInv, Reconciling, NEW C \in SUBSET Ids,
           NEW proof \in {"complete", "truncated"}, Concludes(proof, C),
           UNCHANGED <<table, socket, left, drops>>,
           NEW top \in 0 .. committed, \A h \in series.held \cup C : h <= top, NoGap(C, top),
           FramesFollow(top),
           \/ series.anchor # NoRow /\ series.anchor \in C
           \/ \A x \in Ids : x <= top => x \in C
           \/ Cardinality(C) >= MaxPoints
    PROVE  HistoryInv'
<1> DEFINE all == series.held \cup C \cup queued
<1>0. StreamTypeOK
  BY DEF OwnerInv
<1>1. /\ all \in SUBSET Ids /\ all \subseteq Nat /\ series.held \subseteq Nat /\ Ids \subseteq Nat
      /\ series.anchor \in Maybe /\ MaxPoints \in Nat /\ MaxPoints >= 1
      /\ series.held \in SUBSET Ids /\ queued \in SUBSET Ids
      /\ committed \in Nat /\ top \in Nat /\ top <= committed /\ delivered \in Nat /\ delivered <= committed
      /\ committed <= MaxRows /\ MaxRows \in Nat
  <2>1. committed \in Nat /\ published \in Nat /\ delivered \in Nat /\ delivered <= published /\ published <= committed
    BY <1>0, Typed
  <2>2. top \in Nat /\ top <= committed /\ delivered <= committed
    BY <2>1
  <2> QED
    BY <1>0, <2>1, <2>2, Typed, RowsFinite
<1>2. /\ Keeps(series'.held, all, MaxPoints)
      /\ series'.anchor = series.anchor \/ series'.anchor \in all
  BY <1>0, Concluded
<1>3. /\ Attended' /\ HeldBack' /\ EndSaid' /\ WaitingMeets' /\ PagesProve' /\ SeedProves'
      /\ catchUp' = proof /\ contiguous' = TRUE /\ queued' = {} /\ delivered' = delivered /\ sock' = sock
  BY ConclusionEnds
<1>4. Shown'
  <2>1. \A c \in C : c <= committed
    BY <1>1
  <2> QED
    BY <2>1, ConclusionShown
<1>5. series'.held \subseteq all /\ \A h \in series'.held, x \in all : h <= x => x \in series'.held
  BY <1>2 DEF Keeps
<1>6. ASSUME NEW h \in series'.held, NEW x \in Ids, h <= x, x <= top PROVE x \in all
  <2>0. h \in all /\ h \in Nat /\ x \in Nat
    BY <1>1, <1>5
  <2>1. CASE series.anchor # NoRow /\ series.anchor \in C
    <3>1. ASSUME NEW g \in series.held \cup C, g <= x PROVE x \in series.held \cup C
      <4>1. CASE g \in C
        BY <1>6, <3>1, <4>1 DEF NoGap
      <4>2. CASE g \in series.held /\ x <= series.anchor
        BY <3>1, <4>2 DEF HistoryInv, Gapless, NoGap
      <4>3. CASE ~(x <= series.anchor)
        <5>0. series.anchor \in Nat
          BY <1>1, <2>1
        <5>1. series.anchor <= x
          BY <2>0, <4>3, <5>0
        <5> QED
          BY <1>6, <2>1, <5>1 DEF NoGap
      <4> QED
        BY <3>1, <4>1, <4>2, <4>3
    <3>2. CASE h \in series.held \cup C
      BY <1>6, <3>1, <3>2
    <3>3. CASE h \in queued
      <4>1. PICK g \in series.held : g <= h
        <5>1. CASE Full
          BY <1>1, <1>2, <5>1, KeepsFull DEF Full
        <5>2. CASE ~Full
          BY <2>1, <3>3, <5>2 DEF HistoryInv, WaitingMeets
        <5> QED
          BY <5>1, <5>2
      <4>2. g <= x
        <5>1. g \in Nat
          BY <1>1, <4>1
        <5> QED
          BY <5>1, <1>6, <2>0, <4>1
      <4> QED
        BY <3>1, <4>1, <4>2
    <3> QED
      BY <2>0, <3>2, <3>3
  <2>2. CASE \A y \in Ids : y <= top => y \in C
    BY <1>6, <2>2
  <2>3. CASE Cardinality(C) >= MaxPoints
    <3>1. PICK c \in C : c <= h
      BY <1>1, <1>2, <2>3, KeepsFull
    <3>2. c <= x
      BY <1>1, <1>6, <2>0, <3>1
    <3> QED
      BY <1>6, <3>1, <3>2 DEF NoGap
  <2> QED
    BY <2>1, <2>2, <2>3
<1>7. ASSUME NEW h \in series'.held, NEW x \in Ids, h <= x, x \in queued \/ Displaced(x) PROVE x \in all
  <2>1. SUFFICES ASSUME Displaced(x) PROVE FALSE
    BY <1>7
  <2>2. Cardinality(queued) >= MaxPoints /\ queued \in SUBSET all
    BY <2>1 DEF Displaced
  <2>3. PICK q \in queued : q <= h
    BY <1>1, <1>2, <2>2, KeepsFull
  <2>4. x < q
    BY <2>1, <2>3 DEF Displaced
  <2>5. q \in Nat /\ h \in Nat /\ x \in Nat
    BY <1>1, <1>5
  <2> QED
    BY <1>7, <2>3, <2>4, <2>5
<1>8. ASSUME NEW g \in series'.held PROVE NoGap(series'.held, g)
  <2> SUFFICES ASSUME NEW h \in series'.held, NEW x \in Ids, h <= x, x <= g PROVE x \in all
    BY <1>1, <1>2, KeptGapless
  <2>1. g \in Nat /\ x \in Nat /\ g \in all
    BY <1>1, <1>5
  <2>2. CASE x <= top
    BY <1>6, <2>2
  <2>3. CASE top < x
    <3>1. g \in queued
      <4>1. ~(g <= top)
        BY <1>1, <2>1, <2>3
      <4> QED
        BY <2>1, <4>1
    <3>2. x \in queued \/ Displaced(x)
      BY <2>3, <3>1 DEF FramesFollow
    <3> QED
      BY <1>7, <3>2
  <2> QED
    BY <1>1, <2>1, <2>2, <2>3
<1>9. NoGap(series'.held, series'.anchor)
  <2>1. series'.anchor \in Nat
    BY <1>1, <1>2 DEF Maybe, NoRow
  <2>2. CASE series'.anchor = NoRow
    <3>1. \A h \in series'.held : h \in Ids
      BY <1>1, <1>5
    <3> QED
      BY <2>2, <3>1 DEF NoGap, NoRow, Ids
  <2>3. CASE series'.anchor # NoRow
    <3>1. PICK g \in series'.held : series'.anchor <= g
      BY <1>4, <2>3 DEF Shown
    <3>2. NoGap(series'.held, g) /\ g \in Nat
      BY <1>1, <1>5, <1>8
    <3>3. \A x \in Ids : x <= series'.anchor => x <= g
      BY <1>1, <2>1, <3>1, <3>2
    <3> QED
      BY <3>2, <3>3 DEF NoGap
  <2> QED
    BY <2>2, <2>3
<1>10. Gapless'
  BY <1>8, <1>9 DEF Gapless
<1>11. LiveCovers'
  <2> SUFFICES ASSUME sock = "open"
               PROVE  /\ series'.held = {} => delivered = 0
                      /\ NoGap(series'.held, delivered)
    BY <1>3 DEF LiveCovers
  <2>1. \A x \in Ids : top < x /\ x <= delivered => x \in queued \/ Displaced(x)
    BY DEF FramesFollow
  <2>2. NoGap(series'.held, delivered)
    <3> SUFFICES ASSUME NEW h \in series'.held, NEW x \in Ids, h <= x, x <= delivered PROVE x \in all
      BY <1>1, <1>2, KeptGapless
    <3>1. x <= top \/ top < x
      BY <1>1
    <3> QED
      BY <1>6, <1>7, <2>1, <3>1
  <2>3. ASSUME series'.held = {}, delivered # 0 PROVE FALSE
    <3>1. all = {}
      BY <1>1, <1>2, <2>3, FS_EmptySet DEF Keeps
    <3>2. C = {} /\ queued = {} /\ Cardinality({}) = 0
      BY <3>1, FS_EmptySet
    <3>3. delivered \in Ids
      BY <1>1, <2>3 DEF Ids
    <3>4. ~(delivered <= top)
      <4>1. \A x \in Ids : x <= top => x \in C
        BY <1>1, <3>2
      <4> QED
        BY <3>2, <3>3, <4>1
    <3>5. delivered \in queued \/ Displaced(delivered)
      BY <1>1, <2>1, <3>3, <3>4
    <3> QED
      BY <1>1, <3>2, <3>5 DEF Displaced
  <2> QED
    BY <2>2, <2>3
<1>12. NextFrameMeets'
  <2> SUFFICES ASSUME sock = "open", series'.held # {}, ~(Cardinality(series'.held) >= MaxPoints)
               PROVE  \E h \in series'.held : h <= delivered + 1
    BY <1>3 DEF NextFrameMeets, Full
  <2>1. series'.held = all
    BY <1>2 DEF Keeps
  <2>2. \A S \in SUBSET all : ~(Cardinality(S) >= MaxPoints)
    <3> SUFFICES ASSUME NEW S \in SUBSET all PROVE ~(Cardinality(S) >= MaxPoints)
      OBVIOUS
    <3>1. Cardinality(S) <= Cardinality(all) /\ Cardinality(S) \in Nat /\ Cardinality(all) \in Nat
      BY <1>1, RowsFinite, FS_Subset
    <3> QED
      BY <1>1, <2>1, <3>1
  <2>3. CASE queued # {}
    <3>1. PICK q \in queued : q <= delivered
      BY <2>3 DEF HistoryInv, HeldBack
    <3>2. q <= delivered + 1
      BY <1>1, <3>1
    <3> QED
      BY <2>1, <3>1, <3>2
  <2>4. CASE queued = {} /\ series.anchor # NoRow /\ series.anchor \in C
    <3>1. series.held # {} /\ ~Full
      BY <2>2, <2>4 DEF HistoryInv, Shown, Full
    <3>2. PICK h \in series.held : h <= delivered + 1
      BY <2>4, <3>1 DEF HistoryInv, NextFrameMeets
    <3> QED
      BY <2>1, <3>2
  <2>5. CASE queued = {} /\ \A x \in Ids : x <= top => x \in C
    <3>1. PICK h \in series.held \cup C : h <= top
      BY <2>1, <2>5
    <3>2. h \in Nat /\ h \in Ids /\ h >= 1
      BY <1>1 DEF Ids
    <3>3. 1 \in Ids /\ 1 <= top
      BY <1>1, <3>1, <3>2 DEF Ids
    <3>4. 1 \in C /\ 1 <= delivered + 1
      BY <1>1, <2>5, <3>3
    <3> QED
      BY <2>1, <3>4
  <2>6. ~(Cardinality(C) >= MaxPoints)
    BY <2>2
  <2> QED
    BY <2>3, <2>4, <2>5, <2>6
<1> QED
  BY <1>3, <1>4, <1>10, <1>11, <1>12 DEF HistoryInv

\* With the page that arrived the rows collected still reach top.
LEMMA PageJoins ==
    ASSUME OwnerInv, HistoryInv, Reconciling, request.state = "answered",
           NEW top \in 0 .. committed, Gathered(top), PageShows(top)
    PROVE  LET C == attempt.collected \cup request.items
           IN /\ C \in SUBSET Ids
              /\ \A c \in C : attempt.from <= c /\ c <= top
              /\ NoGap(C, top)
              /\ ~request.more => \A x \in Ids : attempt.from <= x /\ x <= top => x \in C
              /\ \A i \in request.items, c \in attempt.collected : i < c
<1> DEFINE C == attempt.collected \cup request.items
<1>0. /\ StreamTypeOK /\ attempt.collected \in SUBSET Ids /\ request.items \in SUBSET Ids
      /\ Ids \subseteq Nat /\ committed \in Nat /\ top \in Nat
      /\ attempt.pages \in Nat /\ attempt.before \in Nat /\ attempt.from \in Nat
  <2>1. StreamTypeOK
    BY DEF OwnerInv
  <2>2. attempt.pages \in Nat /\ attempt.before \in Nat /\ attempt.from \in Nat
    <3>1. attempt \in AttemptType
      BY <2>1, Typed
    <3> QED
      BY <3>1, PagesPositive, RowsFinite DEF AttemptType, Maybe, NoRow
  <2>3. committed \in Nat
    BY <2>1, Typed
  <2> QED
    BY <2>1, <2>2, <2>3, Typed, RowsFinite
<1>1. attempt.pages = 0 => attempt.collected = {}
  BY DEF HistoryInv, PagesProve
<1>2. attempt.pages > 0 =>
        /\ attempt.before \in attempt.collected /\ LastRow(top) = attempt.before - 1
        /\ \A c \in attempt.collected : attempt.before <= c /\ c <= top
  BY <1>0 DEF Gathered, LastRow
<1>3. attempt.pages = 0 => LastRow(top) = top
  BY DEF LastRow
<1>4. LastRow(top) \in Int /\ LastRow(top) <= top
  <2>1. CASE attempt.pages > 0
    <3>1. attempt.before <= top
      BY <1>2, <2>1
    <3> QED
      BY <1>0, <1>2, <2>1, <3>1
  <2> QED
    BY <1>0, <1>3, <2>1
<1>5. /\ \A i \in request.items : attempt.from <= i /\ i <= LastRow(top)
      /\ NoGap(request.items, LastRow(top))
      /\ ~request.more => \A x \in Ids : attempt.from <= x /\ x <= LastRow(top) => x \in request.items
  BY DEF PageShows
<1> HIDE DEF LastRow
<1>6. ASSUME NEW x \in Ids, x <= top, ~(x <= LastRow(top)) PROVE x \in attempt.collected
  <2>1. attempt.pages > 0 /\ x \in Nat
    BY <1>0, <1>3, <1>6
  <2>2. attempt.before <= x
    BY <1>0, <1>2, <1>6, <2>1
  <2> QED
    BY <1>2, <1>6, <2>1, <2>2 DEF Gathered, NoGap
<1>7. \A c \in C : attempt.from <= c /\ c <= top
  <2>1. ASSUME NEW i \in request.items PROVE attempt.from <= i /\ i <= top
    <3>1. i \in Nat /\ attempt.from <= i /\ i <= LastRow(top)
      BY <1>0, <1>5
    <3> QED
      BY <1>0, <1>4, <3>1
  <2> QED
    BY <2>1 DEF Gathered
<1>8. NoGap(C, top)
  <2> SUFFICES ASSUME NEW h \in C, NEW x \in Ids, h <= x, x <= top PROVE x \in C
    BY DEF NoGap
  <2>1. CASE h \in attempt.collected
    BY <2>1 DEF Gathered, NoGap
  <2>2. CASE h \in request.items
    BY <1>5, <1>6, <2>2 DEF NoGap
  <2> QED
    BY <2>1, <2>2
<1>9. ~request.more => \A x \in Ids : attempt.from <= x /\ x <= top => x \in C
  BY <1>5, <1>6
<1>10. ASSUME NEW i \in request.items, NEW c \in attempt.collected PROVE i < c
  <2>1. attempt.pages > 0
    BY <1>0, <1>1
  <2>2. i <= attempt.before - 1 /\ attempt.before <= c
    BY <1>2, <1>5, <2>1
  <2>3. i \in Nat /\ c \in Nat
    BY <1>0
  <2> QED
    BY <1>0, <2>2, <2>3
<1> QED
  BY <1>0, <1>7, <1>8, <1>9, <1>10

LEMMA HistoryOfPage ==
    ASSUME OwnerInv, OwnerInv', HistoryInv, PageArrives
    PROVE  HistoryInv'
<1>0. /\ StreamTypeOK /\ Reconciling /\ UNCHANGED <<table, socket, left, drops>>
      /\ attempt.collected \in SUBSET Ids /\ committed \in Nat /\ Ids \subseteq Nat
      /\ attempt.from = series.anchor /\ series.anchor \in Nat
      /\ attempt.pages \in Nat /\ attempt.from \in Nat
  <2>1. StreamTypeOK /\ Reconciling /\ UNCHANGED <<table, socket, left, drops>>
    BY DEF OwnerInv, PageArrives
  <2>2. attempt.from = series.anchor
    BY <2>1 DEF HistoryInv, PagesProve
  <2>3. series.anchor \in Nat
    BY <2>1, Typed DEF Maybe, NoRow, Ids
  <2>4. attempt.pages \in Nat
    <3>1. attempt \in AttemptType
      BY <2>1, Typed
    <3> QED
      BY <3>1, PagesPositive DEF AttemptType
  <2> QED
    BY <2>1, <2>2, <2>3, <2>4, Typed, RowsFinite
<1>1. CASE request.state = "failed" /\ Concludes("failed", attempt.collected)
  <2>1. \A c \in attempt.collected : series.anchor <= c /\ c <= committed
    <3>1. CASE attempt.pages = 0
      BY <1>0, <3>1 DEF HistoryInv, PagesProve
    <3>2. CASE attempt.pages > 0
      <4>1. PICK top \in 0 .. committed : Gathered(top)
        BY <1>0, <3>2 DEF HistoryInv, PagesProve
      <4> SUFFICES ASSUME NEW c \in attempt.collected PROVE series.anchor <= c /\ c <= committed
        OBVIOUS
      <4>2. attempt.from <= c /\ c <= top /\ c \in Nat
        BY <1>0, <4>1 DEF Gathered
      <4> QED
        BY <1>0, <4>2
    <3> QED
      BY <1>0, <3>1, <3>2
  <2> QED
    BY <1>0, <1>1, <2>1, HistoryOfFailure
<1>2. CASE request.state = "answered"
  <2> DEFINE C == attempt.collected \cup request.items
             proof == Proof(request, C)
  <2>1. PICK top \in 0 .. committed : Gathered(top) /\ PageShows(top) /\ FramesFollow(top)
    BY <1>0, <1>2 DEF HistoryInv, PagesProve
  <2>2. /\ C \in SUBSET Ids
        /\ \A c \in C : attempt.from <= c /\ c <= top
        /\ NoGap(C, top)
        /\ ~request.more => \A x \in Ids : attempt.from <= x /\ x <= top => x \in C
        /\ \A i \in request.items, c \in attempt.collected : i < c
    BY <1>0, <1>2, <2>1, PageJoins
  <2>3. \A h \in series.held \cup C : h <= top
    BY <2>1, <2>2 DEF Gathered
  <2>4. CASE proof = "failed" /\ Concludes(proof, C)
    <3>1. \A c \in C : series.anchor <= c /\ c <= committed
      <4> SUFFICES ASSUME NEW c \in C PROVE series.anchor <= c /\ c <= committed
        OBVIOUS
      <4>1. attempt.from <= c /\ c <= top /\ c \in Nat
        BY <1>0, <2>2
      <4> QED
        BY <1>0, <4>1
    <3> QED
      BY <1>0, <2>2, <2>4, <3>1, HistoryOfFailure
  <2>5. CASE proof \in {"complete", "truncated"} /\ Concludes(proof, C)
    <3>1. \/ series.anchor # NoRow /\ series.anchor \in C
          \/ \A x \in Ids : x <= top => x \in C
          \/ Cardinality(C) >= MaxPoints
      <4>1. CASE attempt.from # NoRow /\ \E i \in request.items : i <= attempt.from
        <5>1. PICK i \in request.items : i <= attempt.from
          BY <4>1
        <5>2. attempt.from <= i /\ i \in Nat
          BY <1>0, <2>2
        <5>3. i = attempt.from
          BY <1>0, <5>1, <5>2
        <5> QED
          BY <1>0, <4>1, <5>3
      <4>2. CASE attempt.from = NoRow /\ ~request.more
        BY <1>0, <2>2, <4>2 DEF NoRow
      <4>3. CASE ~(attempt.from # NoRow /\ \E i \in request.items : i <= attempt.from)
                 /\ ~(attempt.from = NoRow /\ ~request.more)
        BY <2>5, <4>3 DEF Proof
      <4> QED
        BY <4>1, <4>2, <4>3
    <3> HIDE DEF proof, C
    <3> QED
      BY <1>0, <2>1, <2>2, <2>3, <2>5, <3>1, HistoryOfSuccess
  <2>6. CASE /\ proof = "open"
             /\ attempt' = [attempt EXCEPT !.before = Min(request.items), !.pages = @ + 1, !.collected = C]
             /\ request' = Request("asked")
             /\ UNCHANGED <<rows, seed, retryTimer, catchUp, historyIncomplete>>
    <3>0. attempt \in AttemptType /\ request.items \in SUBSET Ids
      BY <1>0, Typed
    <3>1. request.more /\ (attempt.from # NoRow => \A i \in request.items : ~(i <= attempt.from))
      BY <2>6 DEF Proof
    <3>2. /\ Min(request.items) \in request.items
          /\ \A i \in request.items : Min(request.items) <= i
      BY <3>0, <3>1, MinOfRows DEF OwnerInv, PageHasRows
    <3>3. /\ attempt'.from = attempt.from /\ attempt'.before = Min(request.items)
          /\ attempt'.pages = attempt.pages + 1 /\ attempt'.collected = C
          /\ request'.state = "asked" /\ series' = series /\ contiguous' = contiguous /\ queued' = queued
          /\ seed' = seed /\ catchUp' = catchUp /\ historyIncomplete' = historyIncomplete
          /\ committed' = committed /\ sock' = sock /\ delivered' = delivered
      BY <1>0, <2>6, <3>0 DEF AttemptType, Request, rows, table, socket
    <3>4. Min(request.items) > attempt.from
      <4>1. Min(request.items) \in Nat /\ Min(request.items) >= 1
        BY <3>0, <3>2 DEF Ids
      <4>2. CASE attempt.from = NoRow
        BY <4>1, <4>2 DEF NoRow
      <4>3. CASE attempt.from # NoRow
        BY <1>0, <3>1, <3>2, <4>1, <4>3
      <4> QED
        BY <4>2, <4>3
    <3>5. \A c \in C : Min(request.items) <= c
      <4> SUFFICES ASSUME NEW c \in attempt.collected PROVE Min(request.items) <= c
        BY <3>2
      <4>1. Min(request.items) < c
        BY <2>2, <3>2
      <4>2. c \in Nat /\ Min(request.items) \in Nat
        BY <1>0, <3>0, <3>2
      <4> QED
        BY <4>1, <4>2
    <3>6. Gathered(top)'
      BY <1>0, <2>1, <2>2, <3>2, <3>3, <3>4, <3>5 DEF Gathered, NoGap
    <3>7. PageShows(top)' /\ FramesFollow(top)'
      BY <2>1, <3>3 DEF PageShows, FramesFollow, Displaced
    <3>8. PagesProve'
      BY <1>0, <2>1, <3>3, <3>6, <3>7 DEF PagesProve
    <3>9. /\ Attended' /\ HeldBack' /\ EndSaid' /\ Shown' /\ Gapless'
          /\ NextFrameMeets' /\ LiveCovers' /\ WaitingMeets' /\ SeedProves'
      BY <3>3 DEF HistoryInv, Attended, HeldBack, EndSaid, Shown, Gapless, NextFrameMeets, LiveCovers,
         WaitingMeets, Live, Full, NoGap, Reconciling, SeedProves
    <3> QED
      BY <3>8, <3>9 DEF HistoryInv
  <2> QED
    BY <1>0, <1>2, <2>4, <2>5, <2>6, PageCases
<1> QED
  BY <1>0, <1>1, <1>2, PageCases

LEMMA HistoryStep == OwnerInv /\ OwnerInv' /\ HistoryInv /\ [StreamNext]_streamVars => HistoryInv'
<1> SUFFICES ASSUME OwnerInv, OwnerInv', HistoryInv, [StreamNext]_streamVars PROVE HistoryInv'
  OBVIOUS
<1>1. CASE StreamNext
  BY <1>1, HistoryOfTheRest, HistoryOfAnswer, HistoryOfPage, HistoryOfSeed, HistoryOfWaiting, HistoryOfShowing
  DEF StreamNext, Browser
<1>2. CASE UNCHANGED streamVars
  <2>1. /\ UNCHANGED <<rows, seed, attempt, request, catchUp, historyIncomplete>>
        /\ committed' = committed /\ delivered' = delivered /\ sock' = sock
    BY <1>2 DEF streamVars, table, socket, rows, fetching
  <2>2. committed <= committed /\ delivered <= delivered
    <3>1. StreamTypeOK
      BY DEF OwnerInv
    <3>2. committed \in Nat /\ delivered \in Nat
      BY <3>1, Typed
    <3> QED
      BY <3>2
  <2> QED
    BY <2>1, <2>2, NothingShown
<1> QED
  BY <1>1, <1>2

LEMMA HistoryImplied == OwnerInv /\ HistoryInv => HistoryHonest
<1> SUFFICES ASSUME OwnerInv, HistoryInv PROVE HistoryHonest
  OBVIOUS
<1> DEFINE shown == series.held
<1>1. /\ shown \in SUBSET Ids /\ Ids \subseteq Nat /\ committed <= MaxRows /\ delivered <= committed
      /\ committed \in Nat /\ delivered \in Nat /\ MaxRows \in Nat
  <2>1. StreamTypeOK
    BY DEF OwnerInv
  <2>2. committed \in Nat /\ published \in Nat /\ delivered \in Nat /\ delivered <= published /\ published <= committed
    BY <2>1, Typed
  <2>3. delivered <= committed
    BY <2>2
  <2> QED
    BY <2>1, <2>2, <2>3, Typed, RowsFinite
<1>2. shown # {} => /\ Min(shown) \in shown /\ Max(shown) \in shown
                    /\ Min(shown) \in Ids /\ Max(shown) \in Ids
  BY <1>1, MinOfRows, MaxOfRows
<1>3. ASSUME shown # {}, NEW top \in Nat, top <= MaxRows, NoGap(shown, top)
      PROVE  Min(shown) .. top \subseteq shown
  <2> SUFFICES ASSUME NEW x \in Min(shown) .. top PROVE x \in shown
    OBVIOUS
  <2>1. Min(shown) \in 1 .. MaxRows
    BY <1>2, <1>3 DEF Ids
  <2>2. x \in Ids /\ Min(shown) <= x /\ x <= top
    BY <1>1, <1>3, <2>1 DEF Ids
  <2> QED
    BY <1>2, <1>3, <2>2 DEF NoGap
<1>4. ASSUME shown # {}, ~historyIncomplete PROVE Min(shown) .. Max(shown) \subseteq shown
  <2>1. NoGap(shown, Max(shown))
    BY <1>2, <1>4 DEF HistoryInv, EndSaid, Gapless
  <2>2. Max(shown) \in Nat /\ Max(shown) <= MaxRows
    BY <1>1, <1>2, <1>4 DEF Ids
  <2> QED
    BY <1>3, <1>4, <2>1, <2>2
<1>5. ASSUME sock = "open", catchUp \in {"complete", "truncated"}
      PROVE  IF shown = {} THEN delivered = 0 ELSE Min(shown) .. delivered \subseteq shown
  <2>1. (shown = {} => delivered = 0) /\ NoGap(shown, delivered)
    BY <1>5 DEF HistoryInv, LiveCovers, Live
  <2>2. delivered <= MaxRows
    BY <1>1
  <2> QED
    BY <1>1, <1>3, <2>1, <2>2
<1> HIDE DEF shown
<1> QED
  BY <1>4, <1>5 DEF HistoryHonest, Oldest, shown

\* A chart with a hole in it always carries the warning, and while the socket is
\* open and its last catch-up did not fail, no row since the oldest one shown is
\* missing up to the last frame delivered: for every page size and number of
\* points, whatever is lost, reopened, failed or committed in between
\* (useDeviceStream.ts:11 "Three rules make the result honest").
THEOREM HistoryAlwaysHonest == StreamSpec => []HistoryHonest
<1>1. StreamSpec => []HistoryInv
  BY HistoryInit, HistoryStep, OwnerAlways, PTL DEF StreamSpec
<1> QED
  BY <1>1, OwnerAlways, HistoryImplied, PTL
===============================================================================
