------------------------- MODULE AnomalyModelProofs -------------------------
(***************************************************************************)
(* Proofs about the anomaly model: how stored readings become windows,     *)
(* online and offline, and how a model comes to act on them.               *)
(*                                                                         *)
(* Preparation.  A dataset has an order: the place of a row is one more    *)
(* than the number of rows before it, places tell rows apart, and a row    *)
(* later than all comes last without moving any.  Cutting the list at      *)
(* every break of contiguity loses no contiguous stretch and makes no new  *)
(* one, however long the stretches.                                        *)
(*                                                                         *)
(* FeatureWindow, for any set of readings, any window, stride, tolerance   *)
(* and number of consecutive windows and any predicate on windows.  Every  *)
(* window the model is asked about is a contiguous stretch of its own      *)
(* device: with its types that is inductive.  That the windows scored are  *)
(* those of the offline preparation, and that the verdicts are about the   *)
(* rows that end its sustained stretches, is not: the invariant says what  *)
(* the deque and the counter are in terms of the table.  A stretch that    *)
(* reaches the newest row is live if it is contiguous and no restart came  *)
(* behind its first row; the deque is the longest live stretch up to its   *)
(* size, and the counter is at least n exactly if the stretch of n windows *)
(* is live and all of it high.  What the gate and the audit count from the *)
(* rows of a table is compared with what training and preparation get from *)
(* it by counting the stretches of a list.                                 *)
(*                                                                         *)
(* ModelRelease, for every set of datasets, manifests, devices and         *)
(* configurations and every number of training runs and starts.  What a    *)
(* loaded model is: each step of the load looks at the directory anew, and *)
(* `raced` records which of the looks a save overtook; the invariant says  *)
(* what the looks so far have established and that, unless overtaken, the  *)
(* directory still shows it.  And what a validated artifact was fitted on: *)
(* every artifact comes out of a training run, preparation adds no row,    *)
(* and the first interval that covers a row is an approved one, which no   *)
(* event overlaps, or an event.                                            *)
(***************************************************************************)
EXTENDS FeatureWindow, ModelRelease, SequenceTheorems, FiniteSetTheorems,
        WellFoundedInduction, TLAPS

-------------------------------------------------------------------------------
(* Datasets in the order of time *)

\* Rows can be put in order: the time and the id tell any two of them apart.
Datable(rows) ==
    /\ IsFiniteSet(rows)
    /\ \A row \in rows : row.at \in Int /\ row.id \in Int
    /\ \A a, b \in rows : a.at = b.at /\ a.id = b.id => a = b

Before(rows, row) == {other \in rows : Earlier(other, row)}

Place(rows, row) == Cardinality(Before(rows, row)) + 1

LEMMA LeastNat ==
  ASSUME NEW S \in SUBSET Nat, S # {}
  PROVE  \E m \in S : \A k \in S : m <= k
<1> DEFINE R == OpToRel(<, Nat)
<1>1. IsWellFoundedOn(R, Nat)
  BY NatLessThanWellFounded
<1>2. \A x, y \in Nat : y < x => <<y, x>> \in R
  BY Zenon DEF OpToRel
<1> HIDE DEF R
<1>3. PICK x \in S : \A y \in S : ~ (<<y, x>> \in R)
  BY <1>1, WFMin
<1>4. ASSUME NEW y \in S PROVE x <= y
  <2>1. x \in Nat /\ y \in Nat
    OBVIOUS
  <2>2. ~ (y < x)
    BY <1>2, <1>3, <2>1
  <2> QED
    BY <2>1, <2>2
<1> QED
  BY <1>3, <1>4

LEMMA MaxOfNats ==
  ASSUME NEW n \in Nat, NEW S \in SUBSET (0 .. n), S # {}
  PROVE  Max(S) \in S /\ \A k \in S : k <= Max(S)
<1> DEFINE T == {n - k : k \in S}
<1>1. T \in SUBSET Nat /\ T # {}
  <2>1. \A k \in S : k \in 0 .. n
    OBVIOUS
  <2>2. \A k \in S : n - k \in Nat
    BY <2>1
  <2> QED
    BY <2>2
<1>2. PICK m \in T : \A k \in T : m <= k
  BY <1>1, LeastNat
<1>3. PICK x \in S : m = n - x
  BY <1>2
<1>4. ASSUME NEW k \in S PROVE x >= k
  <2>1. n - k \in T /\ x \in 0 .. n /\ k \in 0 .. n
    OBVIOUS
  <2>2. n - x <= n - k
    BY <1>2, <1>3, <2>1
  <2> QED
    BY <2>1, <2>2
<1>5. Max(S) \in S /\ \A k \in S : Max(S) >= k
  BY <1>4 DEF Max
<1>6. \A k \in S : k \in Int
  OBVIOUS
<1> QED
  BY <1>5, <1>6

LEMMA BeforeFinite ==
  ASSUME NEW rows, Datable(rows), NEW row \in rows
  PROVE  /\ IsFiniteSet(Before(rows, row)) /\ Cardinality(Before(rows, row)) \in Nat
         /\ Place(rows, row) \in 1 .. Cardinality(rows)
<1>1. IsFiniteSet(rows) /\ Cardinality(rows) \in Nat
  BY FS_CardinalityType DEF Datable
<1>2. row \notin Before(rows, row)
  BY DEF Before, Earlier, Datable
<1>3. Before(rows, row) \subseteq rows \ {row}
  BY <1>2 DEF Before
<1>4. IsFiniteSet(rows \ {row}) /\ Cardinality(rows \ {row}) = Cardinality(rows) - 1
  BY <1>1, FS_RemoveElement
<1>5. /\ IsFiniteSet(Before(rows, row))
      /\ Cardinality(Before(rows, row)) <= Cardinality(rows \ {row})
  BY <1>3, <1>4, FS_Subset
<1>6. Cardinality(Before(rows, row)) \in Nat
  BY <1>5, FS_CardinalityType
<1> QED
  BY <1>1, <1>4, <1>5, <1>6 DEF Place

LEMMA PlaceGrows ==
  ASSUME NEW rows, Datable(rows), NEW a \in rows, NEW b \in rows, Earlier(a, b)
  PROVE  Place(rows, a) < Place(rows, b)
<1>1. a \notin Before(rows, a) /\ a \in Before(rows, b)
  BY DEF Before, Earlier, Datable
<1>2. Before(rows, a) \cup {a} \subseteq Before(rows, b)
  <2> SUFFICES ASSUME NEW c \in Before(rows, a) PROVE c \in Before(rows, b)
    BY <1>1
  <2>1. c \in rows /\ Earlier(c, a)
    BY DEF Before
  <2>2. Earlier(c, b)
    <3>1. /\ a.at \in Int /\ a.id \in Int /\ b.at \in Int /\ b.id \in Int
          /\ c.at \in Int /\ c.id \in Int
      BY <2>1 DEF Datable
    <3> QED
      BY <2>1, <3>1 DEF Earlier
  <2> QED
    BY <2>1, <2>2 DEF Before
<1>3. IsFiniteSet(Before(rows, a)) /\ Cardinality(Before(rows, a)) \in Nat
      /\ IsFiniteSet(Before(rows, b)) /\ Cardinality(Before(rows, b)) \in Nat
  BY BeforeFinite
<1>4. Cardinality(Before(rows, a) \cup {a}) = Cardinality(Before(rows, a)) + 1
  BY <1>1, <1>3, FS_AddElement
<1>5. Cardinality(Before(rows, a) \cup {a}) <= Cardinality(Before(rows, b))
  BY <1>2, <1>3, FS_Subset
<1> QED
  BY <1>3, <1>4, <1>5 DEF Place

LEMMA PlaceInjective ==
  ASSUME NEW rows, Datable(rows), NEW a \in rows, NEW b \in rows
  PROVE  /\ Place(rows, a) = Place(rows, b) => a = b
         /\ Place(rows, a) < Place(rows, b) => Earlier(a, b)
<1>1. a = b \/ Earlier(a, b) \/ Earlier(b, a)
  <2>1. /\ a.at \in Int /\ a.id \in Int /\ b.at \in Int /\ b.id \in Int
        /\ a.at = b.at /\ a.id = b.id => a = b
    BY DEF Datable
  <2> QED
    BY <2>1 DEF Earlier
<1>2. Place(rows, a) \in Int /\ Place(rows, b) \in Int
  BY BeforeFinite
<1>3. /\ Earlier(a, b) => Place(rows, a) < Place(rows, b)
      /\ Earlier(b, a) => Place(rows, b) < Place(rows, a)
  BY PlaceGrows
<1> QED
  BY <1>1, <1>2, <1>3

\* A row stands at its place, and nothing else does.
LEMMA OrderPlaces ==
  ASSUME NEW rows, Datable(rows)
  PROVE  /\ InOrder(rows) \in Seq(rows)
         /\ Len(InOrder(rows)) = Cardinality(rows)
         /\ Cardinality(rows) \in Nat
         /\ DOMAIN InOrder(rows) = 1 .. Cardinality(rows)
         /\ \A i \in 1 .. Cardinality(rows) :
               InOrder(rows)[i] \in rows /\ Place(rows, InOrder(rows)[i]) = i
         /\ \A row \in rows : Place(rows, row) \in 1 .. Cardinality(rows)
                              /\ InOrder(rows)[Place(rows, row)] = row
<1> DEFINE n == Cardinality(rows)
           f == [row \in rows |-> Place(rows, row)]
<1>1. IsFiniteSet(rows) /\ n \in Nat
  BY FS_CardinalityType DEF Datable
<1>2. \A row \in rows : Place(rows, row) \in 1 .. n
  BY BeforeFinite
<1>3. f \in Injection(rows, 1 .. n)
  <2>1. f \in [rows -> 1 .. n]
    BY <1>2
  <2>2. \A a, b \in rows : f[a] = f[b] => a = b
    BY PlaceInjective
  <2> QED
    BY <2>1, <2>2 DEF Injection, IsInjective
<1>4. IsFiniteSet(1 .. n) /\ Cardinality(1 .. n) = n
  BY <1>1, FS_Interval
<1>5. f \in Surjection(rows, 1 .. n)
  BY <1>3, <1>4, FS_Injection
<1>6. \A i \in 1 .. n : \E row \in rows : Place(rows, row) = i
  <2> SUFFICES ASSUME NEW i \in 1 .. n PROVE \E row \in rows : Place(rows, row) = i
    OBVIOUS
  <2>1. \E row \in rows : f[row] = i
    BY <1>5 DEF Surjection
  <2> QED
    BY <2>1
<1> DEFINE g == [i \in 1 .. n |-> CHOOSE row \in rows : Place(rows, row) = i]
<1>7. InOrder(rows) = g
  BY DEF InOrder, Place, Before
<1>8. \A i \in 1 .. n : g[i] \in rows /\ Place(rows, g[i]) = i
  BY <1>6
<1>9. g \in [1 .. n -> rows]
  BY <1>8
<1> HIDE DEF g, n
<1>10. g \in Seq(rows) /\ Len(g) = n /\ DOMAIN g = 1 .. n
  BY <1>1, <1>9, SeqDef
<1>11. ASSUME NEW row \in rows PROVE g[Place(rows, row)] = row
  <2>1. Place(rows, row) \in 1 .. n
    BY <1>2
  <2>2. g[Place(rows, row)] \in rows /\ Place(rows, g[Place(rows, row)]) = Place(rows, row)
    BY <1>8, <2>1
  <2> QED
    BY <2>2, PlaceInjective
<1> QED
  BY <1>1, <1>2, <1>7, <1>8, <1>10, <1>11 DEF n

LEMMA OrderListed ==
  ASSUME NEW rows, Datable(rows)
  PROVE  /\ \A i, j \in DOMAIN InOrder(rows) :
               i < j => Earlier(InOrder(rows)[i], InOrder(rows)[j])
         /\ ToSet(InOrder(rows)) = rows
<1> DEFINE g == InOrder(rows)
<1>1. /\ DOMAIN g = 1 .. Cardinality(rows) /\ Cardinality(rows) \in Nat
      /\ \A i \in 1 .. Cardinality(rows) : g[i] \in rows /\ Place(rows, g[i]) = i
      /\ \A row \in rows : Place(rows, row) \in 1 .. Cardinality(rows) /\ g[Place(rows, row)] = row
  BY OrderPlaces
<1> HIDE DEF g
<1>2. \A i, j \in DOMAIN g : i < j => Earlier(g[i], g[j])
  BY <1>1, PlaceInjective
<1>3. ToSet(g) = rows
  BY <1>1 DEF ToSet
<1> QED
  BY <1>2, <1>3 DEF g

\* The latest row comes last and moves no other.
LEMMA OrderAppends ==
  ASSUME NEW rows, NEW row, Datable(rows \cup {row}), row \notin rows,
         \A other \in rows : Earlier(other, row)
  PROVE  /\ Datable(rows)
         /\ InOrder(rows \cup {row}) = Append(InOrder(rows), row)
<1> DEFINE more == rows \cup {row}
           n == Cardinality(rows)
           g == InOrder(rows)
           h == InOrder(more)
<1>1. IsFiniteSet(rows)
  BY FS_Subset DEF Datable
<1>2. Datable(rows)
  BY <1>1 DEF Datable
<1>3. n \in Nat /\ Cardinality(more) = n + 1
  BY <1>1, FS_AddElement, FS_CardinalityType
<1>4. Place(more, row) = n + 1
  <2>1. Before(more, row) = rows
    <3>1. ~Earlier(row, row)
      BY DEF Earlier, Datable
    <3> QED
      BY <3>1 DEF Before
  <2> QED
    BY <2>1 DEF Place
<1>5. \A other \in rows : Place(more, other) = Place(rows, other)
  <2> SUFFICES ASSUME NEW other \in rows PROVE Place(more, other) = Place(rows, other)
    OBVIOUS
  <2>1. ~Earlier(row, other)
    <3>1. Earlier(other, row) /\ other.at \in Int /\ other.id \in Int /\ row.at \in Int /\ row.id \in Int
      BY DEF Datable
    <3> QED
      BY <3>1 DEF Earlier
  <2>2. Before(more, other) = Before(rows, other)
    BY <2>1 DEF Before
  <2> QED
    BY <2>2 DEF Place
<1>6. /\ g \in Seq(rows) /\ Len(g) = n /\ DOMAIN g = 1 .. n
      /\ \A i \in 1 .. n : g[i] \in rows /\ Place(rows, g[i]) = i
  BY <1>2, OrderPlaces
<1>7. /\ h \in Seq(more) /\ Len(h) = n + 1 /\ DOMAIN h = 1 .. n + 1
      /\ \A i \in 1 .. n + 1 : h[i] \in more /\ Place(more, h[i]) = i
  BY <1>3, OrderPlaces
<1> HIDE DEF g, h, n
<1>8. Append(g, row) \in Seq(more) /\ Len(Append(g, row)) = n + 1
      /\ \A i \in 1 .. n : Append(g, row)[i] = g[i]
      /\ Append(g, row)[n + 1] = row
  <2>1. g \in Seq(more)
    BY <1>6, SeqMonotonic
  <2> QED
    BY <1>3, <1>6, <2>1, AppendProperties
<1>9. ASSUME NEW i \in 1 .. n + 1 PROVE h[i] = Append(g, row)[i]
  <2>1. CASE i \in 1 .. n
    <3>1. g[i] \in rows /\ g[i] \in more /\ Place(more, g[i]) = i
      BY <1>5, <1>6, <2>1
    <3>2. h[i] \in more /\ Place(more, h[i]) = i
      BY <1>7
    <3> QED
      BY <1>8, <2>1, <3>1, <3>2, PlaceInjective
  <2>2. CASE i = n + 1
    <3>1. h[i] \in more /\ Place(more, h[i]) = i /\ row \in more /\ Place(more, row) = i
      BY <1>4, <1>7, <2>2
    <3> QED
      BY <1>8, <2>2, <3>1, PlaceInjective
  <2>3. i \in 1 .. n \/ i = n + 1
    BY <1>3
  <2> QED
    BY <2>1, <2>2, <2>3
<1>10. h = Append(g, row)
  BY <1>7, <1>8, <1>9, SeqEqual
<1> QED
  BY <1>2, <1>10 DEF g, h

-------------------------------------------------------------------------------
(* Lists and their segments *)

\* What a part of a list is.
LEMMA PartOf ==
  ASSUME NEW R, NEW list \in Seq(R), NEW a \in 1 .. Len(list), NEW b \in a - 1 .. Len(list)
  PROVE  /\ SubSeq(list, a, b) \in Seq(R)
         /\ Len(SubSeq(list, a, b)) = b - a + 1
         /\ DOMAIN SubSeq(list, a, b) = 1 .. b - a + 1
         /\ \A i \in 1 .. b - a + 1 : SubSeq(list, a, b)[i] = list[a + i - 1]
<1>1. Len(list) \in Nat /\ a \in Int /\ b \in Int
  BY LenProperties
<1>2. \A i \in a .. b : list[i] \in R
  BY <1>1, ElementOfSeq
<1>3. /\ SubSeq(list, a, b) \in Seq(R)
      /\ Len(SubSeq(list, a, b)) = b - a + 1
      /\ \A i \in 1 .. b - a + 1 : SubSeq(list, a, b)[i] = list[a + i - 1]
  BY <1>1, <1>2, SubSeqProperties
<1> QED
  BY <1>3, LenProperties

LEMMA PartOfPart ==
  ASSUME NEW R, NEW list \in Seq(R), NEW a \in 1 .. Len(list), NEW b \in a .. Len(list),
         NEW c \in 1 .. b - a + 1, NEW d \in c - 1 .. b - a + 1
  PROVE  SubSeq(SubSeq(list, a, b), c, d) = SubSeq(list, a + c - 1, a + d - 1)
<1> DEFINE p == SubSeq(list, a, b)
           q == SubSeq(p, c, d)
           t == SubSeq(list, a + c - 1, a + d - 1)
<1>1. Len(list) \in Nat /\ a \in Int /\ b \in Int /\ c \in Int /\ d \in Int
  BY LenProperties
<1>2. /\ p \in Seq(R) /\ Len(p) = b - a + 1
      /\ \A i \in 1 .. b - a + 1 : p[i] = list[a + i - 1]
  BY PartOf
<1> HIDE DEF p
<1>3. /\ q \in Seq(R) /\ Len(q) = d - c + 1
      /\ \A i \in 1 .. d - c + 1 : q[i] = p[c + i - 1]
  BY <1>2, PartOf
<1>4. a + c - 1 \in 1 .. Len(list) /\ a + d - 1 \in (a + c - 1) - 1 .. Len(list)
  BY <1>1
<1>5. (a + d - 1) - (a + c - 1) + 1 = d - c + 1
  BY <1>1
<1>6. /\ t \in Seq(R) /\ Len(t) = d - c + 1
      /\ \A i \in 1 .. d - c + 1 : t[i] = list[(a + c - 1) + i - 1]
  <2> HIDE DEF t
  <2> QED
    BY <1>4, <1>5, PartOf DEF t
<1> HIDE DEF q, t
<1>7. ASSUME NEW i \in 1 .. d - c + 1 PROVE q[i] = t[i]
  <2>1. c + i - 1 \in 1 .. b - a + 1 /\ a + (c + i - 1) - 1 = (a + c - 1) + i - 1
    BY <1>1
  <2>2. q[i] = p[c + i - 1] /\ p[c + i - 1] = list[a + (c + i - 1) - 1] /\ t[i] = list[(a + c - 1) + i - 1]
    BY <1>2, <1>3, <1>6, <2>1
  <2> QED
    BY <2>1, <2>2
<1>8. q = t
  BY <1>3, <1>6, <1>7, SeqEqual
<1> QED
  BY <1>8 DEF p, q, t

\* Rows a to b of a list are one contiguous stretch.
Joined(list, a, b) == \A i \in a + 1 .. b : IsContiguous(list[i - 1], list[i])

LEMMA JoinedPart ==
  ASSUME NEW R, NEW list \in Seq(R), NEW a \in 1 .. Len(list), NEW b \in a - 1 .. Len(list)
  PROVE  Contiguous(SubSeq(list, a, b)) <=> Joined(list, a, b)
<1> DEFINE p == SubSeq(list, a, b)
<1>1. Len(list) \in Nat /\ a \in Int /\ b \in Int
  BY LenProperties
<1>2. Len(p) = b - a + 1 /\ \A i \in 1 .. b - a + 1 : p[i] = list[a + i - 1]
  BY PartOf
<1> HIDE DEF p
<1>3. ASSUME Contiguous(p), NEW i \in a + 1 .. b PROVE IsContiguous(list[i - 1], list[i])
  <2>1. i - a \in 1 .. Len(p) - 1 /\ i - a \in 1 .. b - a + 1 /\ i - a + 1 \in 1 .. b - a + 1
        /\ a + (i - a) - 1 = i - 1 /\ a + (i - a + 1) - 1 = i
    BY <1>1, <1>2
  <2>2. p[i - a] = list[i - 1] /\ p[i - a + 1] = list[i]
    BY <1>2, <2>1
  <2>3. IsContiguous(p[i - a], p[i - a + 1])
    BY <1>3, <2>1 DEF Contiguous
  <2> QED
    BY <2>2, <2>3
<1>4. ASSUME Joined(list, a, b), NEW i \in 1 .. Len(p) - 1 PROVE IsContiguous(p[i], p[i + 1])
  <2>1. i \in 1 .. b - a + 1 /\ i + 1 \in 1 .. b - a + 1 /\ a + i \in a + 1 .. b
        /\ a + (i + 1) - 1 = a + i /\ a + i - 1 = (a + i) - 1
    BY <1>1, <1>2
  <2>2. p[i] = list[(a + i) - 1] /\ p[i + 1] = list[a + i]
    BY <1>2, <2>1
  <2>3. IsContiguous(list[(a + i) - 1], list[a + i])
    BY <1>4, <2>1 DEF Joined
  <2> QED
    BY <2>2, <2>3
<1> QED
  BY <1>3, <1>4 DEF Contiguous, Joined, p

\* A segment is joined, and ends where the next one begins.
LEMMA SegmentEnds ==
  ASSUME NEW R, NEW list \in Seq(R), NEW n \in Starts(list)
  PROVE  /\ n \in 1 .. Len(list) /\ EndOf(list, n) \in n .. Len(list)
         /\ Joined(list, n, EndOf(list, n))
         /\ \A m \in n .. Len(list) : Joined(list, n, m) => m <= EndOf(list, n)
<1> DEFINE T == {m \in n .. Len(list) : Starts(list) \cap (n + 1 .. m) = {}}
<1>1. Len(list) \in Nat /\ DOMAIN list = 1 .. Len(list) /\ n \in 1 .. Len(list)
  BY LenProperties DEF Starts
<1>2. \A m \in n .. Len(list) : Joined(list, n, m) <=> m \in T
  <2> SUFFICES ASSUME NEW m \in n .. Len(list) PROVE Joined(list, n, m) <=> m \in T
    OBVIOUS
  <2>1. n \in Int /\ m \in Int /\ \A i \in n + 1 .. m : i \in DOMAIN list /\ i # 1
    BY <1>1
  <2>2. \A i \in n + 1 .. m : i \in Starts(list) <=> ~IsContiguous(list[i - 1], list[i])
    BY <2>1 DEF Starts
  <2>3. Joined(list, n, m) <=> \A i \in n + 1 .. m : i \notin Starts(list)
    BY <2>2 DEF Joined
  <2> QED
    BY <2>3
<1>3. n \in T
  <2>1. n + 1 .. n = {}
    BY <1>1
  <2> QED
    BY <1>1, <2>1
<1>4. T \in SUBSET (0 .. Len(list))
  <2>1. \A m \in n .. Len(list) : m \in 0 .. Len(list)
    BY <1>1
  <2> QED
    BY <2>1
<1>5. Max(T) \in T /\ \A k \in T : k <= Max(T)
  <2> HIDE DEF T
  <2> QED
    BY <1>1, <1>3, <1>4, MaxOfNats
<1>6. EndOf(list, n) = Max(T)
  BY DEF EndOf
<1> HIDE DEF T
<1>7. Max(T) \in n .. Len(list)
  BY <1>5 DEF T
<1> QED
  BY <1>1, <1>2, <1>5, <1>6, <1>7

\* Every joined stretch lies in a segment.
LEMMA SegmentFound ==
  ASSUME NEW R, NEW list \in Seq(R), NEW a \in 1 .. Len(list), NEW b \in a .. Len(list),
         Joined(list, a, b)
  PROVE  \E n \in Starts(list) : n <= a /\ b <= EndOf(list, n)
<1> DEFINE T == Starts(list) \cap (1 .. a)
<1>1. Len(list) \in Nat /\ DOMAIN list = 1 .. Len(list) /\ a \in Int /\ b \in Int
  BY LenProperties
<1>2. 1 \in T
  BY <1>1 DEF Starts
<1>3. T \in SUBSET (0 .. a)
  <2>1. \A m \in 1 .. a : m \in 0 .. a
    OBVIOUS
  <2> QED
    BY <2>1
<1>4. Max(T) \in T /\ \A k \in T : k <= Max(T)
  <2> HIDE DEF T
  <2>1. a \in Nat
    BY <1>1
  <2> QED
    BY <1>2, <1>3, <2>1, MaxOfNats
<1> DEFINE n == Max(T)
<1>5. n \in Starts(list) /\ n \in 1 .. a /\ \A k \in Starts(list) : k \in 1 .. a => k <= n
  BY <1>4
<1> HIDE DEF T, n
<1>6. Joined(list, n, b)
  <2> SUFFICES ASSUME NEW i \in n + 1 .. b PROVE IsContiguous(list[i - 1], list[i])
    BY DEF Joined
  <2>1. i \in Int /\ n \in Int /\ i \in 1 .. Len(list) /\ i # 1 /\ i > n
    BY <1>1, <1>5
  <2>2. CASE i <= a
    <3>1. i \in 1 .. a /\ ~(i <= n)
      BY <1>1, <2>1, <2>2
    <3>2. i \notin Starts(list)
      BY <1>5, <3>1
    <3> QED
      BY <1>1, <2>1, <3>2 DEF Starts
  <2>3. CASE i > a
    <3>1. i \in a + 1 .. b
      BY <1>1, <2>1, <2>3
    <3> QED
      BY <3>1 DEF Joined
  <2> QED
    BY <1>1, <2>1, <2>2, <2>3
<1>7. b \in n .. Len(list)
  BY <1>1, <1>5
<1>8. b <= EndOf(list, n)
  BY <1>5, <1>6, <1>7, SegmentEnds
<1> QED
  BY <1>1, <1>5, <1>8

\* The stretches of the segments of a list are its contiguous stretches: cutting
\* loses none and no segment adds one.
LEMMA StretchesOfSegments ==
  ASSUME NEW R, NEW list \in Seq(R), NEW size \in Nat, size >= Window
  PROVE  UNION {Stretches(segment, size) : segment \in {s \in Cut(list) : Len(s) >= Window}}
           = {w \in Stretches(list, size) : Contiguous(w)}
<1> DEFINE Kept1 == {s \in Cut(list) : Len(s) >= Window}
<1>1. Window \in Nat /\ Window >= 2 /\ size >= 2
  BY PreparationAssumption
<1>2. Len(list) \in Nat /\ DOMAIN list = 1 .. Len(list)
  BY LenProperties
<1>3. ASSUME NEW segment \in Kept1, NEW w \in Stretches(segment, size)
      PROVE  w \in Stretches(list, size) /\ Contiguous(w)
  <2>1. PICK n \in Starts(list) : segment = SubSeq(list, n, EndOf(list, n))
    BY DEF Cut
  <2> DEFINE e == EndOf(list, n)
  <2>2. n \in 1 .. Len(list) /\ e \in n .. Len(list) /\ Joined(list, n, e)
    BY SegmentEnds
  <2> HIDE DEF e
  <2>3. segment = SubSeq(list, n, e)
    BY <2>1 DEF e
  <2>4. Len(segment) = e - n + 1 /\ n \in Int /\ e \in Int
    <3>1. e \in n - 1 .. Len(list)
      BY <1>2, <2>2
    <3> QED
      BY <2>2, <2>3, <3>1, PartOf
  <2>5. PICK f \in 1 .. (Len(segment) - size + 1) : w = SubSeq(segment, f, f + size - 1)
    BY DEF Stretches
  <2> DEFINE a == n + f - 1
             b == n + (f + size - 1) - 1
  <2>6. /\ f \in 1 .. e - n + 1 /\ f + size - 1 \in f - 1 .. e - n + 1
        /\ a \in 1 .. Len(list) - size + 1 /\ b = a + size - 1
        /\ a \in 1 .. Len(list) /\ b \in a - 1 .. Len(list)
        /\ a >= n /\ b <= e /\ f \in Int
    BY <1>1, <1>2, <2>2, <2>4, <2>5
  <2>7. w = SubSeq(list, a, b)
    BY <2>2, <2>3, <2>5, <2>6, PartOfPart
  <2> HIDE DEF a, b
  <2>8. w \in Stretches(list, size)
    BY <2>6, <2>7 DEF Stretches
  <2>9. Joined(list, a, b)
    <3>1. \A i \in a + 1 .. b : i \in n + 1 .. e
      BY <1>1, <1>2, <2>2, <2>4, <2>6
    <3> QED
      BY <2>2, <3>1 DEF Joined
  <2>10. Contiguous(w)
    BY <2>6, <2>7, <2>9, JoinedPart
  <2> QED
    BY <2>8, <2>10
<1>4. ASSUME NEW w \in Stretches(list, size), Contiguous(w)
      PROVE  \E segment \in Kept1 : w \in Stretches(segment, size)
  <2>1. PICK a \in 1 .. (Len(list) - size + 1) : w = SubSeq(list, a, a + size - 1)
    BY DEF Stretches
  <2> DEFINE b == a + size - 1
  <2>2. a \in 1 .. Len(list) /\ b \in a .. Len(list) /\ b \in a - 1 .. Len(list) /\ a \in Int /\ b \in Int
        /\ b - a + 1 = size
    BY <1>1, <1>2
  <2>3. w = SubSeq(list, a, b)
    BY <2>1
  <2> HIDE DEF b
  <2>4. Joined(list, a, b)
    BY <1>4, <2>2, <2>3, JoinedPart
  <2>5. PICK n \in Starts(list) : n <= a /\ b <= EndOf(list, n)
    BY <2>2, <2>4, SegmentFound
  <2> DEFINE e == EndOf(list, n)
             segment == SubSeq(list, n, e)
             f == a - n + 1
  <2>6. n \in 1 .. Len(list) /\ e \in n .. Len(list) /\ b <= e
    BY <2>5, SegmentEnds
  <2>7. segment \in Cut(list)
    BY DEF Cut
  <2> HIDE DEF e
  <2>8. Len(segment) = e - n + 1 /\ n \in Int /\ e \in Int
    <3>1. e \in n - 1 .. Len(list)
      BY <1>2, <2>6
    <3> QED
      BY <2>6, <3>1, PartOf
  <2>9. Len(segment) >= Window /\ Len(segment) >= size
    BY <1>1, <2>2, <2>5, <2>6, <2>8
  <2>10. /\ f \in 1 .. (Len(segment) - size + 1) /\ f \in 1 .. e - n + 1
         /\ f + size - 1 \in f - 1 .. e - n + 1
         /\ n + f - 1 = a /\ n + (f + size - 1) - 1 = b
    BY <1>1, <2>2, <2>5, <2>6, <2>8
  <2>11. SubSeq(segment, f, f + size - 1) = SubSeq(list, n + f - 1, n + (f + size - 1) - 1)
    <3> HIDE DEF f
    <3> QED
      BY <2>6, <2>10, PartOfPart
  <2>12. SubSeq(segment, f, f + size - 1) = w
    BY <2>3, <2>10, <2>11
  <2> HIDE DEF segment, f
  <2>13. w \in Stretches(segment, size)
    BY <2>10, <2>12 DEF Stretches
  <2> QED
    BY <2>7, <2>9, <2>13
<1> HIDE DEF Kept1
<1>5. UNION {Stretches(segment, size) : segment \in Kept1} = {w \in Stretches(list, size) : Contiguous(w)}
  BY <1>3, <1>4
<1> QED
  BY <1>5 DEF Kept1

-------------------------------------------------------------------------------
(* What the model is asked about *)

WindowInv == WindowTypeOK /\ WindowSound

Sound(w) == Contiguous(w) /\ \A i \in DOMAIN w : w[i].device = Owner

-------------------------------------------------------------------------------
(* What the operations of the deque do to a sound stretch *)

LEMMA SingleSound ==
  ASSUME NEW row \in Rows, row.device = Owner
  PROVE  <<row>> \in Seq(Rows) /\ Len(<<row>>) = 1 /\ Sound(<<row>>)
BY DEF Sound, Contiguous

LEMMA LastOrBefore ==
  ASSUME NEW n \in Nat, NEW i \in 1 .. n
  PROVE  (i \in 1 .. n - 1 /\ i + 1 \in 1 .. n) \/ i = n
OBVIOUS

LEMMA AppendSound ==
  ASSUME NEW w \in Seq(Rows), NEW row \in Rows, Sound(w), row.device = Owner,
         w # <<>> => IsContiguous(Last(w), row)
  PROVE  /\ Append(w, row) \in Seq(Rows)
         /\ Len(Append(w, row)) = Len(w) + 1
         /\ Sound(Append(w, row))
<1> DEFINE grown == Append(w, row)
<1>1. /\ grown \in Seq(Rows) /\ Len(grown) = Len(w) + 1
      /\ \A i \in 1 .. Len(w) : grown[i] = w[i]
      /\ grown[Len(w) + 1] = row
  BY AppendProperties
<1>2. Len(w) \in Nat /\ DOMAIN w = 1 .. Len(w) /\ DOMAIN grown = 1 .. Len(w) + 1
  BY <1>1, LenProperties
<1> HIDE DEF grown
<1>3. ASSUME NEW i \in 1 .. Len(w) PROVE IsContiguous(grown[i], grown[i + 1])
  <2>1. CASE i \in 1 .. Len(w) - 1 /\ i + 1 \in 1 .. Len(w)
    <3>1. grown[i] = w[i] /\ grown[i + 1] = w[i + 1]
      BY <1>1, <2>1
    <3> QED
      BY <2>1, <3>1 DEF Sound, Contiguous
  <2>2. CASE i = Len(w)
    <3>1. w # <<>>
      BY <1>2, <2>2
    <3>2. grown[i] = Last(w) /\ grown[i + 1] = row
      BY <1>1, <2>2 DEF Last
    <3> QED
      BY <3>1, <3>2
  <2> QED
    BY <1>2, <2>1, <2>2, LastOrBefore
<1>4. ASSUME NEW i \in DOMAIN grown PROVE grown[i].device = Owner
  <2>1. CASE i \in 1 .. Len(w)
    BY <1>1, <1>2, <2>1 DEF Sound
  <2>2. CASE i = Len(w) + 1
    BY <1>1, <2>2
  <2> QED
    BY <1>2, <2>1, <2>2
<1>5. Sound(grown)
  BY <1>1, <1>2, <1>3, <1>4 DEF Sound, Contiguous
<1> QED
  BY <1>1, <1>5 DEF grown

LEMMA TailSound ==
  ASSUME NEW w \in Seq(Rows), w # <<>>, Sound(w)
  PROVE  Tail(w) \in Seq(Rows) /\ Len(Tail(w)) = Len(w) - 1 /\ Sound(Tail(w))
<1> DEFINE rest == Tail(w)
<1>1. /\ rest \in Seq(Rows) /\ Len(rest) = Len(w) - 1
      /\ \A i \in 1 .. Len(rest) : rest[i] = w[i + 1]
  BY HeadTailProperties
<1>2. Len(w) \in Nat /\ DOMAIN w = 1 .. Len(w) /\ DOMAIN rest = 1 .. Len(rest)
  BY <1>1, LenProperties
<1> HIDE DEF rest
<1>3. ASSUME NEW i \in 1 .. Len(rest) - 1 PROVE IsContiguous(rest[i], rest[i + 1])
  <2>1. i + 1 \in 1 .. Len(w) - 1 /\ rest[i] = w[i + 1] /\ rest[i + 1] = w[(i + 1) + 1]
    BY <1>1, <1>2
  <2> QED
    BY <2>1 DEF Sound, Contiguous
<1>4. ASSUME NEW i \in DOMAIN rest PROVE rest[i].device = Owner
  <2>1. i + 1 \in DOMAIN w /\ rest[i] = w[i + 1]
    BY <1>1, <1>2
  <2> QED
    BY <2>1 DEF Sound
<1>5. Sound(rest)
  BY <1>3, <1>4 DEF Sound, Contiguous
<1> QED
  BY <1>1, <1>5 DEF rest

LEMMA PushedSound ==
  ASSUME WindowInv, NEW row \in Rows, row.device = Owner
  PROVE  /\ Pushed(row) \in Seq(Rows)
         /\ Len(Pushed(row)) <= Window
         /\ Sound(Pushed(row))
<1> DEFINE grown == IF Joins(row) THEN Append(window, row) ELSE <<row>>
<1>1. window \in Seq(Rows) /\ Sound(window) /\ Len(window) <= Window
  BY DEF WindowInv, WindowTypeOK, WindowSound, Sound
<1>2. Len(window) \in Nat /\ Window \in Nat \ {0, 1}
  BY <1>1, LenProperties, PreparationAssumption
<1>3. grown \in Seq(Rows) /\ Len(grown) \in 1 .. Window + 1 /\ Sound(grown)
  <2>1. CASE Joins(row)
    <3>1. window # <<>> => IsContiguous(Last(window), row)
      BY <2>1 DEF Joins
    <3>2. /\ Append(window, row) \in Seq(Rows)
          /\ Len(Append(window, row)) = Len(window) + 1
          /\ Sound(Append(window, row))
      BY <1>1, <3>1, AppendSound
    <3> QED
      BY <1>1, <1>2, <2>1, <3>2
  <2>2. CASE ~Joins(row)
    BY <1>2, <2>2, SingleSound
  <2> QED
    BY <2>1, <2>2
<1>4. Pushed(row) = IF Len(grown) > Window THEN Tail(grown) ELSE grown
  BY DEF Pushed
<1> HIDE DEF grown
<1>5. CASE Len(grown) > Window
  <2>1. grown # <<>>
    BY <1>2, <1>3, EmptySeq
  <2>2. Tail(grown) \in Seq(Rows) /\ Len(Tail(grown)) = Len(grown) - 1 /\ Sound(Tail(grown))
    BY <1>3, <2>1, TailSound
  <2> QED
    BY <1>2, <1>3, <1>4, <1>5, <2>2
<1>6. CASE ~(Len(grown) > Window)
  BY <1>2, <1>3, <1>4, <1>6
<1> QED
  BY <1>5, <1>6

-------------------------------------------------------------------------------
(* The steps *)

LEMMA WindowInitInv == WindowInit => WindowInv
<1>1. <<>> \in Seq(Rows) /\ Len(<<>>) = 0 /\ Sound(<<>>)
  BY DEF Sound, Contiguous
<1> QED
  BY <1>1, WindowAssumption, PreparationAssumption
     DEF WindowInit, WindowInv, WindowTypeOK, WindowSound, Sound

\* The row of a new reading has its type.
LEMMA RowTyped ==
  ASSUME WindowInv, NEW reading \in Readings, NEW gap \in Gaps
  PROVE  /\ RowOf(reading, gap) \in Rows
         /\ RowOf(reading, gap).device = reading.device
         /\ Append(stored, RowOf(reading, gap)) \in Seq(Rows)
         /\ Len(stored) \in Nat
<1>1. stored \in Seq(Rows) /\ Len(stored) \in Nat
  BY LenProperties DEF WindowInv, WindowTypeOK
<1>2. Now \in Nat
  <2>1. CASE stored = <<>>
    BY <2>1 DEF Now
  <2>2. CASE stored # <<>>
    <3>1. Len(stored) \in 1 .. Len(stored)
      BY <1>1, <2>2, EmptySeq
    <3>2. stored[Len(stored)] \in Rows
      BY <1>1, <3>1, ElementOfSeq
    <3> QED
      BY <2>2, <3>2 DEF Now, Last, Rows
  <2> QED
    BY <2>1, <2>2
<1>3. Now + gap \in Nat /\ Len(stored) + 1 \in Nat
  BY <1>1, <1>2, WindowAssumption
<1>4. RowOf(reading, gap) \in Rows /\ RowOf(reading, gap).device = reading.device
  BY <1>3 DEF RowOf, Rows
<1> QED
  BY <1>1, <1>4, AppendProperties

\* evaluate() keeps the window and what it scores sound.
LEMMA ScoreInv ==
  ASSUME WindowInv, NEW row \in Rows, row.device = Owner, Score(row),
         stored' \in Seq(Rows), UNCHANGED <<unseen, cuts, restarts>>
  PROVE  WindowInv'
<1> DEFINE next == Pushed(row)
           full == Len(next) = Window
           count == RunOf(row, full, Extreme(next))
<1>1. next \in Seq(Rows) /\ Len(next) <= Window /\ Sound(next)
  BY PushedSound
<1>2. /\ window' = next /\ runs' = count
      /\ scored' = IF full THEN scored \cup {next} ELSE scored
      /\ verdicts' = IF full /\ count >= Consecutive THEN verdicts \cup {row.id} ELSE verdicts
  BY DEF Score
<1>3. count \in Nat
  BY DEF RunOf, WindowInv, WindowTypeOK
<1>4. row.id \in Nat
  BY DEF Rows
<1> HIDE DEF next, count
<1>5. WindowTypeOK'
  BY <1>1, <1>2, <1>3, <1>4 DEF WindowInv, WindowTypeOK, Rows
<1>6. WindowSound'
  BY <1>1, <1>2 DEF WindowInv, WindowSound, Sound, Contiguous, IsContiguous
<1> QED
  BY <1>5, <1>6 DEF WindowInv

LEMMA IngestInv ==
  ASSUME WindowInv, NEW reading \in Readings, NEW gap \in Gaps, Ingest(reading, gap)
  PROVE  WindowInv'
<1> DEFINE row == RowOf(reading, gap)
<1>1. row \in Rows /\ row.device = reading.device /\ stored' \in Seq(Rows)
  BY RowTyped DEF Ingest, Stores
<1>2. CASE reading.device = Owner
  BY <1>1, <1>2, ScoreInv DEF Ingest
<1>3. CASE reading.device # Owner
  BY <1>1, <1>3 DEF Ingest, adapter, WindowInv, WindowTypeOK, WindowSound, Contiguous, IsContiguous, Rows
<1> QED
  BY <1>2, <1>3

\* A new process has an empty window, whatever was stored.
LEMMA ForgetsInv ==
  ASSUME WindowInv, Forgets, stored' \in Seq(Rows), unseen' \subseteq Nat, cuts' \subseteq Nat
  PROVE  WindowInv'
<1>1. /\ window' = <<>> /\ runs' = 0 /\ restarts' \in 0 .. MaxRestarts
      /\ scored' = scored /\ verdicts' = verdicts
  BY WindowAssumption DEF Forgets, WindowInv, WindowTypeOK
<1>2. <<>> \in Seq(Rows) /\ Len(<<>>) = 0 /\ Sound(<<>>)
  BY DEF Sound, Contiguous
<1>3. Window \in Nat
  BY PreparationAssumption
<1>4. WindowTypeOK'
  BY <1>1, <1>2 DEF WindowInv, WindowTypeOK
<1>5. WindowSound'
  <2>1. /\ \A w \in scored : Contiguous(w) /\ \A i \in DOMAIN w : w[i].device = Owner
        /\ \A w \in scored : Len(w) = Window
    BY DEF WindowInv, WindowSound
  <2>2. Len(window') <= Window
    BY <1>1, <1>2, <1>3
  <2>3. Contiguous(<<>>) /\ \A i \in DOMAIN <<>> : <<>>[i].device = Owner
    BY <1>2 DEF Sound
  <2> QED
    BY <1>1, <2>1, <2>2, <2>3 DEF WindowSound
<1> QED
  BY <1>4, <1>5 DEF WindowInv

\* What the id of a new row does to a set of ids.
LEMMA IdAdded ==
  ASSUME WindowInv, NEW reading \in Readings, NEW gap \in Gaps
  PROVE  /\ RowOf(reading, gap).id = Len(stored) + 1
         /\ unseen \cup {RowOf(reading, gap).id} \subseteq Nat
         /\ cuts \cup {Len(stored)} \subseteq Nat
<1>1. RowOf(reading, gap).id \in Nat /\ Len(stored) \in Nat
  BY RowTyped DEF Rows
<1>2. RowOf(reading, gap).id = Len(stored) + 1
  BY DEF RowOf
<1>3. unseen \subseteq Nat /\ cuts \subseteq Nat
  BY DEF WindowInv, WindowTypeOK
<1> QED
  BY <1>1, <1>2, <1>3

LEMMA WindowNextInv == ASSUME WindowInv, [WindowNext]_windowVars PROVE WindowInv'
<1>1. CASE \E reading \in Readings, gap \in Gaps : Ingest(reading, gap)
  BY <1>1, IngestInv
<1>2. ASSUME NEW reading \in Readings, NEW gap \in Gaps, CrashUnevaluated(reading, gap)
      PROVE  WindowInv'
  <2>1. /\ Forgets /\ stored' = Append(stored, RowOf(reading, gap))
        /\ unseen' = unseen \cup {RowOf(reading, gap).id} /\ cuts' = cuts \cup {Len(stored)}
    BY <1>2 DEF CrashUnevaluated, Stores
  <2>2. stored' \in Seq(Rows) /\ unseen' \subseteq Nat /\ cuts' \subseteq Nat
    BY <2>1, RowTyped, IdAdded
  <2> QED
    BY <2>1, <2>2, ForgetsInv
<1>3. ASSUME NEW reading \in Readings, NEW gap \in Gaps, StoreUnevaluated(reading, gap)
      PROVE  WindowInv'
  <2>1. /\ UNCHANGED <<adapter, cuts, restarts>> /\ stored' = Append(stored, RowOf(reading, gap))
        /\ unseen' = unseen \cup {RowOf(reading, gap).id}
    BY <1>3 DEF StoreUnevaluated, Stores
  <2>2. stored' \in Seq(Rows) /\ unseen' \subseteq Nat
    BY <2>1, RowTyped, IdAdded
  <2> QED
    BY <2>1, <2>2 DEF adapter, WindowInv, WindowTypeOK, WindowSound, Contiguous, IsContiguous, Rows
<1>4. CASE Restart
  <2>1. stored' \in Seq(Rows) /\ unseen' \subseteq Nat /\ cuts' \subseteq Nat /\ Forgets
    BY <1>4, LenProperties DEF Restart, WindowInv, WindowTypeOK
  <2> QED
    BY <2>1, ForgetsInv
<1>5. CASE UNCHANGED windowVars
  BY <1>5 DEF windowVars, adapter, WindowInv, WindowTypeOK, WindowSound, Contiguous, IsContiguous, Rows
<1> QED
  BY <1>1, <1>2, <1>3, <1>4, <1>5 DEF WindowNext

\* A vector the model is asked about is one contiguous stretch of its device,
\* for every device, boot, hole and reordering of what arrives
\* (adapter.py:180, features.py:50).
THEOREM WindowsContiguous == WindowSpec => []WindowSound
<1>1. WindowInit => WindowInv
  BY WindowInitInv
<1>2. WindowInv /\ [WindowNext]_windowVars => WindowInv'
  BY WindowNextInv
<1>3. WindowInv => WindowSound
  BY DEF WindowInv
<1> QED
  BY <1>1, <1>2, <1>3, PTL DEF WindowSpec

-------------------------------------------------------------------------------
(* The window, the count and what was scored follow the readings captured.  *)
(* A stretch that reaches the newest row is live if it is contiguous and no *)
(* restart came behind its first row: the window is the longest live one,   *)
(* up to its size, and the count says how far back the high windows reach.  *)

\* Rows a to the last are live.
Live(list, lost, a) == Joined(list, a, Len(list)) /\ \A c \in lost : c < list[a].id

\* Every window of rows a to b is high.
High(list, a, b) == \A j \in a .. b - Window + 1 : Extreme(SubSeq(list, j, j + Window - 1))

IdsGrow(list) == \A i, j \in DOMAIN list : i < j => list[i].id < list[j].id

WindowFollows(list, lost, w) ==
    /\ Len(w) <= Len(list) /\ Len(w) <= Window
    /\ w = SubSeq(list, Len(list) - Len(w) + 1, Len(list))
    /\ \A a \in 1 .. Len(list) :
          Len(list) - a + 1 <= Window => (Live(list, lost, a) <=> Len(list) - a + 1 <= Len(w))

RunsFollow(list, lost, n) ==
    \A c \in Nat \ {0} :
        LET a == Len(list) - c - Window + 2
        IN n >= c <=> a >= 1 /\ Live(list, lost, a) /\ High(list, a, Len(list))

LEMMA ListTyped ==
  ASSUME NEW list \in Seq(Rows), NEW row \in Rows
  PROVE  /\ Len(list) \in Nat /\ DOMAIN list = 1 .. Len(list)
         /\ \A i \in 1 .. Len(list) : list[i] \in Rows /\ list[i].id \in Nat
         /\ Append(list, row) \in Seq(Rows)
         /\ Len(Append(list, row)) = Len(list) + 1
         /\ DOMAIN Append(list, row) = 1 .. Len(list) + 1
         /\ \A i \in 1 .. Len(list) : Append(list, row)[i] = list[i]
         /\ Append(list, row)[Len(list) + 1] = row
         /\ row.id \in Nat
<1>1. Len(list) \in Nat /\ DOMAIN list = 1 .. Len(list)
  BY LenProperties
<1>2. \A i \in 1 .. Len(list) : list[i] \in Rows
  BY <1>1, ElementOfSeq
<1>3. /\ Append(list, row) \in Seq(Rows)
      /\ Len(Append(list, row)) = Len(list) + 1
      /\ \A i \in 1 .. Len(list) : Append(list, row)[i] = list[i]
      /\ Append(list, row)[Len(list) + 1] = row
  BY AppendProperties
<1>4. DOMAIN Append(list, row) = 1 .. Len(list) + 1
  BY <1>3, LenProperties
<1>5. \A r \in Rows : r.id \in Nat
  BY DEF Rows
<1> QED
  BY <1>1, <1>2, <1>3, <1>4, <1>5

\* A part of the list as it was is a part of the longer one.
LEMMA PartKept ==
  ASSUME NEW list \in Seq(Rows), NEW row \in Rows,
         NEW a \in 1 .. Len(list), NEW b \in a - 1 .. Len(list)
  PROVE  SubSeq(Append(list, row), a, b) = SubSeq(list, a, b)
<1> DEFINE more == Append(list, row)
<1>1. /\ Len(list) \in Nat /\ Len(more) = Len(list) + 1 /\ more \in Seq(Rows)
      /\ \A i \in 1 .. Len(list) : more[i] = list[i]
  BY ListTyped
<1> HIDE DEF more
<1>2. a \in 1 .. Len(more) /\ b \in a - 1 .. Len(more) /\ a \in Int /\ b \in Int
  BY <1>1
<1>3. /\ SubSeq(list, a, b) \in Seq(Rows) /\ Len(SubSeq(list, a, b)) = b - a + 1
      /\ \A i \in 1 .. b - a + 1 : SubSeq(list, a, b)[i] = list[a + i - 1]
  BY PartOf
<1>4. /\ SubSeq(more, a, b) \in Seq(Rows) /\ Len(SubSeq(more, a, b)) = b - a + 1
      /\ \A i \in 1 .. b - a + 1 : SubSeq(more, a, b)[i] = more[a + i - 1]
  BY <1>1, <1>2, PartOf
<1>5. ASSUME NEW i \in 1 .. b - a + 1 PROVE SubSeq(more, a, b)[i] = SubSeq(list, a, b)[i]
  <2>1. a + i - 1 \in 1 .. Len(list)
    BY <1>1, <1>2
  <2> QED
    BY <1>1, <1>3, <1>4, <2>1
<1>6. SubSeq(more, a, b) = SubSeq(list, a, b)
  BY <1>3, <1>4, <1>5, SeqEqual
<1> QED
  BY <1>6 DEF more

LEMMA LiveGrows ==
  ASSUME NEW list \in Seq(Rows), NEW row \in Rows, NEW lost, \A c \in lost : c < row.id
  PROVE  /\ Live(Append(list, row), lost, Len(list) + 1)
         /\ \A a \in 1 .. Len(list) :
               Live(Append(list, row), lost, a)
                 <=> Live(list, lost, a) /\ IsContiguous(list[Len(list)], row)
<1> DEFINE more == Append(list, row)
           n == Len(list)
<1>1. /\ n \in Nat /\ Len(more) = n + 1
      /\ \A i \in 1 .. n : more[i] = list[i]
      /\ more[n + 1] = row
  BY ListTyped
<1> HIDE DEF more, n
<1>2. Live(more, lost, n + 1)
  BY <1>1 DEF Live, Joined
<1>3. ASSUME NEW a \in 1 .. n
      PROVE  Live(more, lost, a) <=> Live(list, lost, a) /\ IsContiguous(list[n], row)
  <2>1. a \in Int /\ more[a] = list[a] /\ more[n] = list[n]
    BY <1>1
  <2>2. Joined(more, a, n + 1) <=> Joined(list, a, n) /\ IsContiguous(list[n], row)
    <3>1. ASSUME Joined(more, a, n + 1) PROVE Joined(list, a, n) /\ IsContiguous(list[n], row)
      <4>1. ASSUME NEW i \in a + 1 .. n PROVE IsContiguous(list[i - 1], list[i])
        <5>1. i \in a + 1 .. n + 1 /\ i \in 1 .. n /\ i - 1 \in 1 .. n
          BY <1>1, <2>1
        <5>2. IsContiguous(more[i - 1], more[i])
          BY <3>1, <5>1 DEF Joined
        <5> QED
          BY <1>1, <5>1, <5>2
      <4>2. IsContiguous(more[(n + 1) - 1], more[n + 1])
        <5>1. n + 1 \in a + 1 .. n + 1
          BY <1>1, <2>1
        <5> QED
          BY <3>1, <5>1 DEF Joined
      <4>3. (n + 1) - 1 = n
        BY <1>1
      <4> QED
        BY <1>1, <2>1, <4>1, <4>2, <4>3 DEF Joined
    <3>2. ASSUME Joined(list, a, n), IsContiguous(list[n], row), NEW i \in a + 1 .. n + 1
          PROVE  IsContiguous(more[i - 1], more[i])
      <4>1. CASE i = n + 1
        <5>1. i - 1 = n
          BY <1>1, <4>1
        <5> QED
          BY <1>1, <2>1, <3>2, <4>1, <5>1
      <4>2. CASE i # n + 1
        <5>1. i \in a + 1 .. n /\ i \in 1 .. n /\ i - 1 \in 1 .. n
          BY <1>1, <2>1, <4>2
        <5>2. IsContiguous(list[i - 1], list[i])
          BY <3>2, <5>1 DEF Joined
        <5> QED
          BY <1>1, <5>1, <5>2
      <4> QED
        BY <4>1, <4>2
    <3> QED
      BY <3>1, <3>2 DEF Joined
  <2> QED
    BY <1>1, <2>1, <2>2 DEF Live, n
<1> QED
  BY <1>2, <1>3 DEF more, n

\* What is live stays so when it is shortened.
LEMMA LiveShortens ==
  ASSUME NEW list \in Seq(Rows), IdsGrow(list), NEW lost \in SUBSET Nat,
         NEW a \in 1 .. Len(list), NEW b \in a .. Len(list), Live(list, lost, a)
  PROVE  Live(list, lost, b)
<1>1. Len(list) \in Nat /\ DOMAIN list = 1 .. Len(list) /\ a \in Int /\ b \in Int /\ b \in 1 .. Len(list)
  BY LenProperties
<1>2. Joined(list, b, Len(list))
  BY <1>1 DEF Live, Joined
<1>3. list[a].id <= list[b].id /\ list[a].id \in Nat /\ list[b].id \in Nat
  <2>1. \A i \in 1 .. Len(list) : list[i] \in Rows
    BY <1>1, ElementOfSeq
  <2>2. list[a].id \in Nat /\ list[b].id \in Nat
    BY <1>1, <2>1 DEF Rows
  <2>3. a = b \/ list[a].id < list[b].id
    BY <1>1 DEF IdsGrow
  <2> QED
    BY <2>2, <2>3
<1>4. ASSUME NEW c \in lost PROVE c < list[b].id
  <2>1. c \in Nat /\ c < list[a].id
    BY DEF Live
  <2> QED
    BY <1>3, <2>1
<1> QED
  BY <1>2, <1>4 DEF Live

\* What the deque holds, seen from its last row.
LEMMA WindowEnds ==
  ASSUME NEW list \in Seq(Rows), NEW lost, WindowFollows(list, lost, window), window \in Seq(Rows)
  PROVE  /\ Len(window) \in Nat /\ Len(window) <= Len(list) /\ Len(window) <= Window
         /\ \A i \in 1 .. Len(window) : window[i] = list[Len(list) - Len(window) + i]
         /\ window # <<>> => Len(window) >= 1 /\ Last(window) = list[Len(list)]
<1> DEFINE n == Len(list)
           m == Len(window)
<1>1. n \in Nat /\ m \in Nat
  BY LenProperties
<1>2. m <= n /\ m <= Window /\ window = SubSeq(list, n - m + 1, n)
  BY DEF WindowFollows
<1> HIDE DEF n
<1>3. ASSUME m # 0
      PROVE  /\ \A i \in 1 .. m : window[i] = list[n - m + i]
             /\ Last(window) = list[n]
  <2> DEFINE a == n - m + 1
  <2>1. a \in 1 .. n /\ n \in a - 1 .. n /\ n - a + 1 = m
    BY <1>1, <1>2, <1>3
  <2>2. \A i \in 1 .. m : window[i] = list[a + i - 1]
    <3>1. \A i \in 1 .. n - a + 1 : SubSeq(list, a, n)[i] = list[a + i - 1]
      <4> HIDE DEF a, m
      <4> QED
        BY <2>1, PartOf DEF n
    <3> QED
      BY <1>2, <2>1, <3>1
  <2>3. \A i \in 1 .. m : a + i - 1 = n - m + i
    BY <1>1
  <2>4. m \in 1 .. m /\ n - m + m = n
    BY <1>1, <1>3
  <2> QED
    BY <2>2, <2>3, <2>4 DEF Last
<1>4. window # <<>> => m # 0
  BY EmptySeq
<1>5. m = 0 => 1 .. m = {}
  BY <1>1
<1> QED
  BY <1>1, <1>2, <1>3, <1>4, <1>5 DEF n

\* evaluate() makes the window follow one row more.
LEMMA PushedFollows ==
  ASSUME NEW list \in Seq(Rows), NEW row \in Rows, NEW lost, \A c \in lost : c < row.id,
         window \in Seq(Rows), WindowFollows(list, lost, window)
  PROVE  /\ Pushed(row) \in Seq(Rows)
         /\ WindowFollows(Append(list, row), lost, Pushed(row))
         /\ Len(Pushed(row)) >= 1
         /\ Len(Pushed(row)) > 1 =>
               /\ Joins(row) /\ Len(list) >= 1 /\ IsContiguous(list[Len(list)], row)
               /\ Len(Pushed(row)) <= Len(window) + 1
<1> DEFINE n == Len(list)
           m == Len(window)
           more == Append(list, row)
           grown == IF Joins(row) THEN Append(window, row) ELSE <<row>>
           next == Pushed(row)
<1>1. /\ n \in Nat /\ more \in Seq(Rows) /\ Len(more) = n + 1
      /\ \A i \in 1 .. n : more[i] = list[i]
      /\ more[n + 1] = row
  BY ListTyped
<1>2. /\ m \in Nat /\ m <= n /\ m <= Window /\ Window \in Nat /\ Window >= 2
      /\ \A i \in 1 .. m : window[i] = list[n - m + i]
      /\ window # <<>> => m >= 1 /\ Last(window) = list[n]
  BY WindowEnds, PreparationAssumption
<1>3. window = <<>> <=> m = 0
  BY EmptySeq
<1>4. /\ Append(window, row) \in Seq(Rows) /\ Len(Append(window, row)) = m + 1
      /\ \A i \in 1 .. m : Append(window, row)[i] = window[i]
      /\ Append(window, row)[m + 1] = row
  BY ListTyped
<1>5. <<row>> \in Seq(Rows) /\ Len(<<row>>) = 1 /\ <<row>>[1] = row
  OBVIOUS
<1>6. next = IF Len(grown) > Window THEN Tail(grown) ELSE grown
  BY DEF Pushed
<1>7. Joins(row) <=> m = 0 \/ (m >= 1 /\ IsContiguous(list[n], row))
  BY <1>2, <1>3 DEF Joins
<1> DEFINE k == IF m >= 1 /\ IsContiguous(list[n], row) THEN m + 1 ELSE 1
<1>8. /\ grown \in Seq(Rows) /\ Len(grown) = k
      /\ \A i \in 1 .. k : grown[i] = more[(n + 1) - k + i]
  <2>1. CASE m >= 1 /\ IsContiguous(list[n], row)
    <3>1. grown = Append(window, row) /\ k = m + 1
      BY <1>7, <2>1
    <3> HIDE DEF k, n, m, more, grown
    <3>2. ASSUME NEW i \in 1 .. k PROVE grown[i] = more[(n + 1) - k + i]
      <4>1. CASE i \in 1 .. m
        <5>1. (n + 1) - k + i = n - m + i /\ n - m + i \in 1 .. n
          BY <1>1, <1>2, <3>1, <4>1
        <5> QED
          BY <1>1, <1>2, <1>4, <3>1, <4>1, <5>1
      <4>2. CASE i = m + 1
        <5>1. (n + 1) - k + i = n + 1
          BY <1>1, <1>2, <3>1, <4>2
        <5> QED
          BY <1>1, <1>4, <3>1, <4>2, <5>1
      <4>3. i \in 1 .. m \/ i = m + 1
        BY <1>2, <3>1
      <4> QED
        BY <4>1, <4>2, <4>3
    <3> QED
      BY <1>4, <3>1, <3>2
  <2>2. CASE ~(m >= 1 /\ IsContiguous(list[n], row))
    <3>1. grown = <<row>> /\ k = 1
      <4>1. CASE Joins(row)
        <5>1. m = 0 /\ window = <<>>
          BY <1>3, <1>7, <2>2, <4>1
        <5>2. Append(window, row) = <<row>>
          BY <5>1
        <5> QED
          BY <2>2, <4>1, <5>2
      <4>2. CASE ~Joins(row)
        BY <2>2, <4>2
      <4> QED
        BY <4>1, <4>2
    <3> HIDE DEF k, n, m, more, grown
    <3>2. (n + 1) - k + 1 = n + 1 /\ 1 .. k = {1}
      BY <1>1, <3>1
    <3> QED
      BY <1>1, <1>5, <3>1, <3>2
  <2> QED
    BY <2>1, <2>2
<1>9. k \in Nat /\ k >= 1 /\ k <= m + 1 /\ k <= n + 1
  BY <1>1, <1>2
<1> DEFINE k2 == IF k > Window THEN Window ELSE k
<1> HIDE DEF grown, k, n, m, more, next
<1>10. /\ next \in Seq(Rows) /\ Len(next) = k2 /\ k2 \in Nat /\ k2 >= 1 /\ k2 <= Window /\ k2 <= k
       /\ \A i \in 1 .. k2 : next[i] = more[(n + 1) - k2 + i]
  <2>1. CASE k > Window
    <3>1. k = Window + 1 /\ k2 = Window /\ next = Tail(grown) /\ grown # <<>>
      BY <1>2, <1>6, <1>8, <1>9, <2>1, EmptySeq
    <3>2. next \in Seq(Rows) /\ Len(next) = k2 /\ \A i \in 1 .. k2 : next[i] = grown[i + 1]
      BY <1>2, <1>8, <3>1, HeadTailProperties
    <3>3. ASSUME NEW i \in 1 .. k2 PROVE next[i] = more[(n + 1) - k2 + i]
      <4>1. i + 1 \in 1 .. k /\ (n + 1) - k + (i + 1) = (n + 1) - k2 + i
        BY <1>1, <1>2, <3>1
      <4> QED
        BY <1>8, <3>2, <4>1
    <3> QED
      BY <1>2, <3>1, <3>2, <3>3
  <2>2. CASE ~(k > Window)
    BY <1>2, <1>6, <1>8, <1>9, <2>2
  <2> QED
    BY <2>1, <2>2
<1>11. next = SubSeq(more, (n + 1) - k2 + 1, n + 1)
  <2> DEFINE a == (n + 1) - k2 + 1
             b == n + 1
  <2>1. a \in 1 .. Len(more) /\ b \in a - 1 .. Len(more) /\ b - a + 1 = k2
    BY <1>1, <1>9, <1>10
  <2>2. \A i \in 1 .. k2 : a + i - 1 = (n + 1) - k2 + i
    BY <1>1, <1>10
  <2> HIDE DEF a, b
  <2>3. /\ SubSeq(more, a, b) \in Seq(Rows) /\ Len(SubSeq(more, a, b)) = k2
        /\ \A i \in 1 .. k2 : SubSeq(more, a, b)[i] = more[a + i - 1]
    BY <1>1, <2>1, PartOf
  <2>4. \A i \in 1 .. k2 : next[i] = SubSeq(more, a, b)[i]
    BY <1>10, <2>2, <2>3
  <2>5. next = SubSeq(more, a, b)
    BY <1>10, <2>3, <2>4, SeqEqual
  <2> QED
    BY <2>5 DEF a, b
<1>12. ASSUME NEW a \in 1 .. n + 1, (n + 1) - a + 1 <= Window
       PROVE  Live(more, lost, a) <=> (n + 1) - a + 1 <= k2
  <2>1. CASE a = n + 1
    <3>1. Live(more, lost, n + 1)
      BY LiveGrows DEF more, n
    <3> QED
      BY <1>1, <1>10, <2>1, <3>1
  <2>2. CASE a # n + 1
    <3>1. a \in 1 .. n /\ n - a + 1 <= Window
      BY <1>1, <1>2, <1>12, <2>2
    <3>2. Live(more, lost, a) <=> Live(list, lost, a) /\ IsContiguous(list[n], row)
      BY <3>1, LiveGrows DEF more, n
    <3>3. Live(list, lost, a) <=> n - a + 1 <= m
      BY <3>1 DEF WindowFollows, n, m
    <3>4. CASE m >= 1 /\ IsContiguous(list[n], row)
      <4>1. k = m + 1
        BY <3>4 DEF k
      <4>2. (n + 1) - a + 1 <= k2 <=> n - a + 1 <= m
        BY <1>1, <1>2, <1>12, <3>1, <4>1
      <4> QED
        BY <3>2, <3>3, <3>4, <4>2
    <3>5. CASE ~(m >= 1 /\ IsContiguous(list[n], row))
      <4>1. k = 1
        BY <3>5 DEF k
      <4>2. ~((n + 1) - a + 1 <= k2) /\ ~(n - a + 1 <= 0)
        BY <1>1, <1>2, <3>1, <4>1
      <4>3. ~(m >= 1) => m = 0
        BY <1>2
      <4> QED
        BY <3>2, <3>3, <3>5, <4>2, <4>3
    <3> QED
      BY <3>4, <3>5
  <2> QED
    BY <2>1, <2>2
<1>13. WindowFollows(more, lost, next)
  BY <1>1, <1>9, <1>10, <1>11, <1>12 DEF WindowFollows
<1>14. ASSUME Len(next) > 1
       PROVE  /\ Joins(row) /\ n >= 1 /\ IsContiguous(list[n], row)
              /\ Len(next) <= m + 1
  <2>1. k > 1
    BY <1>9, <1>10, <1>14
  <2>2. m >= 1 /\ IsContiguous(list[n], row)
    BY <2>1 DEF k
  <2> QED
    BY <1>1, <1>2, <1>7, <1>9, <1>10, <2>2
<1> QED
  BY <1>10, <1>13, <1>14 DEF more, n, m, next

\* The contiguous stretches of that size that no restart divided.
Whole(list, lost, size) ==
    {w \in Stretches(list, size) :
        Contiguous(w) /\ \A n \in lost : ~ (w[1].id <= n /\ n < Last(w).id)}

\* The stretch of that size that ends at the newest row.
Newest(list, size) == SubSeq(list, Len(list) - size + 1, Len(list))

LEMMA PartEnds ==
  ASSUME NEW R, NEW list \in Seq(R), NEW a \in 1 .. Len(list), NEW b \in a .. Len(list)
  PROVE  /\ SubSeq(list, a, b)[1] = list[a] /\ Last(SubSeq(list, a, b)) = list[b]
         /\ Len(SubSeq(list, a, b)) = b - a + 1
<1>1. Len(list) \in Nat /\ a \in Int /\ b \in Int
  BY LenProperties
<1>2. b \in a - 1 .. Len(list) /\ 1 \in 1 .. b - a + 1 /\ b - a + 1 \in 1 .. b - a + 1
      /\ a + 1 - 1 = a /\ a + (b - a + 1) - 1 = b
  BY <1>1
<1>3. Len(SubSeq(list, a, b)) = b - a + 1
      /\ \A i \in 1 .. b - a + 1 : SubSeq(list, a, b)[i] = list[a + i - 1]
  BY <1>2, PartOf
<1> QED
  BY <1>2, <1>3 DEF Last

\* One row more makes at most one stretch more.
LEMMA StretchesGrow ==
  ASSUME NEW list \in Seq(Rows), NEW row \in Rows, NEW size \in Nat, size >= 1
  PROVE  Stretches(Append(list, row), size)
           = Stretches(list, size)
               \cup (IF Len(list) + 1 >= size THEN {Newest(Append(list, row), size)} ELSE {})
<1> DEFINE n == Len(list)
           more == Append(list, row)
           new == n + 1 - size + 1
<1>1. n \in Nat /\ Len(more) = n + 1
  BY ListTyped
<1>2. ASSUME NEW f \in 1 .. n - size + 1
      PROVE  SubSeq(more, f, f + size - 1) = SubSeq(list, f, f + size - 1)
  <2>1. f \in 1 .. n /\ f + size - 1 \in f - 1 .. n
    BY <1>1
  <2> QED
    BY <2>1, PartKept
<1>3. new + size - 1 = n + 1
  BY <1>1
<1> HIDE DEF more, n, new
<1>4. Newest(more, size) = SubSeq(more, new, new + size - 1)
  BY <1>1, <1>3 DEF Newest, new
<1>5. ASSUME NEW w \in Stretches(more, size)
      PROVE  w \in Stretches(list, size) \/ (n + 1 >= size /\ w = Newest(more, size))
  <2>1. PICK f \in 1 .. (Len(more) - size + 1) : w = SubSeq(more, f, f + size - 1)
    BY DEF Stretches
  <2>2. f \in Int /\ f >= 1 /\ f <= n + 1 - size + 1
    BY <1>1, <2>1
  <2>3. CASE f = new
    BY <1>1, <1>4, <2>1, <2>2, <2>3 DEF new
  <2>4. CASE f # new
    <3>1. f \in 1 .. n - size + 1
      BY <1>1, <2>2, <2>4 DEF new
    <3>2. w = SubSeq(list, f, f + size - 1)
      BY <1>2, <2>1, <3>1
    <3> QED
      BY <3>1, <3>2 DEF Stretches, n
  <2> QED
    BY <2>3, <2>4
<1>6. ASSUME NEW w \in Stretches(list, size) PROVE w \in Stretches(more, size)
  <2>1. PICK f \in 1 .. (n - size + 1) : w = SubSeq(list, f, f + size - 1)
    BY DEF Stretches, n
  <2>2. f \in 1 .. (Len(more) - size + 1)
    BY <1>1
  <2>3. w = SubSeq(more, f, f + size - 1)
    BY <1>2, <2>1
  <2> QED
    BY <2>2, <2>3 DEF Stretches
<1>7. n + 1 >= size => Newest(more, size) \in Stretches(more, size)
  <2>1. n + 1 >= size => new \in 1 .. (Len(more) - size + 1)
    BY <1>1 DEF new
  <2> QED
    BY <1>4, <2>1 DEF Stretches
<1>8. Stretches(more, size)
        = Stretches(list, size) \cup (IF n + 1 >= size THEN {Newest(more, size)} ELSE {})
  BY <1>5, <1>6, <1>7
<1> QED
  BY <1>8 DEF more, n

LEMMA StretchIn ==
  ASSUME NEW R, NEW list \in Seq(R), NEW size \in Nat, size >= 1, NEW w \in Stretches(list, size)
  PROVE  \E a \in 1 .. Len(list), b \in 1 .. Len(list) :
            /\ a <= b /\ b - a + 1 = size /\ w = SubSeq(list, a, b)
            /\ w[1] = list[a] /\ Last(w) = list[b] /\ Len(w) = size
<1>1. PICK a \in 1 .. (Len(list) - size + 1) : w = SubSeq(list, a, a + size - 1)
  BY DEF Stretches
<1> DEFINE b == a + size - 1
<1>2. Len(list) \in Nat
  BY LenProperties
<1>3. a \in 1 .. Len(list) /\ b \in 1 .. Len(list) /\ b \in a .. Len(list) /\ a <= b /\ b - a + 1 = size
  BY <1>2
<1>4. w = SubSeq(list, a, b)
  BY <1>1
<1> HIDE DEF b
<1>5. w[1] = list[a] /\ Last(w) = list[b] /\ Len(w) = size
  BY <1>3, <1>4, PartEnds
<1> QED
  BY <1>3, <1>4, <1>5

\* It is whole exactly if its first row is live.
LEMMA WholeGrows ==
  ASSUME NEW list \in Seq(Rows), NEW row \in Rows, NEW size \in Nat, size >= 1,
         NEW lost \in SUBSET Nat, \A c \in lost : c < row.id
  PROVE  Whole(Append(list, row), lost, size)
           = Whole(list, lost, size)
               \cup (IF /\ Len(list) + 1 >= size
                        /\ Live(Append(list, row), lost, Len(list) + 1 - size + 1)
                       THEN {Newest(Append(list, row), size)} ELSE {})
<1> DEFINE n == Len(list)
           more == Append(list, row)
           new == n + 1 - size + 1
           last == Newest(more, size)
           whole(w) == Contiguous(w) /\ \A c \in lost : ~ (w[1].id <= c /\ c < Last(w).id)
<1>1. /\ n \in Nat /\ Len(more) = n + 1 /\ more \in Seq(Rows) /\ more[n + 1] = row /\ row.id \in Nat
  BY ListTyped
<1>2. Stretches(more, size) = Stretches(list, size) \cup (IF n + 1 >= size THEN {last} ELSE {})
  <2>1. Stretches(more, size)
          = Stretches(list, size) \cup (IF Len(list) + 1 >= size THEN {Newest(more, size)} ELSE {})
    BY StretchesGrow
  <2> QED
    BY <2>1
<1> HIDE DEF n, more
<1>3. ASSUME n + 1 >= size PROVE whole(last) <=> Live(more, lost, new)
  <2>1. new \in 1 .. Len(more) /\ Len(more) \in new .. Len(more) /\ Len(more) \in new - 1 .. Len(more)
        /\ new = Len(more) - size + 1
    BY <1>1, <1>3
  <2>2. last = SubSeq(more, new, Len(more))
    BY <2>1 DEF Newest
  <2> HIDE DEF new, last
  <2>3. last[1] = more[new] /\ Last(last) = row /\ more[new].id \in Nat
    <3>1. more[new] \in Rows
      BY <1>1, <2>1, ElementOfSeq
    <3>2. more[new].id \in Nat
      BY <3>1 DEF Rows
    <3> QED
      BY <1>1, <2>1, <2>2, <3>2, PartEnds
  <2>4. Contiguous(last) <=> Joined(more, new, Len(more))
    BY <1>1, <2>1, <2>2, JoinedPart
  <2>5. ASSUME NEW c \in lost PROVE ~ (last[1].id <= c /\ c < Last(last).id) <=> c < more[new].id
    <3>1. c \in Nat /\ c < row.id
      OBVIOUS
    <3> QED
      BY <1>1, <2>3, <3>1
  <2> QED
    BY <2>4, <2>5 DEF Live
<1>4. \A w : w \in Whole(more, lost, size) <=> w \in Stretches(more, size) /\ whole(w)
  BY DEF Whole
<1>5. \A w : w \in Whole(list, lost, size) <=> w \in Stretches(list, size) /\ whole(w)
  BY DEF Whole
<1> HIDE DEF whole, last, new
<1>6. Whole(more, lost, size)
        = Whole(list, lost, size)
            \cup (IF n + 1 >= size /\ Live(more, lost, new) THEN {last} ELSE {})
  BY <1>2, <1>3, <1>4, <1>5
<1> QED
  BY <1>6 DEF n, more, last, new

\* What is lost behind the newest row divides nothing.
LEMMA LostBehind ==
  ASSUME NEW list \in Seq(Rows), NEW size \in Nat, size >= 1, NEW lost \in SUBSET Nat,
         NEW c \in Nat, \A i \in 1 .. Len(list) : list[i].id <= c
  PROVE  Whole(list, lost \cup {c}, size) = Whole(list, lost, size)
<1> SUFFICES ASSUME NEW w \in Stretches(list, size) PROVE ~ (w[1].id <= c /\ c < Last(w).id)
  BY DEF Whole
<1>1. PICK a \in 1 .. Len(list), b \in 1 .. Len(list) : Last(w) = list[b]
  BY StretchIn
<1>2. list[b] \in Rows
  BY ElementOfSeq
<1>3. list[b].id \in Nat /\ list[b].id <= c
  BY <1>2 DEF Rows
<1> QED
  BY <1>1, <1>3

\* A restart behind the newest row leaves an empty window to follow nothing.
LEMMA NothingFollows ==
  ASSUME NEW list \in Seq(Rows), NEW lost, NEW c \in lost, c \in Nat,
         \A i \in 1 .. Len(list) : list[i].id <= c
  PROVE  WindowFollows(list, lost, <<>>) /\ RunsFollow(list, lost, 0)
<1>1. Len(list) \in Nat /\ Len(<<>>) = 0 /\ Window \in Nat
  BY LenProperties, PreparationAssumption
<1>2. ASSUME NEW a \in 1 .. Len(list) PROVE ~Live(list, lost, a)
  <2>1. list[a] \in Rows
    BY ElementOfSeq
  <2>2. list[a].id \in Nat /\ list[a].id <= c
    BY <2>1 DEF Rows
  <2> QED
    BY <2>2 DEF Live
<1>3. SubSeq(list, Len(list) + 1, Len(list)) = <<>>
  BY <1>1, SubSeqProperties, EmptySeq
<1>4. WindowFollows(list, lost, <<>>)
  <2>1. Len(list) - Len(<<>>) + 1 = Len(list) + 1
    BY <1>1
  <2>2. \A a \in 1 .. Len(list) : ~(Len(list) - a + 1 <= Len(<<>>))
    BY <1>1
  <2> QED
    BY <1>1, <1>2, <1>3, <2>1, <2>2 DEF WindowFollows
<1>5. ASSUME NEW k \in Nat \ {0} PROVE ~(0 >= k)
      /\ ~(Len(list) - k - Window + 2 >= 1 /\ Live(list, lost, Len(list) - k - Window + 2))
  <2>1. Window >= 2
    BY PreparationAssumption
  <2>2. Len(list) - k - Window + 2 >= 1 => Len(list) - k - Window + 2 \in 1 .. Len(list)
    BY <1>1, <2>1
  <2> QED
    BY <1>2, <2>2
<1> QED
  BY <1>4, <1>5 DEF RunsFollow

LEMMA SustainedHigh ==
  ASSUME NEW list \in Seq(Rows), NEW a \in 1 .. Len(list), NEW b \in a .. Len(list)
  PROVE  Sustained(SubSeq(list, a, b)) <=> High(list, a, b)
<1> DEFINE s == SubSeq(list, a, b)
<1>1. Len(list) \in Nat /\ a \in Int /\ b \in Int /\ Window \in Nat /\ Window >= 2
  BY LenProperties, PreparationAssumption
<1>2. Len(s) = b - a + 1
  BY PartEnds
<1>3. ASSUME NEW f \in 1 .. (b - a + 1) - Window + 1
      PROVE  SubSeq(s, f, f + Window - 1) = SubSeq(list, a + f - 1, a + f - 1 + Window - 1)
  <2>1. f \in 1 .. b - a + 1 /\ f + Window - 1 \in f - 1 .. b - a + 1
        /\ a + (f + Window - 1) - 1 = a + f - 1 + Window - 1
    BY <1>1
  <2>2. SubSeq(s, f, f + Window - 1) = SubSeq(list, a + f - 1, a + (f + Window - 1) - 1)
    BY <2>1, PartOfPart
  <2> QED
    BY <2>1, <2>2
<1> HIDE DEF s
<1>4. Sustained(s) <=> \A f \in 1 .. (b - a + 1) - Window + 1 : Extreme(SubSeq(s, f, f + Window - 1))
  BY <1>2 DEF Sustained, SegmentMatrix, Stretches
<1>5. ASSUME High(list, a, b), NEW f \in 1 .. (b - a + 1) - Window + 1
      PROVE  Extreme(SubSeq(s, f, f + Window - 1))
  <2>1. a + f - 1 \in a .. b - Window + 1
    BY <1>1
  <2>2. Extreme(SubSeq(list, a + f - 1, a + f - 1 + Window - 1))
    BY <1>5, <2>1 DEF High
  <2> QED
    BY <1>3, <2>2
<1>6. ASSUME Sustained(s), NEW j \in a .. b - Window + 1
      PROVE  Extreme(SubSeq(list, j, j + Window - 1))
  <2>1. j - a + 1 \in 1 .. (b - a + 1) - Window + 1 /\ a + (j - a + 1) - 1 = j
    BY <1>1
  <2>2. Extreme(SubSeq(s, j - a + 1, j - a + 1 + Window - 1))
    BY <1>4, <1>6, <2>1
  <2>3. SubSeq(s, j - a + 1, j - a + 1 + Window - 1)
          = SubSeq(list, a + (j - a + 1) - 1, a + (j - a + 1) - 1 + Window - 1)
    BY <1>3, <2>1
  <2> QED
    BY <2>1, <2>2, <2>3
<1> QED
  BY <1>4, <1>5, <1>6 DEF High, s

\* The high windows of one row more.
LEMMA HighGrows ==
  ASSUME NEW list \in Seq(Rows), NEW row \in Rows, NEW a \in 1 .. Len(list) + 2 - Window
  PROVE  High(Append(list, row), a, Len(list) + 1)
           <=> High(list, a, Len(list)) /\ Extreme(Newest(Append(list, row), Window))
<1> DEFINE n == Len(list)
           more == Append(list, row)
           e == n + 1 - Window + 1
<1>1. n \in Nat /\ Len(more) = n + 1 /\ Window \in Nat /\ Window >= 2
  BY ListTyped, PreparationAssumption
<1>2. ASSUME NEW j \in a .. n - Window + 1
      PROVE  SubSeq(more, j, j + Window - 1) = SubSeq(list, j, j + Window - 1)
  <2>1. j \in 1 .. n /\ j + Window - 1 \in j - 1 .. n
    BY <1>1
  <2> QED
    BY <2>1, PartKept
<1>3. e + Window - 1 = n + 1 /\ e \in a .. (n + 1) - Window + 1
      /\ (\A j \in a .. (n + 1) - Window + 1 : j = e \/ j \in a .. n - Window + 1)
      /\ \A j \in a .. n - Window + 1 : j \in a .. (n + 1) - Window + 1
  BY <1>1
<1> HIDE DEF n, more, e
<1>4. Newest(more, Window) = SubSeq(more, e, e + Window - 1)
  BY <1>1, <1>3 DEF Newest, e
<1>5. ASSUME High(more, a, n + 1) PROVE High(list, a, n) /\ Extreme(Newest(more, Window))
  <2>1. ASSUME NEW j \in a .. (n + 1) - Window + 1 PROVE Extreme(SubSeq(more, j, j + Window - 1))
    BY <1>5 DEF High
  <2>2. Extreme(SubSeq(more, e, e + Window - 1))
    BY <1>3, <2>1
  <2>3. ASSUME NEW j \in a .. n - Window + 1 PROVE Extreme(SubSeq(list, j, j + Window - 1))
    <3>1. Extreme(SubSeq(more, j, j + Window - 1))
      BY <1>3, <2>1
    <3> QED
      BY <1>2, <3>1
  <2> QED
    BY <1>4, <2>2, <2>3 DEF High
<1>6. ASSUME High(list, a, n), Extreme(Newest(more, Window)),
             NEW j \in a .. (n + 1) - Window + 1
      PROVE  Extreme(SubSeq(more, j, j + Window - 1))
  <2>1. CASE j = e
    BY <1>4, <1>6, <2>1
  <2>2. CASE j \in a .. n - Window + 1
    <3>1. Extreme(SubSeq(list, j, j + Window - 1))
      BY <1>6, <2>2 DEF High
    <3> QED
      BY <1>2, <2>2, <3>1
  <2> QED
    BY <1>3, <2>1, <2>2
<1>7. ASSUME High(list, a, n), Extreme(Newest(more, Window)) PROVE High(more, a, n + 1)
  BY <1>6, <1>7 DEF High
<1>8. High(more, a, n + 1) <=> High(list, a, n) /\ Extreme(Newest(more, Window))
  BY <1>5, <1>7
<1> QED
  BY <1>8 DEF n, more

\* evaluate() makes the window and the count follow one row more; the window
\* is full exactly if the newest windowful is live.
LEMMA ScoreFollows ==
  ASSUME NEW list \in Seq(Rows), NEW row \in Rows, IdsGrow(list), IdsGrow(Append(list, row)),
         NEW lost \in SUBSET Nat, \A c \in lost : c < row.id,
         window \in Seq(Rows), runs \in Nat,
         WindowFollows(list, lost, window), RunsFollow(list, lost, runs),
         NEW full \in BOOLEAN, full <=> Len(Pushed(row)) = Window,
         NEW n2, n2 = RunOf(row, full, Extreme(Pushed(row)))
  PROVE  /\ full <=> /\ Len(list) + 1 >= Window
                     /\ Live(Append(list, row), lost, Len(list) + 1 - Window + 1)
         /\ full => Pushed(row) = Newest(Append(list, row), Window)
         /\ ~full => n2 = 0
         /\ n2 \in Nat
         /\ RunsFollow(Append(list, row), lost, n2)
<1> DEFINE n == Len(list)
           more == Append(list, row)
           next == Pushed(row)
           e == n + 1 - Window + 1
<1>1. /\ n \in Nat /\ Len(more) = n + 1 /\ more \in Seq(Rows)
      /\ Window \in Nat /\ Window >= 2
  BY ListTyped, PreparationAssumption
<1>2. /\ WindowFollows(more, lost, next) /\ Len(next) >= 1
      /\ Len(next) > 1 => /\ Joins(row) /\ n >= 1 /\ IsContiguous(list[n], row)
                          /\ Len(next) <= Len(window) + 1
      /\ next \in Seq(Rows)
  BY PushedFollows
<1>3. /\ Len(window) \in Nat /\ Len(window) <= n
      /\ window # <<>> => Last(window) = list[n]
  BY WindowEnds
<1>4. /\ \A a \in 1 .. n :
            Live(more, lost, a) <=> Live(list, lost, a) /\ IsContiguous(list[n], row)
  BY LiveGrows
<1>5. Len(next) \in Nat
  BY <1>2, LenProperties
<1>6. \A a \in 1 .. n : Live(list, lost, a) => \A b \in a .. n : Live(list, lost, b)
  BY LiveShortens
<1>7. \A a \in 1 .. n + 1 : Live(more, lost, a) => \A b \in a .. n + 1 : Live(more, lost, b)
  BY <1>1, LiveShortens
<1> HIDE DEF more, n, next
<1>8. full <=> n + 1 >= Window /\ Live(more, lost, e)
  <2>1. CASE n + 1 >= Window
    <3>1. e \in 1 .. Len(more) /\ Len(more) - e + 1 = Window
      BY <1>1, <2>1
    <3>2. Live(more, lost, e) <=> Window <= Len(next)
      <4> HIDE DEF e
      <4> QED
        BY <1>2, <3>1 DEF WindowFollows
    <3>3. Len(next) <= Window
      BY <1>2 DEF WindowFollows
    <3> QED
      BY <1>1, <1>5, <2>1, <3>2, <3>3 DEF next
  <2>2. CASE ~(n + 1 >= Window)
    <3>1. Len(next) <= n + 1
      BY <1>1, <1>2 DEF WindowFollows
    <3> QED
      BY <1>1, <1>5, <2>2, <3>1 DEF next
  <2> QED
    BY <2>1, <2>2
<1>9. ASSUME full PROVE next = Newest(more, Window)
  <2>1. Len(next) = Window
    BY <1>9 DEF next
  <2> QED
    BY <1>2, <2>1 DEF WindowFollows, Newest
<1>10. ASSUME ~full, Joins(row) PROVE runs = 0
  <2> SUFFICES ASSUME runs >= 1 PROVE FALSE
    OBVIOUS
  <2> DEFINE a == n - 1 - Window + 2
  <2>1. a >= 1 /\ Live(list, lost, a)
    <3>1. 1 \in Nat \ {0}
      OBVIOUS
    <3> QED
      BY <3>1 DEF RunsFollow, n
  <2>2. a \in 1 .. n /\ e = a + 1 /\ e \in a .. n /\ e \in 1 .. n /\ n - a + 1 = Window /\ n + 1 >= Window
    BY <1>1, <2>1
  <2> HIDE DEF a, e
  <2>3. Live(list, lost, e)
    BY <1>6, <2>1, <2>2
  <2>4. Window <= Len(window)
    BY <2>1, <2>2 DEF WindowFollows, n
  <2>5. window # <<>>
    BY <1>1, <2>4, EmptySeq
  <2>6. IsContiguous(list[n], row)
    BY <1>3, <1>10, <2>5 DEF Joins
  <2> QED
    BY <1>4, <1>8, <1>10, <2>2, <2>3, <2>6
<1>11. ASSUME ~full PROVE n2 = 0
  BY <1>10, <1>11 DEF RunOf
<1>12. /\ full /\ Extreme(next) => n2 = runs + 1
       /\ full /\ ~Extreme(next) => n2 = 0
  <2>1. full => Len(next) > 1
    BY <1>1 DEF next
  <2>2. full => n2 = (IF Extreme(next) THEN runs + 1 ELSE 0)
    BY <1>2, <2>1 DEF RunOf, next
  <2> QED
    BY <2>2
<1>13. n2 \in Nat
  <2>1. n2 = 0 \/ n2 = runs + 1
    BY <1>11, <1>12
  <2> QED
    BY <2>1
<1>14. ASSUME NEW c \in Nat \ {0}
       PROVE  n2 >= c <=> /\ n + 1 - c - Window + 2 >= 1
                          /\ Live(more, lost, n + 1 - c - Window + 2)
                          /\ High(more, n + 1 - c - Window + 2, n + 1)
  <2> DEFINE a == n + 1 - c - Window + 2
  <2>1. c \in Nat /\ c >= 1
    OBVIOUS
  <2>2. CASE ~full
    <3>1. ~(n2 >= c)
      BY <1>11, <2>1, <2>2
    <3>2. ASSUME a >= 1, Live(more, lost, a) PROVE FALSE
      <4>1. a \in 1 .. n + 1 /\ e \in a .. n + 1 /\ n + 1 >= Window
        BY <1>1, <2>1, <3>2
      <4> HIDE DEF a, e
      <4>2. Live(more, lost, e)
        BY <1>7, <3>2, <4>1
      <4> QED
        BY <1>8, <2>2, <4>1, <4>2
    <3> QED
      BY <3>1, <3>2
  <2>3. CASE full /\ a >= 1
    <3>1. a \in 1 .. n + 2 - Window
      BY <1>1, <2>1, <2>3
    <3>2. High(more, a, n + 1) <=> High(list, a, n) /\ Extreme(Newest(more, Window))
      <4> HIDE DEF a
      <4> QED
        BY <3>1, HighGrows DEF n, more
    <3>3. CASE ~Extreme(next)
      <4>1. ~(n2 >= c)
        <5>1. n2 = 0
          BY <1>12, <2>3, <3>3
        <5> QED
          BY <2>1, <5>1
      <4> QED
        BY <1>9, <2>3, <3>2, <3>3, <4>1
    <3>4. CASE Extreme(next) /\ c = 1
      <4>1. n2 = runs + 1
        BY <1>12, <2>3, <3>4
      <4>2. n2 >= c /\ a = e
        BY <1>1, <3>4, <4>1
      <4>3. High(list, a, n)
        <5>1. a .. n - Window + 1 = {}
          BY <1>1, <3>4
        <5> QED
          BY <5>1 DEF High
      <4> QED
        BY <1>8, <1>9, <2>3, <3>2, <3>4, <4>2, <4>3
    <3>5. CASE Extreme(next) /\ c # 1
      <4>1. c - 1 \in Nat \ {0} /\ n - (c - 1) - Window + 2 = a
        BY <1>1, <2>1, <3>5
      <4>2. runs >= c - 1 <=> a >= 1 /\ Live(list, lost, a) /\ High(list, a, n)
        <5> HIDE DEF a
        <5> QED
          BY <4>1 DEF RunsFollow, n
      <4>3. n2 >= c <=> runs >= c - 1
        <5>1. n2 = runs + 1
          BY <1>12, <2>3, <3>5
        <5> QED
          BY <2>1, <5>1
      <4>4. a \in 1 .. n
        BY <1>1, <2>1, <2>3, <3>5
      <4>5. Live(more, lost, a) <=> Live(list, lost, a)
        <5>1. IsContiguous(list[n], row)
          <6>1. Len(next) > 1
            BY <1>1, <2>3 DEF next
          <6> QED
            BY <1>2, <6>1
        <5> HIDE DEF a
        <5> QED
          BY <1>4, <4>4, <5>1
      <4> QED
        BY <1>9, <2>3, <3>2, <3>5, <4>2, <4>3, <4>5
    <3> QED
      BY <3>3, <3>4, <3>5
  <2>4. CASE full /\ ~(a >= 1)
    <3>1. CASE ~Extreme(next)
      <4>1. n2 = 0
        BY <1>12, <2>4, <3>1
      <4>2. ~(n2 >= c)
        BY <2>1, <4>1
      <4> QED
        BY <2>4, <4>2
    <3>2. CASE Extreme(next) /\ c = 1
      <4>1. e = a
        BY <1>1, <3>2
      <4> QED
        BY <1>1, <1>8, <2>4, <4>1
    <3>3. CASE Extreme(next) /\ c # 1
      <4>1. c - 1 \in Nat \ {0} /\ n - (c - 1) - Window + 2 = a
        BY <1>1, <2>1, <3>3
      <4>2. ~(runs >= c - 1)
        <5> HIDE DEF a
        <5> QED
          BY <2>4, <4>1 DEF RunsFollow, n
      <4>3. n2 >= c <=> runs >= c - 1
        <5>1. n2 = runs + 1
          BY <1>12, <2>4, <3>3
        <5> QED
          BY <2>1, <5>1
      <4> QED
        BY <2>4, <4>2, <4>3
    <3> QED
      BY <3>1, <3>2, <3>3
  <2> QED
    BY <2>2, <2>3, <2>4
<1>15. RunsFollow(more, lost, n2)
  BY <1>1, <1>14 DEF RunsFollow
<1> QED
  BY <1>8, <1>9, <1>11, <1>13, <1>15 DEF n, more, next

-------------------------------------------------------------------------------
(* The table: ids count its rows, and the clock does not step back, so the    *)
(* readings of the owner in order of time are those of the table in order.    *)

Log(table) ==
    /\ table \in Seq(Rows)
    /\ \A i \in DOMAIN table : table[i].id = i
    /\ \A i, j \in DOMAIN table : i <= j => table[i].at <= table[j].at

\* The owner's rows of the table, but for some.
OwnOf(table, skipped) == {row \in OfDevice(ToSet(table), Owner) : row.id \notin skipped}

LEMMA OwnListed ==
  ASSUME NEW table, Log(table), NEW skipped
  PROVE  /\ Len(table) \in Nat
         /\ \A row \in OwnOf(table, skipped) :
               /\ row \in Rows /\ row.id \in 1 .. Len(table) /\ row = table[row.id]
               /\ row.at \in Nat /\ row.device = Owner
         /\ Datable(OwnOf(table, skipped))
         /\ \A a, b \in OwnOf(table, skipped) : Earlier(a, b) => a.id < b.id
         /\ Deduped(OwnOf(table, skipped)) = OwnOf(table, skipped)
<1> DEFINE rows == OwnOf(table, skipped)
           n == Len(table)
<1>1. table \in Seq(Rows) /\ n \in Nat /\ DOMAIN table = 1 .. n
  BY LenProperties DEF Log
<1>2. ASSUME NEW row \in rows
      PROVE  /\ row \in Rows /\ row.id \in 1 .. n /\ row = table[row.id]
             /\ row.at \in Nat /\ row.device = Owner
  <2>1. PICK i \in 1 .. n : row = table[i]
    BY <1>1 DEF OwnOf, OfDevice, ToSet
  <2>2. row \in Rows
    BY <1>1, <2>1, ElementOfSeq
  <2>3. row.id = i
    BY <1>1, <2>1 DEF Log
  <2>4. row.device = Owner
    BY DEF OwnOf, OfDevice
  <2> QED
    BY <2>1, <2>2, <2>3, <2>4 DEF Rows
<1>3. ASSUME NEW a \in rows, NEW b \in rows, Earlier(a, b) PROVE a.id < b.id
  <2>1. a.id \in Int /\ b.id \in Int /\ a.at \in Int /\ b.at \in Int
    BY <1>2
  <2>2. b.id <= a.id => table[b.id].at <= table[a.id].at
    BY <1>1, <1>2 DEF Log
  <2>3. b.id <= a.id => b.at <= a.at
    BY <1>2, <2>2
  <2> QED
    BY <1>3, <2>1, <2>3 DEF Earlier
<1>4. ASSUME NEW a \in rows, NEW b \in rows, a.id = b.id PROVE a = b
  BY <1>2, <1>4
<1>5. IsFiniteSet(rows)
  <2> DEFINE f == [i \in 1 .. n |-> table[i]]
             T == ToSet(table)
  <2>1. f \in Surjection(1 .. n, T)
    BY <1>1 DEF Surjection, ToSet
  <2>2. IsFiniteSet(1 .. n)
    BY <1>1, FS_Interval
  <2> HIDE DEF f, T
  <2>3. IsFiniteSet(T)
    BY <2>1, <2>2, FS_Surjection
  <2>4. rows \in SUBSET T
    BY DEF OwnOf, OfDevice, T
  <2> QED
    BY <2>3, <2>4, FS_Subset
<1>6. Datable(rows)
  BY <1>2, <1>4, <1>5 DEF Datable
<1>7. ASSUME NEW a \in rows, NEW b \in rows, a.id = b.id PROVE ~Earlier(a, b)
  <2>1. a.id \in Int /\ b.id \in Int
    BY <1>2
  <2> QED
    BY <1>3, <1>7, <2>1
<1>8. Deduped(rows) = rows
  BY <1>7 DEF Deduped
<1> QED
  BY <1>1, <1>2, <1>3, <1>6, <1>8

LEMMA OwnInOrder ==
  ASSUME NEW table, Log(table), NEW skipped
  PROVE  /\ InOrder(OwnOf(table, skipped)) \in Seq(Rows)
         /\ IdsGrow(InOrder(OwnOf(table, skipped)))
         /\ \A i \in 1 .. Len(InOrder(OwnOf(table, skipped))) :
               InOrder(OwnOf(table, skipped))[i].id \in 1 .. Len(table)
<1> DEFINE rows == OwnOf(table, skipped)
           list == InOrder(rows)
<1>1. /\ \A row \in rows : row \in Rows /\ row.id \in 1 .. Len(table)
      /\ Datable(rows)
      /\ \A a, b \in rows : Earlier(a, b) => a.id < b.id
  BY OwnListed
<1> HIDE DEF rows
<1>2. /\ list \in Seq(rows)
      /\ DOMAIN list = 1 .. Cardinality(rows) /\ Len(list) = Cardinality(rows)
      /\ \A i \in 1 .. Cardinality(rows) : list[i] \in rows
  BY <1>1, OrderPlaces
<1>3. \A i, j \in DOMAIN list : i < j => Earlier(list[i], list[j])
  BY <1>1, OrderListed
<1> HIDE DEF list
<1>4. rows \subseteq Rows
  BY <1>1
<1>5. list \in Seq(Rows)
  BY <1>2, <1>4, SeqMonotonic
<1>6. IdsGrow(list)
  BY <1>1, <1>2, <1>3 DEF IdsGrow
<1> QED
  BY <1>1, <1>2, <1>5, <1>6 DEF list, rows

\* A row more of the owner comes last; one of another device or one left out
\* changes nothing.
LEMMA LogGrows ==
  ASSUME NEW table, Log(table), NEW row \in Rows, row.id = Len(table) + 1, NEW skipped,
         \A i \in DOMAIN table : table[i].at <= row.at
  PROVE  /\ Log(Append(table, row))
         /\ row.device = Owner /\ row.id \notin skipped =>
               InOrder(OwnOf(Append(table, row), skipped)) = Append(InOrder(OwnOf(table, skipped)), row)
         /\ row.device # Owner \/ row.id \in skipped => OwnOf(Append(table, row), skipped) = OwnOf(table, skipped)
<1> DEFINE n == Len(table)
           more == Append(table, row)
<1>1. /\ table \in Seq(Rows) /\ n \in Nat /\ DOMAIN table = 1 .. n
      /\ more \in Seq(Rows) /\ DOMAIN more = 1 .. n + 1
      /\ \A i \in 1 .. n : more[i] = table[i]
      /\ more[n + 1] = row
  BY ListTyped DEF Log
<1> HIDE DEF more, n
<1>2. \A i \in DOMAIN more : more[i].id = i
  <2>1. \A i \in 1 .. n : more[i].id = i
    BY <1>1 DEF Log
  <2>2. \A i \in 1 .. n + 1 : i \in 1 .. n \/ i = n + 1
    BY <1>1
  <2> QED
    BY <1>1, <2>1, <2>2 DEF n
<1>3. row.at \in Nat
  BY DEF Rows
<1>4. ASSUME NEW i \in DOMAIN more, NEW j \in DOMAIN more, i <= j PROVE more[i].at <= more[j].at
  <2>0. i \in 1 .. n + 1 /\ j \in 1 .. n + 1
    BY <1>1
  <2>1. CASE j \in 1 .. n
    <3>1. i \in 1 .. n
      BY <1>1, <1>4, <2>0, <2>1
    <3> QED
      BY <1>1, <1>4, <2>1, <3>1 DEF Log
  <2>2. CASE j = n + 1 /\ i \in 1 .. n
    BY <1>1, <2>2
  <2>3. CASE j = n + 1 /\ i = n + 1
    BY <1>1, <1>3, <2>3
  <2> QED
    BY <1>1, <2>0, <2>1, <2>2, <2>3
<1>5. Log(more)
  BY <1>1, <1>2, <1>4 DEF Log
<1>6. ToSet(more) = ToSet(table) \cup {row}
  <2>1. \A i \in 1 .. n + 1 : i \in 1 .. n \/ i = n + 1
    BY <1>1
  <2>2. \A i \in 1 .. n : i \in 1 .. n + 1
    BY <1>1
  <2>3. n + 1 \in 1 .. n + 1
    BY <1>1
  <2> QED
    BY <1>1, <2>1, <2>2, <2>3 DEF ToSet
<1>7. ASSUME row.device # Owner \/ row.id \in skipped PROVE OwnOf(more, skipped) = OwnOf(table, skipped)
  BY <1>6, <1>7 DEF OwnOf, OfDevice
<1>8. ASSUME row.device = Owner, row.id \notin skipped PROVE InOrder(OwnOf(more, skipped)) = Append(InOrder(OwnOf(table, skipped)), row)
  <2>1. OwnOf(more, skipped) = OwnOf(table, skipped) \cup {row}
    BY <1>6, <1>8 DEF OwnOf, OfDevice
  <2>2. Datable(OwnOf(more, skipped))
    BY <1>5, OwnListed
  <2>3. /\ \A r \in OwnOf(table, skipped) : r.id \in 1 .. n /\ r = table[r.id] /\ r.at \in Nat
    BY OwnListed DEF n
  <2>4. row \notin OwnOf(table, skipped)
    BY <1>1, <2>3 DEF n
  <2>5. ASSUME NEW r \in OwnOf(table, skipped) PROVE Earlier(r, row)
    <3>1. r.id \in 1 .. n /\ table[r.id].at <= row.at /\ r = table[r.id]
      BY <1>1, <2>3
    <3>2. r.at \in Nat /\ r.at <= row.at
      BY <2>3, <3>1
    <3>3. row.id = n + 1
      BY DEF n
    <3>4. r.id < row.id
      BY <1>1, <3>1, <3>3
    <3> QED
      BY <1>3, <3>2, <3>4 DEF Earlier
  <2> QED
    BY <2>1, <2>2, <2>4, <2>5, OrderAppends
<1> QED
  BY <1>5, <1>7, <1>8 DEF more

\* The table has no row yet of the id of the next.
LEMMA SkippedAhead ==
  ASSUME NEW table, Log(table), NEW skipped
  PROVE  OwnOf(table, skipped \cup {Len(table) + 1}) = OwnOf(table, skipped)
<1>1. Len(table) \in Nat /\ \A row \in OwnOf(table, skipped) : row.id \in 1 .. Len(table)
  BY OwnListed
<1>2. \A row \in OwnOf(table, skipped) : row.id # Len(table) + 1
  BY <1>1
<1> QED
  BY <1>2 DEF OwnOf

\* The row of a new reading is the newest.
LEMMA RowNewest ==
  ASSUME WindowInv, Log(stored), NEW reading \in Readings, NEW gap \in Gaps
  PROVE  /\ RowOf(reading, gap).id = Len(stored) + 1
         /\ \A i \in DOMAIN stored : stored[i].at <= RowOf(reading, gap).at
<1>1. /\ stored \in Seq(Rows) /\ Len(stored) \in Nat /\ DOMAIN stored = 1 .. Len(stored)
      /\ RowOf(reading, gap) \in Rows
  BY RowTyped, LenProperties DEF WindowInv, WindowTypeOK
<1>2. RowOf(reading, gap).id = Len(stored) + 1 /\ RowOf(reading, gap).at = Now + gap
  BY DEF RowOf
<1>3. ASSUME NEW i \in DOMAIN stored PROVE stored[i].at <= Now /\ stored[i].at \in Nat /\ Now \in Nat
  <2>1. stored # <<>> /\ Len(stored) \in 1 .. Len(stored)
    BY <1>1, EmptySeq
  <2>2. Now = stored[Len(stored)].at
    BY <2>1 DEF Now, Last
  <2>3. stored[i] \in Rows /\ stored[Len(stored)] \in Rows
    BY <1>1, <2>1, ElementOfSeq
  <2>4. stored[i].at <= stored[Len(stored)].at
    BY <1>1, <2>1 DEF Log
  <2> QED
    BY <2>2, <2>3, <2>4 DEF Rows
<1>4. gap \in Nat
  BY WindowAssumption
<1>5. ASSUME NEW i \in DOMAIN stored PROVE stored[i].at <= Now + gap
  BY <1>3, <1>4
<1> QED
  BY <1>2, <1>5

-------------------------------------------------------------------------------
(* The invariant and its steps *)

VerdictSize == Window + Consecutive - 1

VerdictsOf(stretches) == {Last(s).id : s \in {w \in stretches : Sustained(w)}}

\* The adapter's state, its history included, is what the table and the cuts
\* say, less the rows it was never given.
Follows(table, skipped, lost, w, n, windows, given) ==
    LET list == InOrder(OwnOf(table, skipped))
    IN /\ Log(table)
       /\ \A c \in lost \cup skipped : c <= Len(table)
       /\ WindowFollows(list, lost, w)
       /\ RunsFollow(list, lost, n)
       /\ windows = Whole(list, lost, Window)
       /\ given = VerdictsOf(Whole(list, lost, VerdictSize))

FollowInv == WindowInv /\ Follows(stored, unseen, cuts, window, runs, scored, verdicts)

FollowNext == Follows(stored', unseen', cuts', window', runs', scored', verdicts')

LEMMA FollowPrimes == ASSUME WindowInv', FollowNext PROVE FollowInv'
BY DEF FollowInv, FollowNext

LEMMA Sizes == Window \in Nat /\ Window >= 2 /\ VerdictSize \in Nat /\ VerdictSize >= Window
               /\ Consecutive \in Nat /\ Consecutive >= 1
<1>1. Window \in Nat /\ Window >= 2 /\ Consecutive \in Nat /\ Consecutive >= 1
  BY PreparationAssumption, WindowAssumption
<1> QED
  BY <1>1 DEF VerdictSize

LEMMA NothingWhole ==
  ASSUME NEW lost, NEW size \in Nat, size >= 1
  PROVE  Whole(<<>>, lost, size) = {}
<1>1. Len(<<>>) = 0 /\ 1 .. 0 - size + 1 = {}
  OBVIOUS
<1>2. Stretches(<<>>, size) = {}
  BY <1>1 DEF Stretches
<1> QED
  BY <1>2 DEF Whole

LEMMA FollowInit == WindowInit => FollowInv
<1> SUFFICES ASSUME WindowInit PROVE FollowInv
  OBVIOUS
<1>1. stored = <<>> /\ window = <<>> /\ runs = 0 /\ scored = {} /\ verdicts = {}
      /\ unseen = {} /\ cuts = {}
  BY DEF WindowInit
<1>2. WindowInv
  BY WindowInitInv
<1>3. <<>> \in Seq(Rows) /\ Len(<<>>) = 0 /\ DOMAIN <<>> = {}
  OBVIOUS
<1>4. Log(<<>>)
  BY <1>3 DEF Log
<1>5. OwnOf(<<>>, {}) = {}
  BY <1>3 DEF OwnOf, OfDevice, ToSet
<1>6. InOrder({}) = <<>>
  <2>1. Cardinality({}) = 0
    BY FS_EmptySet
  <2>2. 1 .. 0 = {}
    OBVIOUS
  <2>3. Datable({})
    BY FS_EmptySet DEF Datable
  <2>4. InOrder({}) \in Seq({}) /\ Len(InOrder({})) = 0
    BY <2>1, <2>3, OrderPlaces
  <2> QED
    BY <2>4, EmptySeq
<1>7. WindowFollows(<<>>, {}, <<>>) /\ RunsFollow(<<>>, {}, 0)
  <2>1. SubSeq(<<>>, 1, 0) = <<>> /\ 0 - 0 + 1 = 1 /\ 1 .. 0 = {} /\ 0 <= Window
    BY Sizes
  <2>2. WindowFollows(<<>>, {}, <<>>)
    BY <1>3, <2>1 DEF WindowFollows
  <2>3. ASSUME NEW c \in Nat \ {0} PROVE ~(0 >= c) /\ ~(0 - c - Window + 2 >= 1)
    BY Sizes
  <2> QED
    BY <1>3, <2>2, <2>3 DEF RunsFollow
<1>8. Whole(<<>>, {}, Window) = {} /\ Whole(<<>>, {}, VerdictSize) = {}
  <2>1. VerdictSize >= 1 /\ Window >= 1
    BY Sizes
  <2> QED
    BY <2>1, Sizes, NothingWhole
<1>9. VerdictsOf({}) = {}
  BY DEF VerdictsOf
<1> QED
  BY <1>1, <1>2, <1>4, <1>5, <1>6, <1>7, <1>8, <1>9 DEF FollowInv, Follows

LEMMA IngestFollows ==
  ASSUME FollowInv, NEW reading \in Readings, NEW gap \in Gaps, Ingest(reading, gap)
  PROVE  FollowNext
<1> DEFINE row == RowOf(reading, gap)
           list == InOrder(OwnOf(stored, unseen))
           more == InOrder(OwnOf(Append(stored, row), unseen))
<1>1. WindowInv /\ Follows(stored, unseen, cuts, window, runs, scored, verdicts)
  BY DEF FollowInv
<1>2. /\ row \in Rows /\ row.device = reading.device /\ Len(stored) \in Nat
      /\ row.id = Len(stored) + 1 /\ \A i \in DOMAIN stored : stored[i].at <= row.at
  BY <1>1, RowTyped, RowNewest DEF Follows
<1>3. /\ stored' = Append(stored, row) /\ cuts' = cuts /\ unseen' = unseen
  BY DEF Ingest, Stores
<1>4. /\ Log(stored) /\ cuts \in SUBSET Nat /\ unseen \in SUBSET Nat
      /\ \A c \in cuts \cup unseen : c <= Len(stored)
      /\ window \in Seq(Rows) /\ runs \in Nat
  BY <1>1 DEF Follows, WindowInv, WindowTypeOK
<1> HIDE DEF row
<1>5. Log(Append(stored, row))
  BY <1>2, <1>4, LogGrows
<1>6. Len(stored') = Len(stored) + 1
  BY <1>2, <1>3, <1>4, ListTyped DEF Log
<1>7. /\ \A c \in cuts \cup unseen : c < row.id /\ c <= Len(stored')
      /\ row.id \notin unseen
  <2> SUFFICES ASSUME NEW c \in cuts \cup unseen PROVE c < row.id /\ c <= Len(stored')
    <3>1. ~(row.id < row.id)
      BY <1>2
    <3> QED
      BY <3>1
  <2>1. c \in Nat /\ c <= Len(stored)
    BY <1>4
  <2> QED
    BY <1>2, <1>6, <2>1
<1>8. CASE reading.device # Owner
  <2>1. OwnOf(Append(stored, row), unseen) = OwnOf(stored, unseen)
    BY <1>2, <1>4, <1>8, LogGrows
  <2>2. window' = window /\ runs' = runs /\ scored' = scored /\ verdicts' = verdicts
    BY <1>8 DEF Ingest, adapter
  <2> QED
    BY <1>1, <1>3, <1>5, <1>7, <2>1, <2>2 DEF Follows, FollowNext
<1>9. CASE reading.device = Owner
  <2>1. more = Append(list, row)
    BY <1>2, <1>4, <1>7, <1>9, LogGrows
  <2>2. list \in Seq(Rows) /\ IdsGrow(list)
    BY <1>4, OwnInOrder
  <2>3. IdsGrow(more)
    BY <1>5, OwnInOrder
  <2>4. /\ WindowFollows(list, cuts, window) /\ RunsFollow(list, cuts, runs)
        /\ scored = Whole(list, cuts, Window) /\ verdicts = VerdictsOf(Whole(list, cuts, VerdictSize))
    BY <1>1 DEF Follows
  <2>5. Score(row)
    BY <1>9 DEF Ingest, row
  <2> HIDE DEF list, more
  <2> DEFINE next == Pushed(row)
             full == Len(next) = Window
             n2 == RunOf(row, full, Extreme(next))
  <2>6. /\ window' = next /\ runs' = n2
        /\ scored' = IF full THEN scored \cup {next} ELSE scored
        /\ verdicts' = IF full /\ n2 >= Consecutive THEN verdicts \cup {row.id} ELSE verdicts
    BY <2>5 DEF Score
  <2>7. full \in BOOLEAN
    OBVIOUS
  <2>8. /\ full <=> Len(list) + 1 >= Window /\ Live(more, cuts, Len(list) + 1 - Window + 1)
        /\ full => next = Newest(more, Window)
        /\ ~full => n2 = 0
        /\ n2 \in Nat
        /\ RunsFollow(more, cuts, n2)
    <3> HIDE DEF full, n2
    <3>1. full <=> Len(Pushed(row)) = Window
      BY DEF full
    <3>2. n2 = RunOf(row, full, Extreme(Pushed(row)))
      BY DEF n2
    <3> QED
      BY <1>2, <1>4, <1>7, <2>1, <2>2, <2>3, <2>4, <2>7, <3>1, <3>2, ScoreFollows
  <2>9. WindowFollows(more, cuts, next)
    BY <1>2, <1>4, <1>7, <2>1, <2>2, <2>4, PushedFollows
  <2> HIDE DEF next, full, n2
  <2>10. scored' = Whole(more, cuts, Window)
    <3>1. Whole(more, cuts, Window)
            = Whole(list, cuts, Window)
                \cup (IF Len(list) + 1 >= Window /\ Live(more, cuts, Len(list) + 1 - Window + 1)
                        THEN {Newest(more, Window)} ELSE {})
      <4>1. Window >= 1
        BY Sizes
      <4> QED
        BY <1>2, <1>4, <1>7, <2>1, <2>2, <4>1, Sizes, WholeGrows
    <3> QED
      BY <2>4, <2>6, <2>8, <3>1
  <2>11. verdicts' = VerdictsOf(Whole(more, cuts, VerdictSize))
    <3> DEFINE a == Len(list) + 1 - VerdictSize + 1
               last == Newest(more, VerdictSize)
    <3>1. Whole(more, cuts, VerdictSize)
            = Whole(list, cuts, VerdictSize)
                \cup (IF Len(list) + 1 >= VerdictSize /\ Live(more, cuts, a) THEN {last} ELSE {})
      <4>1. VerdictSize >= 1
        BY Sizes
      <4> QED
        BY <1>2, <1>4, <1>7, <2>1, <2>2, <4>1, Sizes, WholeGrows
    <3>2. /\ Len(list) \in Nat /\ Len(more) = Len(list) + 1 /\ more[Len(list) + 1] = row
          /\ more \in Seq(Rows)
      BY <1>2, <2>1, <2>2, ListTyped
    <3>3. a = Len(more) - Consecutive - Window + 2
          /\ (a >= 1 <=> Len(list) + 1 >= VerdictSize)
      BY <3>2, Sizes DEF VerdictSize
    <3>4. Consecutive \in Nat \ {0}
      BY WindowAssumption
    <3>5. n2 >= Consecutive <=> a >= 1 /\ Live(more, cuts, a) /\ High(more, a, Len(more))
      <4> HIDE DEF a
      <4> QED
        BY <2>8, <3>3, <3>4 DEF RunsFollow
    <3>6. ASSUME a >= 1
          PROVE  Last(last) = row /\ (Sustained(last) <=> High(more, a, Len(more)))
      <4>1. a \in 1 .. Len(more) /\ Len(more) \in a .. Len(more) /\ a = Len(more) - VerdictSize + 1
        BY <3>2, <3>6, Sizes
      <4> HIDE DEF a
      <4>2. last = SubSeq(more, a, Len(more))
        BY <4>1 DEF Newest
      <4> HIDE DEF last
      <4>3. Last(last) = more[Len(more)]
        BY <3>2, <4>1, <4>2, PartEnds
      <4>4. Sustained(last) <=> High(more, a, Len(more))
        BY <3>2, <4>1, <4>2, SustainedHigh
      <4> QED
        BY <3>2, <4>3, <4>4
    <3> HIDE DEF a, last
    <3>7. full /\ n2 >= Consecutive <=> n2 >= Consecutive
      BY <2>8, <3>4
    <3>8. CASE n2 >= Consecutive
      <4>1. /\ Whole(more, cuts, VerdictSize) = Whole(list, cuts, VerdictSize) \cup {last}
            /\ Last(last).id = row.id /\ Sustained(last)
        BY <3>1, <3>3, <3>5, <3>6, <3>8
      <4>2. VerdictsOf(Whole(more, cuts, VerdictSize))
              = VerdictsOf(Whole(list, cuts, VerdictSize)) \cup {row.id}
        BY <4>1 DEF VerdictsOf
      <4> QED
        BY <2>4, <2>6, <3>7, <3>8, <4>2
    <3>9. CASE ~(n2 >= Consecutive)
      <4>1. /\ Whole(more, cuts, VerdictSize) = Whole(list, cuts, VerdictSize)
               \/ /\ Whole(more, cuts, VerdictSize) = Whole(list, cuts, VerdictSize) \cup {last}
                  /\ ~Sustained(last)
        BY <3>1, <3>3, <3>5, <3>6, <3>9
      <4>2. VerdictsOf(Whole(more, cuts, VerdictSize)) = VerdictsOf(Whole(list, cuts, VerdictSize))
        BY <4>1 DEF VerdictsOf
      <4> QED
        BY <2>4, <2>6, <3>7, <3>9, <4>2
    <3> QED
      BY <3>8, <3>9
  <2> QED
    BY <1>3, <1>5, <1>7, <2>6, <2>8, <2>9, <2>10, <2>11 DEF Follows, FollowNext, more
<1> QED
  BY <1>8, <1>9

\* A new process has lost the window and made nothing whole that was divided.
LEMMA ForgottenFollows ==
  ASSUME FollowInv, Forgets, cuts' = cuts \cup {Len(stored)}
  PROVE  LET list == InOrder(OwnOf(stored, unseen))
         IN /\ WindowFollows(list, cuts', window') /\ RunsFollow(list, cuts', runs')
            /\ scored' = Whole(list, cuts', Window)
            /\ verdicts' = VerdictsOf(Whole(list, cuts', VerdictSize))
            /\ \A c \in cuts' : c <= Len(stored)
<1> DEFINE list == InOrder(OwnOf(stored, unseen))
           n == Len(stored)
<1>1. /\ WindowInv /\ Log(stored) /\ cuts \in SUBSET Nat /\ \A c \in cuts : c <= n
      /\ scored = Whole(list, cuts, Window) /\ verdicts = VerdictsOf(Whole(list, cuts, VerdictSize))
  BY DEF FollowInv, Follows, WindowInv, WindowTypeOK
<1>2. /\ cuts' = cuts \cup {n} /\ window' = <<>> /\ runs' = 0
      /\ scored' = scored /\ verdicts' = verdicts
  BY DEF Forgets
<1>3. n \in Nat /\ list \in Seq(Rows) /\ \A i \in 1 .. Len(list) : list[i].id \in 1 .. n
  BY <1>1, OwnInOrder, LenProperties DEF Log
<1>4. \A i \in 1 .. Len(list) : list[i].id <= n
  BY <1>3
<1> HIDE DEF list, n
<1>5. WindowFollows(list, cuts \cup {n}, <<>>) /\ RunsFollow(list, cuts \cup {n}, 0)
  BY <1>3, <1>4, NothingFollows
<1>6. /\ Whole(list, cuts \cup {n}, Window) = Whole(list, cuts, Window)
      /\ Whole(list, cuts \cup {n}, VerdictSize) = Whole(list, cuts, VerdictSize)
  <2>1. Window \in Nat /\ Window >= 1 /\ VerdictSize \in Nat /\ VerdictSize >= 1
    BY Sizes
  <2> QED
    BY <1>1, <1>3, <1>4, <2>1, LostBehind
<1>7. \A c \in cuts \cup {n} : c <= n
  BY <1>1, <1>3
<1> QED
  BY <1>1, <1>2, <1>5, <1>6, <1>7 DEF list, n

LEMMA RestartFollows == ASSUME FollowInv, Restart PROVE FollowNext
<1>1. Forgets /\ cuts' = cuts \cup {Len(stored)} /\ stored' = stored /\ unseen' = unseen
  BY DEF Restart
<1>2. Log(stored) /\ \A c \in unseen : c <= Len(stored)
  BY DEF FollowInv, Follows
<1> QED
  BY <1>1, <1>2, ForgottenFollows DEF Follows, FollowNext

\* A row that is stored and not evaluated leaves the rows evaluated as they are.
LEMMA UnevaluatedRow ==
  ASSUME FollowInv, NEW reading \in Readings, NEW gap \in Gaps,
         stored' = Append(stored, RowOf(reading, gap)),
         unseen' = unseen \cup {RowOf(reading, gap).id}
  PROVE  /\ Log(stored') /\ OwnOf(stored', unseen') = OwnOf(stored, unseen)
         /\ Len(stored') = Len(stored) + 1 /\ Len(stored) \in Nat
         /\ \A c \in unseen' : c <= Len(stored')
<1> DEFINE row == RowOf(reading, gap)
<1>1. WindowInv /\ Log(stored) /\ \A c \in unseen : c <= Len(stored)
  BY DEF FollowInv, Follows
<1>2. /\ row \in Rows /\ Len(stored) \in Nat
      /\ row.id = Len(stored) + 1 /\ \A i \in DOMAIN stored : stored[i].at <= row.at
      /\ unseen \subseteq Nat
  BY <1>1, RowTyped, RowNewest DEF WindowInv, WindowTypeOK
<1>3. stored' = Append(stored, row) /\ unseen' = unseen \cup {Len(stored) + 1}
  BY <1>2
<1> HIDE DEF row
<1>4. Log(Append(stored, row))
      /\ OwnOf(Append(stored, row), unseen \cup {Len(stored) + 1})
           = OwnOf(stored, unseen \cup {Len(stored) + 1})
  BY <1>1, <1>2, LogGrows
<1>5. OwnOf(stored, unseen \cup {Len(stored) + 1}) = OwnOf(stored, unseen)
  BY <1>1, SkippedAhead
<1>6. Len(Append(stored, row)) = Len(stored) + 1
  BY <1>1, <1>2, ListTyped DEF Log
<1>7. ASSUME NEW c \in unseen \cup {Len(stored) + 1} PROVE c <= Len(stored) + 1
  <2>1. c \in Nat /\ (c <= Len(stored) \/ c = Len(stored) + 1)
    BY <1>1, <1>2
  <2> QED
    BY <1>2, <2>1
<1> QED
  BY <1>2, <1>3, <1>4, <1>5, <1>6, <1>7

LEMMA StoreFollows ==
  ASSUME FollowInv, NEW reading \in Readings, NEW gap \in Gaps, StoreUnevaluated(reading, gap)
  PROVE  FollowNext
<1>1. /\ stored' = Append(stored, RowOf(reading, gap)) /\ unseen' = unseen \cup {RowOf(reading, gap).id}
      /\ UNCHANGED <<cuts, window, runs, scored, verdicts>>
  BY DEF StoreUnevaluated, Stores, adapter
<1>2. /\ Log(stored') /\ OwnOf(stored', unseen') = OwnOf(stored, unseen)
      /\ Len(stored') = Len(stored) + 1 /\ Len(stored) \in Nat
      /\ \A c \in unseen' : c <= Len(stored')
  BY <1>1, UnevaluatedRow
<1>3. ASSUME NEW c \in cuts PROVE c <= Len(stored')
  <2>1. c \in Nat /\ c <= Len(stored)
    BY DEF FollowInv, Follows, WindowInv, WindowTypeOK
  <2> QED
    BY <1>2, <2>1
<1> QED
  BY <1>1, <1>2, <1>3 DEF FollowInv, Follows, FollowNext

LEMMA CrashFollows ==
  ASSUME FollowInv, NEW reading \in Readings, NEW gap \in Gaps, CrashUnevaluated(reading, gap)
  PROVE  FollowNext
<1>1. /\ stored' = Append(stored, RowOf(reading, gap)) /\ unseen' = unseen \cup {RowOf(reading, gap).id}
      /\ Forgets /\ cuts' = cuts \cup {Len(stored)}
  BY DEF CrashUnevaluated, Stores
<1>2. /\ Log(stored') /\ OwnOf(stored', unseen') = OwnOf(stored, unseen)
      /\ Len(stored') = Len(stored) + 1 /\ Len(stored) \in Nat
      /\ \A c \in unseen' : c <= Len(stored')
  BY <1>1, UnevaluatedRow
<1>3. LET list == InOrder(OwnOf(stored, unseen))
      IN /\ WindowFollows(list, cuts', window') /\ RunsFollow(list, cuts', runs')
         /\ scored' = Whole(list, cuts', Window)
         /\ verdicts' = VerdictsOf(Whole(list, cuts', VerdictSize))
         /\ \A c \in cuts' : c <= Len(stored)
  BY <1>1, ForgottenFollows
<1>4. ASSUME NEW c \in cuts' PROVE c <= Len(stored')
  <2>1. c \in Nat /\ c <= Len(stored)
    <3>1. cuts \subseteq Nat
      BY DEF FollowInv, WindowInv, WindowTypeOK
    <3> QED
      BY <1>1, <1>2, <1>3, <3>1
  <2> QED
    BY <1>2, <2>1
<1> QED
  BY <1>2, <1>3, <1>4 DEF Follows, FollowNext

LEMMA FollowSteps == ASSUME FollowInv, [WindowNext]_windowVars PROVE FollowInv'
<1>1. WindowInv'
  BY WindowNextInv DEF FollowInv
<1>2. ASSUME NEW reading \in Readings, NEW gap \in Gaps, Ingest(reading, gap) PROVE FollowNext
  BY <1>2, IngestFollows
<1>3. ASSUME NEW reading \in Readings, NEW gap \in Gaps, CrashUnevaluated(reading, gap) PROVE FollowNext
  BY <1>3, CrashFollows
<1>4. ASSUME Restart PROVE FollowNext
  BY <1>4, RestartFollows
<1>7. ASSUME NEW reading \in Readings, NEW gap \in Gaps, StoreUnevaluated(reading, gap) PROVE FollowNext
  BY <1>7, StoreFollows
<1>5. ASSUME UNCHANGED windowVars PROVE FollowNext
  BY <1>5 DEF windowVars, adapter, FollowInv, FollowNext
<1>6. FollowNext
  BY <1>2, <1>3, <1>4, <1>5, <1>7 DEF WindowNext
<1> QED
  BY <1>1, <1>6, FollowPrimes

-------------------------------------------------------------------------------
(* Stretches of a dataset, whatever dataset they are taken from *)

LEMMA DatablePart ==
  ASSUME NEW rows, Datable(rows), NEW T, T \subseteq rows
  PROVE  Datable(T)
<1>1. IsFiniteSet(T)
  BY FS_Subset DEF Datable
<1> QED
  BY <1>1 DEF Datable

Distinct(list) == \A i, j \in DOMAIN list : list[i] = list[j] => i = j

\* The rows of a list without repetitions are as many as its places.
LEMMA DistinctCounted ==
  ASSUME NEW R, NEW list \in Seq(R), Distinct(list)
  PROVE  IsFiniteSet(ToSet(list)) /\ Cardinality(ToSet(list)) = Len(list)
<1>1. Len(list) \in Nat /\ DOMAIN list = 1 .. Len(list)
  BY LenProperties
<1> DEFINE f == [i \in 1 .. Len(list) |-> list[i]]
<1>2. IsFiniteSet(1 .. Len(list)) /\ Cardinality(1 .. Len(list)) = Len(list)
  BY <1>1, FS_Interval
<1>3. f \in Surjection(1 .. Len(list), ToSet(list))
  BY <1>1 DEF Surjection, ToSet
<1>4. f \in Injection(1 .. Len(list), ToSet(list))
  BY <1>1, <1>3 DEF Injection, IsInjective, Surjection, Distinct
<1> HIDE DEF f
<1> QED
  BY <1>2, <1>3, <1>4, FS_Surjection

\* A list in the order of time is the listing of its rows.
LEMMA AscendingListed ==
  ASSUME NEW R, NEW list \in Seq(R), Datable(ToSet(list)),
         \A i, j \in DOMAIN list : i < j => Earlier(list[i], list[j])
  PROVE  InOrder(ToSet(list)) = list /\ Distinct(list)
<1> DEFINE rows == ToSet(list)
           g == InOrder(rows)
<1>1. Len(list) \in Nat /\ DOMAIN list = 1 .. Len(list) /\ \A i \in DOMAIN list : list[i] \in rows
  BY LenProperties DEF ToSet
<1>2. \A row \in rows : ~Earlier(row, row) /\ \A other \in rows : ~(Earlier(row, other) /\ Earlier(other, row))
  BY DEF Earlier, Datable
<1>3. ASSUME NEW i \in DOMAIN list, NEW j \in DOMAIN list PROVE Earlier(list[i], list[j]) <=> i < j
  <2>1. i \in Int /\ j \in Int
    BY <1>1
  <2>2. i = j => ~Earlier(list[i], list[j])
    BY <1>1, <1>2
  <2>3. j < i => ~Earlier(list[i], list[j])
    BY <1>1, <1>2
  <2> QED
    BY <2>1, <2>2, <2>3
<1>4. Distinct(list)
  <2> SUFFICES ASSUME NEW i \in DOMAIN list, NEW j \in DOMAIN list, list[i] = list[j] PROVE i = j
    BY DEF Distinct
  <2>1. ~(i < j) /\ ~(j < i)
    BY <1>1, <1>2, <1>3
  <2> QED
    BY <1>1, <2>1
<1>5. Cardinality(rows) = Len(list)
  BY <1>4, DistinctCounted
<1>6. ASSUME NEW n \in 1 .. Len(list) PROVE Place(rows, list[n]) = n
  <2> DEFINE h == SubSeq(list, 1, n - 1)
  <2>1. /\ h \in Seq(R) /\ Len(h) = n - 1
        /\ \A i \in 1 .. n - 1 : h[i] = list[i] /\ i \in DOMAIN list
    <3>1. 1 \in 1 .. Len(list) /\ n - 1 \in 1 - 1 .. Len(list) /\ (n - 1) - 1 + 1 = n - 1
      BY <1>1
    <3>2. /\ h \in Seq(R) /\ Len(h) = n - 1
          /\ \A i \in 1 .. n - 1 : h[i] = list[1 + i - 1]
      <4> HIDE DEF h
      <4> QED
        BY <3>1, PartOf DEF h
    <3>3. \A i \in 1 .. n - 1 : 1 + i - 1 = i /\ i \in 1 .. Len(list)
      BY <1>1
    <3> QED
      BY <1>1, <3>2, <3>3
  <2> HIDE DEF h
  <2>2. DOMAIN h = 1 .. n - 1
    BY <2>1, LenProperties
  <2>3. Distinct(h)
    BY <1>4, <2>1, <2>2 DEF Distinct
  <2>4. Before(rows, list[n]) = ToSet(h)
    <3>1. ASSUME NEW row \in Before(rows, list[n]) PROVE row \in ToSet(h)
      <4>1. PICK i \in DOMAIN list : row = list[i]
        BY DEF Before, ToSet
      <4>2. i < n
        BY <1>1, <1>3, <4>1 DEF Before
      <4>3. i \in 1 .. n - 1
        BY <1>1, <4>2
      <4> QED
        BY <2>1, <2>2, <4>1, <4>3 DEF ToSet
    <3>2. ASSUME NEW row \in ToSet(h) PROVE row \in Before(rows, list[n])
      <4>1. PICK i \in 1 .. n - 1 : row = h[i]
        BY <2>2 DEF ToSet
      <4>2. row = list[i] /\ i \in DOMAIN list /\ i < n
        BY <2>1, <4>1
      <4> QED
        BY <1>1, <1>3, <4>2 DEF Before
    <3> QED
      BY <3>1, <3>2
  <2>5. Cardinality(ToSet(h)) = n - 1
    BY <2>1, <2>3, DistinctCounted
  <2> QED
    BY <2>4, <2>5 DEF Place
<1>7. /\ g \in Seq(rows) /\ Len(g) = Len(list)
      /\ \A row \in rows : g[Place(rows, row)] = row
  BY <1>5, OrderPlaces
<1>8. \A n \in 1 .. Len(list) : g[n] = list[n]
  BY <1>1, <1>6, <1>7
<1> HIDE DEF g
<1>9. list \in Seq(rows)
  BY <1>1, SeqDef
<1> HIDE DEF rows
<1>10. g = list
  BY <1>7, <1>8, <1>9, SeqEqual
<1> QED
  BY <1>4, <1>10 DEF g, rows

\* Rows in order that leave none between them out.
Streak(rows, size, w) ==
    /\ w \in Seq(rows) /\ Len(w) = size
    /\ \A i, j \in DOMAIN w : i < j => Earlier(w[i], w[j])
    /\ \A row \in rows : ~Earlier(row, w[1]) /\ ~Earlier(Last(w), row) => row \in ToSet(w)

\* They are what the stretches of a dataset are.
LEMMA StretchIsRun ==
  ASSUME NEW rows, Datable(rows), NEW size \in Nat, size >= 1, NEW w \in Stretches(InOrder(rows), size)
  PROVE  Streak(rows, size, w)
<1> DEFINE list == InOrder(rows)
           n == Cardinality(rows)
<1>1. /\ list \in Seq(rows) /\ Len(list) = n /\ n \in Nat /\ DOMAIN list = 1 .. n
      /\ \A row \in rows : Place(rows, row) \in 1 .. n /\ list[Place(rows, row)] = row
  BY OrderPlaces
<1>2. \A i, j \in 1 .. n : i < j => Earlier(list[i], list[j])
  BY <1>1, OrderListed
<1>w. w \in Stretches(list, size)
  OBVIOUS
<1> HIDE DEF list, n
<1>3. PICK a \in 1 .. n, b \in 1 .. n :
         a <= b /\ b - a + 1 = size /\ w = SubSeq(list, a, b) /\ w[1] = list[a] /\ Last(w) = list[b]
  BY <1>1, <1>w, StretchIn
<1>4. a \in Int /\ b \in Int /\ b \in a - 1 .. n
  BY <1>1, <1>3
<1>5. /\ w \in Seq(rows) /\ Len(w) = b - a + 1 /\ DOMAIN w = 1 .. b - a + 1
      /\ \A i \in 1 .. b - a + 1 : w[i] = list[a + i - 1]
  BY <1>1, <1>3, <1>4, PartOf
<1>6. \A i, j \in DOMAIN w : i < j => Earlier(w[i], w[j])
  <2> SUFFICES ASSUME NEW i \in 1 .. b - a + 1, NEW j \in 1 .. b - a + 1, i < j
               PROVE  Earlier(w[i], w[j])
    BY <1>5
  <2>1. a + i - 1 \in 1 .. n /\ a + j - 1 \in 1 .. n /\ a + i - 1 < a + j - 1
    BY <1>1, <1>3, <1>4
  <2> QED
    BY <1>2, <1>5, <2>1
<1>7. ASSUME NEW row \in rows, ~Earlier(row, w[1]), ~Earlier(Last(w), row) PROVE row \in ToSet(w)
  <2> DEFINE p == Place(rows, row)
  <2>1. p \in 1 .. n /\ list[p] = row
    BY <1>1
  <2> HIDE DEF p
  <2>2. ~(p < a) /\ ~(b < p)
    BY <1>2, <1>3, <1>7, <2>1
  <2>3. p - a + 1 \in 1 .. b - a + 1 /\ a + (p - a + 1) - 1 = p
    BY <1>1, <1>4, <2>1, <2>2
  <2>4. w[p - a + 1] = row
    BY <1>5, <2>1, <2>3
  <2> QED
    BY <1>5, <2>3, <2>4 DEF ToSet
<1> QED
  BY <1>3, <1>5, <1>6, <1>7 DEF Streak

LEMMA RunIsStretch ==
  ASSUME NEW rows, Datable(rows), NEW size \in Nat, size >= 1, NEW w, Streak(rows, size, w)
  PROVE  w \in Stretches(InOrder(rows), size)
<1> DEFINE list == InOrder(rows)
           n == Cardinality(rows)
           a == Place(rows, w[1])
           b == Place(rows, Last(w))
           v == SubSeq(list, a, b)
<1>1. /\ list \in Seq(rows) /\ Len(list) = n /\ n \in Nat /\ DOMAIN list = 1 .. n
      /\ \A i \in 1 .. n : list[i] \in rows /\ Place(rows, list[i]) = i
      /\ \A row \in rows : Place(rows, row) \in 1 .. n /\ list[Place(rows, row)] = row
  BY OrderPlaces
<1>2. \A i, j \in 1 .. n : i < j => Earlier(list[i], list[j])
  BY <1>1, OrderListed
<1>3. w \in Seq(rows) /\ Len(w) = size /\ DOMAIN w = 1 .. size /\ 1 \in 1 .. size /\ size \in 1 .. size
  BY LenProperties DEF Streak
<1>4. \A i \in 1 .. size : w[i] \in rows
  BY <1>3, ElementOfSeq
<1>5. \A i, j \in 1 .. size : i < j => Earlier(w[i], w[j])
  BY <1>3 DEF Streak
<1>6. Last(w) = w[size]
  BY <1>3 DEF Last
<1>7. a \in 1 .. n /\ b \in 1 .. n /\ list[a] = w[1] /\ list[b] = Last(w)
  BY <1>1, <1>3, <1>4, <1>6
<1> HIDE DEF n, list
<1>8. ASSUME NEW i \in 1 .. size PROVE Place(rows, w[i]) \in a .. b
  <2>1. Place(rows, w[i]) \in 1 .. n
    BY <1>1, <1>4
  <2>2. i = 1 \/ a < Place(rows, w[i])
    <3>1. i # 1 => 1 < i
      BY <1>3
    <3>2. i # 1 => Earlier(w[1], w[i])
      BY <1>3, <1>5, <3>1
    <3> QED
      BY <1>3, <1>4, <3>2, PlaceGrows
  <2>3. i = size \/ Place(rows, w[i]) < b
    <3>1. i # size => i < size
      BY <1>3
    <3>2. i # size => Earlier(w[i], w[size])
      BY <1>3, <1>5, <3>1
    <3> QED
      BY <1>3, <1>4, <1>6, <3>2, PlaceGrows
  <2>4. i = 1 => Place(rows, w[i]) = a
    OBVIOUS
  <2>5. i = size => Place(rows, w[i]) = b
    BY <1>6
  <2> HIDE DEF a, b
  <2> QED
    BY <1>1, <1>7, <2>1, <2>2, <2>3, <2>4, <2>5
<1>9. a <= b
  <2>1. Place(rows, w[1]) \in a .. b
    BY <1>3, <1>8
  <2> HIDE DEF b
  <2> QED
    BY <1>1, <1>7, <2>1
<1> HIDE DEF a, b
<1>10. a \in Int /\ b \in Int /\ b \in a - 1 .. n /\ b \in a .. n
  BY <1>1, <1>7, <1>9
<1>11. /\ v \in Seq(rows) /\ Len(v) = b - a + 1 /\ DOMAIN v = 1 .. b - a + 1
       /\ \A i \in 1 .. b - a + 1 : v[i] = list[a + i - 1]
  BY <1>1, <1>7, <1>10, PartOf
<1> HIDE DEF v
<1>12. \A i, j \in DOMAIN v : i < j => Earlier(v[i], v[j])
  <2> SUFFICES ASSUME NEW i \in 1 .. b - a + 1, NEW j \in 1 .. b - a + 1, i < j
               PROVE  Earlier(v[i], v[j])
    BY <1>11
  <2>1. a + i - 1 \in 1 .. n /\ a + j - 1 \in 1 .. n /\ a + i - 1 < a + j - 1
    BY <1>1, <1>7, <1>10
  <2> QED
    BY <1>2, <1>11, <2>1
<1>13. ASSUME NEW i \in 1 .. b - a + 1 PROVE v[i] \in ToSet(w)
  <2> DEFINE p == a + i - 1
  <2>0. v[i] = list[p]
    BY <1>11
  <2>1. p \in 1 .. n /\ v[i] = list[p] /\ ~(p < a) /\ ~(b < p)
    <3>1. a \in 1 .. n /\ b \in 1 .. n /\ n \in Nat
      BY <1>1, <1>7
    <3> HIDE DEF n, list
    <3>2. p \in 1 .. n /\ ~(p < a) /\ ~(b < p)
      BY <3>1
    <3> QED
      BY <2>0, <3>2
  <2> HIDE DEF p
  <2>2. list[p] \in rows /\ Place(rows, list[p]) = p
    BY <1>1, <2>1
  <2>3. w[1] \in rows /\ Last(w) \in rows /\ Place(rows, w[1]) = a /\ Place(rows, Last(w)) = b
    BY <1>3, <1>4, <1>6 DEF a, b
  <2>4. ~Earlier(list[p], w[1]) /\ ~Earlier(Last(w), list[p])
    BY <2>1, <2>2, <2>3, PlaceGrows
  <2> QED
    BY <2>1, <2>2, <2>4 DEF Streak
<1>14. ASSUME NEW i \in 1 .. size PROVE w[i] \in ToSet(v)
  <2> DEFINE p == Place(rows, w[i])
  <2>1. p \in a .. b /\ list[p] = w[i]
    BY <1>1, <1>4, <1>8
  <2> HIDE DEF p
  <2>2. p - a + 1 \in 1 .. b - a + 1 /\ a + (p - a + 1) - 1 = p
    BY <1>10, <2>1
  <2>3. v[p - a + 1] = w[i]
    BY <1>11, <2>1, <2>2
  <2> QED
    BY <1>11, <2>2, <2>3 DEF ToSet
<1>15. ToSet(v) = ToSet(w)
  <2>1. ToSet(v) \subseteq ToSet(w)
    BY <1>11, <1>13 DEF ToSet
  <2>2. ToSet(w) \subseteq ToSet(v)
    BY <1>3, <1>14 DEF ToSet
  <2> QED
    BY <2>1, <2>2
<1>16. Datable(ToSet(w))
  <2>1. ToSet(w) \subseteq rows
    BY <1>3, <1>4 DEF ToSet
  <2> QED
    BY <2>1, DatablePart
<1>17. v = w
  <2>1. InOrder(ToSet(v)) = v
    BY <1>11, <1>12, <1>15, <1>16, AscendingListed
  <2>2. InOrder(ToSet(w)) = w
    BY <1>3, <1>5, <1>16, AscendingListed
  <2> QED
    BY <1>15, <2>1, <2>2
<1>18. size = b - a + 1
  BY <1>3, <1>11, <1>17
<1>19. a \in 1 .. Len(list) - size + 1 /\ w = SubSeq(list, a, a + size - 1)
  <2>1. a + size - 1 = b /\ a \in 1 .. Len(list) - size + 1
    BY <1>1, <1>7, <1>10, <1>18
  <2> QED
    BY <1>17, <2>1 DEF v
<1> QED
  BY <1>19 DEF Stretches, list

\* A stretch is one of every dataset in between.
LEMMA StretchNarrowed ==
  ASSUME NEW rows, Datable(rows), NEW T, T \subseteq rows, NEW size \in Nat, size >= 1,
         NEW w \in Stretches(InOrder(rows), size), ToSet(w) \subseteq T
  PROVE  w \in Stretches(InOrder(T), size)
<1>1. Streak(rows, size, w)
  BY StretchIsRun
<1>2. w \in Seq(T)
  <2>1. w \in Seq(rows)
    BY <1>1 DEF Streak
  <2>2. \A i \in 1 .. Len(w) : w[i] \in T
    BY <2>1, LenProperties DEF ToSet
  <2> QED
    BY <2>1, <2>2, LenProperties, SeqDef
<1>3. Streak(T, size, w)
  BY <1>1, <1>2 DEF Streak
<1> QED
  BY <1>3, DatablePart, RunIsStretch

-------------------------------------------------------------------------------
(* Online and offline *)

\* The stretches of the segments that preparation makes of some of the rows.
LEMMA PreparedStretches ==
  ASSUME NEW table, Log(table), NEW skipped, NEW size \in Nat, size >= Window
  PROVE  UNION {Stretches(segment, size) : segment \in Prepare(OwnOf(table, skipped))}
           = {w \in Stretches(InOrder(OwnOf(table, skipped)), size) : Contiguous(w)}
<1> DEFINE list == InOrder(OwnOf(table, skipped))
<1>1. Prepare(OwnOf(table, skipped)) = {segment \in Cut(list) : Len(segment) >= Window}
  BY OwnListed DEF Prepare
<1>2. list \in Seq(Rows)
  BY OwnInOrder
<1> HIDE DEF list
<1>3. UNION {Stretches(segment, size) : segment \in {s \in Cut(list) : Len(s) >= Window}}
        = {w \in Stretches(list, size) : Contiguous(w)}
  BY <1>2, StretchesOfSegments
<1> QED
  BY <1>1, <1>3 DEF list

\* Where no row was skipped the stretches are those of the whole table.
LEMMA IntactStretch ==
  ASSUME NEW table, Log(table), NEW skipped, NEW size \in Nat, size >= 1, NEW w,
         \A row \in OwnOf(table, {}) :
            w[1].id <= row.id /\ row.id <= Last(w).id => row.id \notin skipped
  PROVE  w \in Stretches(InOrder(OwnOf(table, {})), size)
           <=> w \in Stretches(InOrder(OwnOf(table, skipped)), size)
<1> DEFINE A == OwnOf(table, {})
           B == OwnOf(table, skipped)
<1>1. /\ Datable(A) /\ \A row \in A : row.id \in Int /\ row.at \in Int
      /\ \A a, b \in A : Earlier(a, b) => a.id < b.id
  BY OwnListed DEF Datable
<1>2. Datable(B) /\ B \subseteq A
  BY OwnListed DEF OwnOf
<1>3. \A row \in A : row.id \notin skipped => row \in B
  BY DEF OwnOf
<1>i. \A row \in A : w[1].id <= row.id /\ row.id <= Last(w).id => row.id \notin skipped
  OBVIOUS
<1>c. \A a, b \in A : a = b \/ Earlier(a, b) \/ Earlier(b, a)
  <2> SUFFICES ASSUME NEW a \in A, NEW b \in A PROVE a = b \/ Earlier(a, b) \/ Earlier(b, a)
    OBVIOUS
  <2>1. /\ a.at \in Int /\ a.id \in Int /\ b.at \in Int /\ b.id \in Int
        /\ a.at = b.at /\ a.id = b.id => a = b
    BY <1>1 DEF Datable
  <2> QED
    BY <2>1 DEF Earlier
<1> HIDE DEF A, B
<1>4. ASSUME w \in Stretches(InOrder(A), size) PROVE w \in Stretches(InOrder(B), size)
  <2>1. Streak(A, size, w)
    BY <1>1, <1>4, StretchIsRun
  <2>2. /\ w \in Seq(A) /\ DOMAIN w = 1 .. size /\ Len(w) = size /\ 1 \in 1 .. size /\ size \in 1 .. size
        /\ \A i, j \in 1 .. size : i < j => Earlier(w[i], w[j])
    BY <2>1, LenProperties DEF Streak
  <2>3. \A i \in 1 .. size : w[i] \in A
    BY <2>2, ElementOfSeq
  <2>4. ASSUME NEW i \in 1 .. size PROVE w[i] \in B
    <3>1. i = 1 \/ Earlier(w[1], w[i])
      <4>1. i = 1 \/ 1 < i
        OBVIOUS
      <4> QED
        BY <2>2, <4>1
    <3>2. i = size \/ Earlier(w[i], w[size])
      <4>1. i = size \/ i < size
        OBVIOUS
      <4> QED
        BY <2>2, <4>1
    <3>3. Last(w) = w[size]
      BY <2>2 DEF Last
    <3>4. w[1].id <= w[i].id /\ w[i].id <= w[size].id
      <4>1. w[1] \in A /\ w[i] \in A /\ w[size] \in A
        BY <2>2, <2>3
      <4>2. w[1].id \in Int /\ w[i].id \in Int /\ w[size].id \in Int
        BY <1>1, <4>1
      <4>3. i = 1 \/ w[1].id < w[i].id
        BY <1>1, <3>1, <4>1
      <4>4. i = size \/ w[i].id < w[size].id
        BY <1>1, <3>2, <4>1
      <4> QED
        BY <4>2, <4>3, <4>4
    <3> QED
      BY <1>3, <1>i, <2>3, <3>3, <3>4
  <2>5. ToSet(w) \subseteq B
    BY <2>2, <2>4 DEF ToSet
  <2> QED
    BY <1>1, <1>2, <1>4, <2>5, StretchNarrowed
<1>5. ASSUME w \in Stretches(InOrder(B), size) PROVE w \in Stretches(InOrder(A), size)
  <2>1. Streak(B, size, w)
    BY <1>2, <1>5, StretchIsRun
  <2>2. w \in Seq(A) /\ w \in Seq(B) /\ DOMAIN w = 1 .. size /\ Len(w) = size
        /\ 1 \in 1 .. size /\ size \in 1 .. size
    <3>1. w \in Seq(B) /\ Len(w) = size
      BY <2>1 DEF Streak
    <3>2. w \in Seq(A)
      BY <1>2, <3>1, SeqMonotonic
    <3> QED
      BY <3>1, <3>2, LenProperties
  <2>3. w[1] \in A /\ Last(w) \in A
    BY <2>2, ElementOfSeq DEF Last
  <2>4. ASSUME NEW row \in A, ~Earlier(row, w[1]), ~Earlier(Last(w), row) PROVE row \in ToSet(w)
    <3>1. (row = w[1] \/ Earlier(w[1], row)) /\ (row = Last(w) \/ Earlier(row, Last(w)))
      BY <1>c, <2>3, <2>4
    <3>2. row.id \in Int /\ w[1].id \in Int /\ Last(w).id \in Int
      BY <1>1, <2>3
    <3>3. (row = w[1] \/ w[1].id < row.id) /\ (row = Last(w) \/ row.id < Last(w).id)
      BY <1>1, <2>3, <3>1
    <3>4. w[1].id <= row.id /\ row.id <= Last(w).id
      BY <3>2, <3>3
    <3>5. row \in B
      BY <1>3, <1>i, <3>4
    <3> QED
      BY <2>1, <2>4, <3>5 DEF Streak
  <2>5. Streak(A, size, w)
    BY <2>1, <2>2, <2>4 DEF Streak
  <2> QED
    BY <1>1, <2>5, RunIsStretch
<1> QED
  BY <1>4, <1>5 DEF A, B

\* The datasets of the module are the owner's rows of the table.
LEMMA Datasets ==
  /\ Captured = OwnOf(stored, {}) /\ OfflineSegments = Prepare(OwnOf(stored, {}))
  /\ Evaluated = OwnOf(stored, unseen) /\ OnlineSegments = Prepare(OwnOf(stored, unseen))
BY DEF Captured, Evaluated, OfflineSegments, OnlineSegments, OwnOf

LEMMA EvaluatedWhole ==
  ASSUME FollowInv, NEW size \in Nat, size >= Window
  PROVE  Whole(InOrder(OwnOf(stored, unseen)), cuts, size)
           = {w \in UNION {Stretches(segment, size) : segment \in OnlineSegments} : Undivided(w)}
<1> DEFINE list == InOrder(OwnOf(stored, unseen))
<1>1. Log(stored)
  BY DEF FollowInv, Follows
<1>2. UNION {Stretches(segment, size) : segment \in OnlineSegments}
        = {w \in Stretches(list, size) : Contiguous(w)}
  BY <1>1, Datasets, PreparedStretches
<1>3. Whole(list, cuts, size) = {w \in {v \in Stretches(list, size) : Contiguous(v)} : Undivided(w)}
  BY DEF Whole, Undivided
<1> QED
  BY <1>2, <1>3

\* An intact stretch belongs to a segment of the evaluated rows exactly if it
\* belongs to one of the stored rows.
LEMMA IntactSegments ==
  ASSUME FollowInv, NEW size \in Nat, size >= Window, NEW w, Intact(w)
  PROVE  w \in UNION {Stretches(segment, size) : segment \in OnlineSegments}
           <=> w \in UNION {Stretches(segment, size) : segment \in OfflineSegments}
<1>1. Log(stored) /\ size >= 1
  BY Sizes DEF FollowInv, Follows
<1>2. \A row \in OwnOf(stored, {}) :
         w[1].id <= row.id /\ row.id <= Last(w).id => row.id \notin unseen
  BY Datasets DEF Intact
<1>3. w \in Stretches(InOrder(OwnOf(stored, {})), size)
        <=> w \in Stretches(InOrder(OwnOf(stored, unseen)), size)
  BY <1>1, <1>2, IntactStretch
<1>4. UNION {Stretches(segment, size) : segment \in OnlineSegments}
        = {v \in Stretches(InOrder(OwnOf(stored, unseen)), size) : Contiguous(v)}
  BY <1>1, Datasets, PreparedStretches
<1>5. UNION {Stretches(segment, size) : segment \in OfflineSegments}
        = {v \in Stretches(InOrder(OwnOf(stored, {})), size) : Contiguous(v)}
  BY <1>1, Datasets, PreparedStretches
<1> QED
  BY <1>3, <1>4, <1>5

\* The windows the model is asked about online are those offline preparation
\* cuts from the rows it was given, except those a restart divided, and of the
\* stored rows wherever none went unevaluated, for every history of readings,
\* reboots, gaps, restarts and failures (preprocess.py:86, adapter.py:180).
THEOREM OnlineIsOffline == WindowSpec => []SameWindows
<1>1. WindowInit => FollowInv
  BY FollowInit
<1>2. FollowInv /\ [WindowNext]_windowVars => FollowInv'
  BY FollowSteps
<1>3. ASSUME FollowInv PROVE SameWindows
  <2> DEFINE online == UNION {Stretches(segment, Window) : segment \in OnlineSegments}
             offline == UNION {Stretches(segment, Window) : segment \in OfflineSegments}
  <2>1. scored = Whole(InOrder(OwnOf(stored, unseen)), cuts, Window)
    BY <1>3 DEF FollowInv, Follows
  <2>2. Whole(InOrder(OwnOf(stored, unseen)), cuts, Window) = {w \in online : Undivided(w)}
    BY <1>3, EvaluatedWhole, Sizes
  <2>3. BuildMatrix(OnlineSegments) = online /\ BuildMatrix(OfflineSegments) = offline
    BY DEF BuildMatrix, SegmentMatrix
  <2>4. \A w : Intact(w) => (w \in online <=> w \in offline)
    BY <1>3, IntactSegments, Sizes
  <2> HIDE DEF online, offline
  <2>5. scored = {w \in online : Undivided(w)}
    BY <2>1, <2>2
  <2>6. {w \in scored : Intact(w)} = {w \in offline : Undivided(w) /\ Intact(w)}
    BY <2>4, <2>5
  <2> QED
    BY <2>3, <2>5, <2>6 DEF SameWindows
<1> QED
  BY <1>1, <1>2, <1>3, PTL DEF WindowSpec

-------------------------------------------------------------------------------
(* The offline flags: the rows that windows end at, in order, and the places *)
(* of those that follow one another in a stretch.                            *)

Listed(list) ==
    /\ list \in Seq(Rows)
    /\ \A i, j \in DOMAIN list : i < j => Earlier(list[i], list[j])

\* Neighbours in the list that are both anchors are neighbours among the anchors.
LEMMA PlacesFollow ==
  ASSUME NEW list, Listed(list), NEW A, A \subseteq ToSet(list), Datable(A),
         NEW k \in 1 .. Len(list) - 1, list[k] \in A, list[k + 1] \in A
  PROVE  Place(A, list[k + 1]) = Place(A, list[k]) + 1
<1>1. Len(list) \in Nat /\ DOMAIN list = 1 .. Len(list) /\ k \in DOMAIN list /\ k + 1 \in DOMAIN list /\ k \in Int
  BY LenProperties DEF Listed
<1>2. ASSUME NEW i \in DOMAIN list PROVE list[i].at \in Int /\ list[i].id \in Int
  <2>1. list[i] \in Rows
    BY <1>1, ElementOfSeq DEF Listed
  <2> QED
    BY <2>1 DEF Rows
<1>3. ASSUME NEW i \in DOMAIN list, NEW j \in DOMAIN list PROVE Earlier(list[i], list[j]) <=> i < j
  <2>1. i \in Int /\ j \in Int
    BY <1>1
  <2>2. /\ i < j => Earlier(list[i], list[j])
        /\ j < i => Earlier(list[j], list[i])
    BY DEF Listed
  <2>3. ~(Earlier(list[i], list[j]) /\ Earlier(list[j], list[i]))
    BY <1>2 DEF Earlier
  <2>4. i = j => ~Earlier(list[i], list[j])
    BY <1>2 DEF Earlier
  <2> QED
    BY <2>1, <2>2, <2>3, <2>4
<1>4. \A x \in A : \E i \in DOMAIN list : x = list[i]
  BY DEF ToSet
<1>5. ASSUME NEW x \in A PROVE Earlier(x, list[k + 1]) <=> Earlier(x, list[k]) \/ x = list[k]
  <2>1. PICK i \in DOMAIN list : x = list[i]
    BY <1>4
  <2>2. Earlier(x, list[k + 1]) <=> i < k + 1
    BY <1>1, <1>3, <2>1
  <2>3. Earlier(x, list[k]) <=> i < k
    BY <1>1, <1>3, <2>1
  <2>4. x = list[k] <=> i = k
    <3>1. ASSUME x = list[k] PROVE ~(i < k) /\ ~(k < i)
      <4>1. /\ Earlier(list[i], list[i]) <=> i < i
            /\ Earlier(list[i], list[k]) <=> i < k
            /\ Earlier(list[k], list[i]) <=> k < i
        BY <1>1, <1>3
      <4>2. list[i] = list[k] /\ ~(i < i)
        BY <1>1, <2>1, <3>1
      <4> QED
        BY <4>1, <4>2
    <3>2. i \in Int
      BY <1>1
    <3> QED
      BY <1>1, <2>1, <3>1, <3>2
  <2>5. i \in Int
    BY <1>1
  <2> QED
    BY <1>1, <2>2, <2>3, <2>4, <2>5
<1>6. Before(A, list[k + 1]) = Before(A, list[k]) \cup {list[k]}
  BY <1>5 DEF Before
<1>7. list[k] \notin Before(A, list[k])
  BY <1>1, <1>3 DEF Before
<1>8. IsFiniteSet(Before(A, list[k])) /\ Cardinality(Before(A, list[k])) \in Nat
  BY BeforeFinite
<1>9. Cardinality(Before(A, list[k]) \cup {list[k]}) = Cardinality(Before(A, list[k])) + 1
  BY <1>7, <1>8, FS_AddElement
<1> QED
  BY <1>6, <1>9 DEF Place

\* Counting back from the last row of a stretch of anchors counts back among
\* the anchors.
LEMMA PlacesRun ==
  ASSUME NEW list, Listed(list), NEW A, A \subseteq ToSet(list), Datable(A),
         NEW b \in 1 .. Len(list), NEW c \in 1 .. b,
         \A k \in b - c + 1 .. b : list[k] \in A
  PROVE  \A d \in 0 .. c - 1 : Place(A, list[b - d]) = Place(A, list[b]) - d
<1> DEFINE bad == {d \in 0 .. c - 1 : Place(A, list[b - d]) # Place(A, list[b]) - d}
<1>0. b \in Int /\ c \in Int /\ Len(list) \in Nat
  BY LenProperties DEF Listed
<1> SUFFICES ASSUME bad # {} PROVE FALSE
  OBVIOUS
<1>1. bad \in SUBSET Nat
  <2>1. \A d \in 0 .. c - 1 : d \in Nat
    BY <1>0
  <2> QED
    BY <2>1
<1>2. PICK m \in bad : \A d \in bad : m <= d
  <2> HIDE DEF bad
  <2> QED
    BY <1>1, LeastNat
<1>3. m \in 0 .. c - 1 /\ Place(A, list[b - m]) # Place(A, list[b]) - m /\ m \in Int
  BY <1>0, <1>2
<1>4. \A d \in 0 .. c - 1 : b - d \in b - c + 1 .. b
  BY <1>0
<1>5. \A d \in 0 .. c - 1 : Place(A, list[b - d]) \in Int
  <2> SUFFICES ASSUME NEW d \in 0 .. c - 1 PROVE Place(A, list[b - d]) \in Int
    OBVIOUS
  <2>1. list[b - d] \in A
    BY <1>4
  <2> QED
    BY <2>1, BeforeFinite
<1>6. m # 0
  <2>1. 0 \in 0 .. c - 1 /\ b - 0 = b
    BY <1>0
  <2>2. Place(A, list[b]) \in Int
    BY <1>5, <2>1
  <2> QED
    BY <1>3, <2>1, <2>2
<1>7. m - 1 \in 0 .. c - 1 /\ m - 1 \notin bad
  <2>1. m - 1 \in 0 .. c - 1 /\ ~(m <= m - 1)
    BY <1>0, <1>3, <1>6
  <2> HIDE DEF bad
  <2> QED
    BY <1>2, <2>1
<1>8. Place(A, list[b - (m - 1)]) = Place(A, list[b]) - (m - 1)
  BY <1>7
<1> DEFINE k == b - m
<1>9. k \in 1 .. Len(list) - 1 /\ k + 1 = b - (m - 1)
  BY <1>0, <1>3, <1>6
<1>10. list[k] \in A /\ list[k + 1] \in A
  BY <1>3, <1>4, <1>7, <1>9
<1>11. Place(A, list[k]) = Place(A, list[b - m])
  OBVIOUS
<1> HIDE DEF k, bad
<1>12. Place(A, list[k + 1]) = Place(A, list[k]) + 1
  BY <1>9, <1>10, PlacesFollow
<1>13. /\ Place(A, list[b - m]) \in Int /\ Place(A, list[b]) \in Int
  <2>1. 0 \in 0 .. c - 1 /\ b - 0 = b
    BY <1>0
  <2> QED
    BY <1>3, <1>5, <2>1
<1> DEFINE x == Place(A, list[b - m])
           y == Place(A, list[b])
<1>14. x + 1 = y - (m - 1)
  BY <1>8, <1>9, <1>11, <1>12
<1>15. x \in Int /\ y \in Int /\ x # y - m
  BY <1>3, <1>13
<1> HIDE DEF x, y
<1> QED
  BY <1>3, <1>14, <1>15

\* The last row of a sustained stretch is flagged.
LEMMA SustainedFlagged ==
  ASSUME NEW list, Listed(list), Datable(ToSet(list)),
         NEW s \in Stretches(list, VerdictSize), Contiguous(s), Sustained(s)
  PROVE  Last(s).id \in Flagged({w \in Stretches(list, Window) : Contiguous(w)})
<1> DEFINE W == {w \in Stretches(list, Window) : Contiguous(w)}
           A == {Last(w) : w \in W}
           anchors == InOrder(A)
           high(i) == \E w \in W : Last(w) = anchors[i] /\ Extreme(w)
           above == [i \in DOMAIN anchors |-> high(i)]
<1>1. list \in Seq(Rows) /\ Len(list) \in Nat /\ DOMAIN list = 1 .. Len(list)
  BY LenProperties DEF Listed
<1>2. /\ Window \in Nat /\ Window >= 2 /\ VerdictSize \in Nat /\ VerdictSize >= 1
      /\ Window >= 1 /\ VerdictSize >= Window
      /\ Consecutive \in Nat /\ Consecutive >= 1 /\ VerdictSize = Window + Consecutive - 1
  BY Sizes DEF VerdictSize
<1>3. PICK a \in 1 .. Len(list), b \in 1 .. Len(list) :
         /\ a <= b /\ b - a + 1 = VerdictSize /\ s = SubSeq(list, a, b)
         /\ s[1] = list[a] /\ Last(s) = list[b] /\ Len(s) = VerdictSize
  <2> HIDE DEF W, A, anchors, high, above
  <2>1. s \in Stretches(list, VerdictSize) /\ list \in Seq(Rows)
        /\ VerdictSize \in Nat /\ VerdictSize >= 1
    BY <1>1, <1>2
  <2> QED
    BY <2>1, StretchIn, Zenon
<1>4. a \in Int /\ b \in Int /\ b \in a .. Len(list) /\ b \in a - 1 .. Len(list)
  BY <1>1, <1>3
<1>5. Joined(list, a, b)
  BY <1>1, <1>3, <1>4, JoinedPart
<1>6. High(list, a, b)
  BY <1>1, <1>3, <1>4, SustainedHigh
<1>7. ASSUME NEW k \in b - Consecutive + 1 .. b
      PROVE  \E w \in W : Last(w) = list[k] /\ Extreme(w)
  <2> DEFINE j == k - Window + 1
             w == SubSeq(list, j, k)
  <2>1. /\ j \in 1 .. Len(list) - Window + 1 /\ j \in 1 .. Len(list) /\ j + Window - 1 = k
        /\ k \in j .. Len(list) /\ k \in j - 1 .. Len(list)
        /\ j \in a .. b - Window + 1 /\ j >= a /\ k <= b /\ j \in Int /\ k \in Int
    BY <1>1, <1>2, <1>3, <1>4
  <2> HIDE DEF j
  <2>2. w = SubSeq(list, j, j + Window - 1) /\ w \in Stretches(list, Window)
    BY <2>1 DEF Stretches
  <2>3. Contiguous(w)
    <3>1. \A i \in j + 1 .. k : i \in a + 1 .. b
      BY <1>4, <2>1
    <3>2. Joined(list, j, k)
      BY <1>5, <3>1 DEF Joined
    <3> QED
      BY <1>1, <2>1, <3>2, JoinedPart
  <2>4. Last(w) = list[k]
    BY <1>1, <2>1, PartEnds
  <2>5. Extreme(w)
    BY <1>6, <2>1, <2>2 DEF High
  <2> HIDE DEF w
  <2> QED
    BY <2>2, <2>3, <2>4, <2>5
<1>8. \A k \in b - Consecutive + 1 .. b : list[k] \in A
  BY <1>7
<1>9. A \subseteq ToSet(list)
  <2> SUFFICES ASSUME NEW w \in W PROVE Last(w) \in ToSet(list)
    OBVIOUS
  <2>1. \E e \in 1 .. Len(list) : Last(w) = list[e]
    BY <1>1, <1>2, StretchIn
  <2> QED
    BY <1>1, <2>1 DEF ToSet
<1> HIDE DEF W, A
<1>10. Datable(A)
  <2>1. IsFiniteSet(A)
    BY <1>9, FS_Subset DEF Datable
  <2> QED
    BY <1>9, <2>1 DEF Datable
<1> DEFINE p == Place(A, list[b])
<1>11. Consecutive \in 1 .. b /\ \A d \in 0 .. Consecutive - 1 : Place(A, list[b - d]) = p - d
  <2>1. Consecutive \in 1 .. b
    BY <1>2, <1>3, <1>4
  <2> QED
    BY <1>8, <1>9, <1>10, <2>1, PlacesRun
<1>12. /\ DOMAIN anchors = 1 .. Cardinality(A) /\ Cardinality(A) \in Nat
       /\ \A row \in A : Place(A, row) \in 1 .. Cardinality(A) /\ anchors[Place(A, row)] = row
  BY <1>10, OrderPlaces
<1>13. ASSUME NEW d \in 0 .. Consecutive - 1
       PROVE  p - d \in DOMAIN anchors /\ anchors[p - d] = list[b - d] /\ high(p - d)
  <2>1. b - d \in b - Consecutive + 1 .. b
    BY <1>2, <1>4
  <2>2. list[b - d] \in A
    BY <1>8, <2>1
  <2>3. p - d \in 1 .. Cardinality(A) /\ anchors[p - d] = list[b - d]
    <3>1. Place(A, list[b - d]) = p - d
      BY <1>11
    <3> HIDE DEF p
    <3> QED
      BY <1>12, <2>2, <3>1
  <2>4. \E w \in W : Last(w) = list[b - d] /\ Extreme(w)
    BY <1>7, <2>1
  <2> QED
    BY <1>12, <2>3, <2>4
<1>14. p \in Int /\ p \in DOMAIN anchors /\ anchors[p] = list[b] /\ p - (Consecutive - 1) >= 1
  <2>1. 0 \in 0 .. Consecutive - 1 /\ Consecutive - 1 \in 0 .. Consecutive - 1
    BY <1>2
  <2>2. b \in b - Consecutive + 1 .. b
    BY <1>2, <1>4
  <2>3. list[b] \in A
    BY <1>8, <2>2
  <2>4. p \in 1 .. Cardinality(A) /\ anchors[p] = list[b]
    BY <1>12, <2>3
  <2>5. p - (Consecutive - 1) \in 1 .. Cardinality(A)
    BY <1>12, <1>13, <2>1
  <2> HIDE DEF p
  <2> QED
    BY <1>12, <2>4, <2>5
<1> HIDE DEF p, anchors, high
<1>15. p >= Consecutive /\ \A i \in p - Consecutive + 1 .. p : i \in DOMAIN anchors /\ high(i)
  <2>1. p >= Consecutive
    BY <1>2, <1>14
  <2>2. ASSUME NEW i \in p - Consecutive + 1 .. p PROVE i \in DOMAIN anchors /\ high(i)
    <3>1. p - i \in 0 .. Consecutive - 1 /\ p - (p - i) = i
      BY <1>2, <1>14
    <3> QED
      BY <1>13, <3>1
  <2> QED
    BY <2>1, <2>2
<1>16. Suppress(above, Consecutive)[p]
  <2>1. p \in DOMAIN above /\ DOMAIN above = DOMAIN anchors
    BY <1>14
  <2>2. \A i \in p - Consecutive + 1 .. p : above[i]
    BY <1>15
  <2> HIDE DEF above
  <2> QED
    BY <1>15, <2>1, <2>2 DEF Suppress
<1>17. Last(s).id = anchors[p].id
  BY <1>3, <1>14
<1>18. Flagged(W) = {anchors[i].id : i \in {j \in DOMAIN anchors : Suppress(above, Consecutive)[j]}}
  BY DEF Flagged, anchors, A, above, high
<1> HIDE DEF above
<1>19. Last(s).id \in Flagged(W)
  BY <1>14, <1>16, <1>17, <1>18
<1> QED
  BY <1>19 DEF W

\* A sustained stretch of prepared rows is flagged by their evaluation.
LEMMA PreparedFlagged ==
  ASSUME NEW table, Log(table), NEW skipped, NEW s, Sustained(s),
         s \in UNION {Stretches(segment, VerdictSize) : segment \in Prepare(OwnOf(table, skipped))}
  PROVE  Last(s).id \in Flagged(BuildMatrix(Prepare(OwnOf(table, skipped))))
<1> DEFINE list == InOrder(OwnOf(table, skipped))
<1>1. s \in Stretches(list, VerdictSize) /\ Contiguous(s)
  BY PreparedStretches, Sizes
<1>2. Listed(list) /\ Datable(ToSet(list))
  <2>1. Datable(OwnOf(table, skipped))
    BY OwnListed
  <2> QED
    BY <2>1, OrderListed, OwnInOrder DEF Listed
<1>3. BuildMatrix(Prepare(OwnOf(table, skipped))) = {w \in Stretches(list, Window) : Contiguous(w)}
  BY PreparedStretches, Sizes DEF BuildMatrix, SegmentMatrix
<1> HIDE DEF list
<1>4. Last(s).id \in Flagged({w \in Stretches(list, Window) : Contiguous(w)})
  BY <1>1, <1>2, SustainedFlagged
<1> QED
  BY <1>3, <1>4

\* A verdict is given online about exactly the readings that end a run of high
\* windows in one contiguous stretch of evaluated rows that no restart divided,
\* and the offline evaluation flags every one of them; of the stored rows, every
\* such run that no unevaluated row interrupts gets both (model.py:86,
\* adapter.py:196).
THEOREM VerdictsAreOffline == WindowSpec => []VerdictReproduced
<1>1. WindowInit => FollowInv
  BY FollowInit
<1>2. FollowInv /\ [WindowNext]_windowVars => FollowInv'
  BY FollowSteps
<1>3. ASSUME FollowInv PROVE VerdictReproduced
  <2> DEFINE list == InOrder(OwnOf(stored, unseen))
             online == UNION {Stretches(segment, VerdictSize) : segment \in OnlineSegments}
             offline == UNION {Stretches(segment, VerdictSize) : segment \in OfflineSegments}
  <2>1. verdicts = VerdictsOf(Whole(list, cuts, VerdictSize)) /\ Log(stored)
    BY <1>3 DEF FollowInv, Follows
  <2>2. Whole(list, cuts, VerdictSize) = {w \in online : Undivided(w)}
    BY <1>3, EvaluatedWhole, Sizes
  <2>3. Verdictable(OnlineSegments) = online /\ Verdictable(OfflineSegments) = offline
    BY DEF Verdictable, VerdictSize
  <2>4. \A s : Intact(s) => (s \in online <=> s \in offline)
    BY <1>3, IntactSegments, Sizes
  <2>5. /\ \A s \in online : Sustained(s) => Last(s).id \in Flagged(BuildMatrix(OnlineSegments))
        /\ \A s \in offline : Sustained(s) => Last(s).id \in Flagged(BuildMatrix(OfflineSegments))
    BY <2>1, Datasets, PreparedFlagged
  <2> HIDE DEF list, online, offline
  <2>6. verdicts = {Last(s).id : s \in {w \in online : Sustained(w) /\ Undivided(w)}}
    BY <2>1, <2>2 DEF VerdictsOf
  <2>7. verdicts \subseteq Flagged(BuildMatrix(OnlineSegments))
    BY <2>5, <2>6
  <2>8. ASSUME NEW s \in offline, Sustained(s), Undivided(s), Intact(s)
        PROVE  Last(s).id \in verdicts \cap Flagged(BuildMatrix(OfflineSegments))
    BY <2>4, <2>5, <2>6, <2>8
  <2> QED
    BY <2>3, <2>6, <2>7, <2>8 DEF VerdictReproduced
<1> QED
  BY <1>1, <1>2, <1>3, PTL DEF WindowSpec

-------------------------------------------------------------------------------
(* How many windows a list has *)

\* Preparation adds no row.
LEMMA PreparedRows ==
  ASSUME NEW rows, Datable(rows)
  PROVE  RowsOf(Prepare(rows)) \subseteq rows
<1> DEFINE kept == Deduped(rows)
           list == InOrder(kept)
<1>1. kept \subseteq rows
  BY DEF Deduped
<1> HIDE DEF kept
<1>2. Datable(kept)
  BY <1>1, DatablePart
<1>3. list \in Seq(kept) /\ Len(list) \in Nat
  BY <1>2, OrderPlaces
<1>4. Prepare(rows) = {segment \in Cut(list) : Len(segment) >= Window}
  BY DEF Prepare, kept
<1> HIDE DEF list
<1>5. ASSUME NEW segment \in Prepare(rows), NEW row \in ToSet(segment) PROVE row \in rows
  <2>1. PICK n \in Starts(list) : segment = SubSeq(list, n, EndOf(list, n))
    BY <1>4 DEF Cut
  <2> DEFINE e == EndOf(list, n)
  <2>2. n \in 1 .. Len(list) /\ e \in n .. Len(list)
    BY <1>3, SegmentEnds
  <2> HIDE DEF e
  <2>3. e \in n - 1 .. Len(list)
    BY <1>3, <2>2
  <2>4. SubSeq(list, n, e) \in Seq(kept)
    BY <1>3, <2>2, <2>3, PartOf
  <2>5. segment \in Seq(kept)
    BY <2>1, <2>4 DEF e
  <2>6. PICK i \in DOMAIN segment : row = segment[i]
    BY DEF ToSet
  <2>7. row \in kept
    BY <2>5, <2>6, LenProperties, ElementOfSeq
  <2> QED
    BY <1>1, <2>7
<1> QED
  BY <1>5 DEF RowsOf

Complete(n, size) == IF n >= size THEN n - size + 1 ELSE 0

\* Every stretch begins with a row of its own.
LEMMA StretchesCounted ==
  ASSUME NEW R, NEW list \in Seq(R), NEW size \in Nat, size >= 1
  PROVE  /\ IsFiniteSet(Stretches(list, size))
         /\ Cardinality(Stretches(list, size)) <= Complete(Len(list), size)
         /\ Distinct(list) => Cardinality(Stretches(list, size)) = Complete(Len(list), size)
<1> DEFINE last == Len(list) - size + 1
           f == [a \in 1 .. last |-> SubSeq(list, a, a + size - 1)]
<1>1. Len(list) \in Nat /\ DOMAIN list = 1 .. Len(list) /\ last \in Int
  BY LenProperties
<1>2. IsFiniteSet(1 .. last) /\ Cardinality(1 .. last) = Complete(Len(list), size)
  <2>1. IsFiniteSet(1 .. last) /\ Cardinality(1 .. last) = IF 1 > last THEN 0 ELSE last - 1 + 1
    <3> HIDE DEF last
    <3> QED
      BY <1>1, FS_Interval
  <2> QED
    BY <1>1, <2>1 DEF Complete
<1>3. f \in Surjection(1 .. last, Stretches(list, size))
  BY DEF Surjection, Stretches
<1>4. ASSUME Distinct(list), NEW a \in 1 .. last, NEW b \in 1 .. last, f[a] = f[b] PROVE a = b
  <2>1. ASSUME NEW c \in 1 .. last PROVE c \in 1 .. Len(list) /\ f[c][1] = list[c]
    <3> DEFINE d == c + size - 1
    <3>1. c \in 1 .. Len(list) /\ d \in c - 1 .. Len(list) /\ 1 \in 1 .. d - c + 1 /\ c + 1 - 1 = c
      BY <1>1
    <3>2. f[c] = SubSeq(list, c, d)
      OBVIOUS
    <3> HIDE DEF d, f
    <3>3. SubSeq(list, c, d)[1] = list[c + 1 - 1]
      BY <3>1, PartOf
    <3> QED
      BY <3>1, <3>2, <3>3
  <2>2. list[a] = list[b] /\ a \in 1 .. Len(list) /\ b \in 1 .. Len(list)
    BY <1>4, <2>1
  <2> QED
    BY <1>1, <1>4, <2>2 DEF Distinct
<1> HIDE DEF f, last
<1>5. Distinct(list) => f \in Injection(1 .. last, Stretches(list, size))
  BY <1>3, <1>4 DEF Injection, IsInjective, Surjection
<1> QED
  BY <1>2, <1>3, <1>5, FS_Surjection

-------------------------------------------------------------------------------
(* What the audit finds usable, against what preparation keeps *)

\* The rows around row i that no break under the stride parts from it.
Around(stride, list, i) ==
    LET cuts1 == {k \in 2 .. Len(list) : ~IsContiguousBy(stride, list[k - 1], list[k])}
    IN {j \in DOMAIN list : \A k \in cuts1 : (k <= i) <=> (k <= j)}

Usable(stride, list) == Cardinality({i \in DOMAIN list : Cardinality(Around(stride, list, i)) >= Window})

\* Neighbours in the order of the table share a segment with a row exactly if
\* they lie where its segment does.
LEMMA AuditedSegment ==
  ASSUME NEW R, NEW list \in Seq(R), NEW n \in Starts(list), NEW i \in n .. EndOf(list, n)
  PROVE  Around(Stride, list, i) = n .. EndOf(list, n)
<1> DEFINE e == EndOf(list, n)
           cuts1 == {k \in 2 .. Len(list) : ~IsContiguous(list[k - 1], list[k])}
<1>1. /\ Len(list) \in Nat /\ DOMAIN list = 1 .. Len(list)
      /\ n \in 1 .. Len(list) /\ e \in n .. Len(list) /\ Joined(list, n, e)
      /\ \A m \in n .. Len(list) : Joined(list, n, m) => m <= e
  BY LenProperties, SegmentEnds
<1>2. Around(Stride, list, i) = {j \in DOMAIN list : \A k \in cuts1 : (k <= i) <=> (k <= j)}
  BY DEF Around, IsContiguous
<1>3. i \in n .. e
  OBVIOUS
<1> HIDE DEF e
<1>9. n \in Int /\ e \in Int /\ i \in Int /\ i <= e /\ n <= e /\ e <= Len(list) /\ n >= 1
  BY <1>1, <1>3
<1>4. ASSUME NEW j \in n .. e, NEW k \in cuts1 PROVE (k <= i) <=> (k <= j)
  <2>1. k \in Int /\ j \in Int /\ i \in Int /\ n \in Int /\ e \in Int
    BY <1>1, <1>3
  <2>2. k \notin n + 1 .. e
    BY <1>1 DEF Joined
  <2> QED
    BY <1>3, <2>1, <2>2
<1>5. n = 1 \/ n \in cuts1
  BY <1>1 DEF Starts
<1>6. ASSUME e < Len(list) PROVE e + 1 \in cuts1
  <2>1. e + 1 \in n .. Len(list) /\ e + 1 \in 2 .. Len(list)
    <3> HIDE DEF cuts1
    <3> QED
      BY <1>1, <1>6, <1>9
  <2>2. (e + 1) - 1 = e /\ \A m \in n + 1 .. e + 1 : m \in n + 1 .. e \/ m = e + 1
    BY <1>9
  <2>3. ASSUME IsContiguous(list[e], list[e + 1]) PROVE FALSE
    <3>1. Joined(list, n, e + 1)
      BY <1>1, <2>2, <2>3 DEF Joined
    <3>2. e + 1 <= e
      BY <1>1, <2>1, <3>1
    <3> QED
      BY <1>9, <3>2
  <2> QED
    BY <2>1, <2>2, <2>3
<1>7. ASSUME NEW j \in DOMAIN list, \A k \in cuts1 : (k <= i) <=> (k <= j) PROVE j \in n .. e
  <2>1. j \in 1 .. Len(list) /\ i \in Int /\ n \in Int /\ e \in Int
    BY <1>1, <1>3
  <2>2. n <= j
    BY <1>1, <1>3, <1>5, <1>7, <2>1
  <2>3. j <= e
    <3> SUFFICES ASSUME e < j PROVE FALSE
      BY <2>1
    <3>2. e < Len(list)
      BY <1>1, <2>1
    <3>1. e + 1 \in cuts1 => ((e + 1 <= i) <=> (e + 1 <= j))
      BY <1>7
    <3> QED
      BY <1>6, <1>9, <2>1, <3>1, <3>2
  <2> QED
    BY <2>1, <2>2, <2>3
<1>8. \A j \in n .. e : j \in DOMAIN list
  BY <1>1
<1> QED
  BY <1>2, <1>4, <1>7, <1>8 DEF e

\* Under the stride of the preparation the rows usable are those it keeps.
LEMMA UsableKept ==
  ASSUME NEW R, NEW list \in Seq(R), Distinct(list)
  PROVE  Usable(Stride, list) = Kept({segment \in Cut(list) : Len(segment) >= Window})
<1> DEFINE segments == {segment \in Cut(list) : Len(segment) >= Window}
           P == {i \in DOMAIN list : Cardinality(Around(Stride, list, i)) >= Window}
           f == [i \in P |-> list[i]]
<1>1. Len(list) \in Nat /\ DOMAIN list = 1 .. Len(list)
  BY LenProperties
<1>2. ASSUME NEW n \in Starts(list)
      PROVE  LET e == EndOf(list, n)
                 segment == SubSeq(list, n, e)
             IN /\ n \in 1 .. Len(list) /\ e \in n .. Len(list)
                /\ segment \in Cut(list)
                /\ Len(segment) = e - n + 1
                /\ ToSet(segment) = {list[i] : i \in n .. e}
                /\ \A i \in n .. e : Cardinality(Around(Stride, list, i)) = Len(segment)
  <2> DEFINE e == EndOf(list, n)
             segment == SubSeq(list, n, e)
  <2>1. n \in 1 .. Len(list) /\ e \in n .. Len(list) /\ e \in n - 1 .. Len(list) /\ e \in Int /\ n \in Int
    BY <1>1, SegmentEnds
  <2>2. segment \in Cut(list)
    BY DEF Cut
  <2>3. ASSUME NEW i \in n .. e PROVE Around(Stride, list, i) = n .. e
    BY AuditedSegment
  <2> HIDE DEF e
  <2>4. /\ Len(segment) = e - n + 1 /\ DOMAIN segment = 1 .. e - n + 1
        /\ \A i \in 1 .. e - n + 1 : segment[i] = list[n + i - 1]
    BY <2>1, PartOf
  <2>5. Cardinality(n .. e) = e - n + 1
    BY <2>1, FS_Interval
  <2> HIDE DEF segment
  <2>6. ToSet(segment) = {list[i] : i \in n .. e}
    <3>1. ASSUME NEW i \in 1 .. e - n + 1 PROVE n + i - 1 \in n .. e
      BY <2>1
    <3>2. ASSUME NEW i \in n .. e PROVE i - n + 1 \in 1 .. e - n + 1 /\ n + (i - n + 1) - 1 = i
      BY <2>1
    <3>3. \A i \in n .. e : list[i] = segment[i - n + 1]
      BY <2>4, <3>2
    <3> QED
      BY <2>4, <3>1, <3>2, <3>3 DEF ToSet
  <2> QED
    BY <2>1, <2>2, <2>3, <2>4, <2>5, <2>6 DEF e, segment
<1>3. RowsOf(segments) = {list[i] : i \in P}
  <2>1. ASSUME NEW row \in RowsOf(segments) PROVE \E i \in P : row = list[i]
    <3>1. PICK segment \in segments : row \in ToSet(segment)
      BY DEF RowsOf
    <3>2. PICK n \in Starts(list) : segment = SubSeq(list, n, EndOf(list, n))
      BY DEF Cut
    <3>3. PICK i \in n .. EndOf(list, n) : row = list[i]
      BY <1>2, <3>1, <3>2
    <3>4. Cardinality(Around(Stride, list, i)) = Len(segment) /\ i \in 1 .. Len(list)
      BY <1>1, <1>2, <3>2
    <3> QED
      BY <1>1, <3>3, <3>4
  <2>2. ASSUME NEW i \in P PROVE list[i] \in RowsOf(segments)
    <3>1. i \in 1 .. Len(list) /\ i \in i .. Len(list)
      BY <1>1
    <3>2. Joined(list, i, i)
      BY <3>1 DEF Joined
    <3>3. PICK n \in Starts(list) : n <= i /\ i <= EndOf(list, n)
      BY <3>1, <3>2, SegmentFound
    <3> DEFINE segment == SubSeq(list, n, EndOf(list, n))
    <3>4. i \in n .. EndOf(list, n)
      BY <1>1, <1>2, <3>1, <3>3
    <3>5. segment \in Cut(list) /\ list[i] \in ToSet(segment)
          /\ Cardinality(Around(Stride, list, i)) = Len(segment)
      BY <1>2, <3>4
    <3> QED
      BY <3>5 DEF RowsOf
  <2> QED
    BY <2>1, <2>2
<1>4. IsFiniteSet(P)
  <2>1. P \in SUBSET (1 .. Len(list)) /\ IsFiniteSet(1 .. Len(list))
    BY <1>1, FS_Interval
  <2> QED
    BY <2>1, FS_Subset
<1>5. Usable(Stride, list) = Cardinality(P) /\ P \subseteq DOMAIN list
  BY DEF Usable
<1> DEFINE T == RowsOf(segments)
<1>6. f \in Surjection(P, T)
  <2>1. f \in [P -> T] /\ \A t \in T : \E i \in P : f[i] = t
    <3> HIDE DEF P, segments
    <3> QED
      BY <1>3
  <2> QED
    BY <2>1 DEF Surjection
<1>7. f \in Injection(P, T)
  <2>1. \A i, j \in P : f[i] = f[j] => i = j
    <3> HIDE DEF P
    <3> QED
      BY <1>5 DEF Distinct
  <2> QED
    BY <1>6, <2>1 DEF Injection, IsInjective, Surjection
<1> HIDE DEF f, P, T
<1>8. Cardinality(T) = Cardinality(P)
  BY <1>4, <1>6, <1>7, FS_Surjection
<1> QED
  BY <1>5, <1>8 DEF Kept, T

\* A wider stride breaks a list nowhere that a narrower one does not.
LEMMA WiderStride ==
  ASSUME NEW R, NEW list \in Seq(R), NEW narrow \in Nat, NEW wide \in Nat, narrow <= wide
  PROVE  Usable(narrow, list) <= Usable(wide, list)
<1> DEFINE P(stride) == {i \in DOMAIN list : Cardinality(Around(stride, list, i)) >= Window}
           breaks(stride) == {k \in 2 .. Len(list) : ~IsContiguousBy(stride, list[k - 1], list[k])}
<1>1. Len(list) \in Nat /\ DOMAIN list = 1 .. Len(list) /\ IsFiniteSet(1 .. Len(list)) /\ Window \in Nat
  BY LenProperties, FS_Interval, Sizes
<1>2. \A k \in 2 .. Len(list) :
         IsContiguousBy(narrow, list[k - 1], list[k]) => IsContiguousBy(wide, list[k - 1], list[k])
  BY DEF IsContiguousBy
<1>3. breaks(wide) \subseteq breaks(narrow)
  BY <1>2
<1>4. \A i : Around(narrow, list, i) \subseteq Around(wide, list, i)
  <2>1. \A stride, i : Around(stride, list, i)
                         = {j \in DOMAIN list : \A k \in breaks(stride) : (k <= i) <=> (k <= j)}
    BY DEF Around
  <2> HIDE DEF breaks
  <2> QED
    BY <1>3, <2>1
<1>5. \A i : Around(wide, list, i) \in SUBSET (1 .. Len(list))
  BY <1>1 DEF Around
<1>6. ASSUME NEW i
      PROVE  /\ Cardinality(Around(narrow, list, i)) \in Nat /\ Cardinality(Around(wide, list, i)) \in Nat
             /\ Cardinality(Around(narrow, list, i)) <= Cardinality(Around(wide, list, i))
  <2>1. IsFiniteSet(Around(wide, list, i))
    BY <1>1, <1>5, FS_Subset
  <2>2. Around(narrow, list, i) \in SUBSET Around(wide, list, i)
    BY <1>4
  <2>3. IsFiniteSet(Around(narrow, list, i))
        /\ Cardinality(Around(narrow, list, i)) <= Cardinality(Around(wide, list, i))
    BY <2>1, <2>2, FS_Subset
  <2> QED
    BY <2>1, <2>3, FS_CardinalityType
<1>7. P(narrow) \in SUBSET P(wide)
  BY <1>1, <1>6
<1>8. P(wide) \in SUBSET (1 .. Len(list))
  BY <1>1
<1> HIDE DEF P
<1>9. Cardinality(P(narrow)) <= Cardinality(P(wide))
  BY <1>1, <1>7, <1>8, FS_Subset
<1> QED
  BY <1>9 DEF Usable, P

-------------------------------------------------------------------------------
(* What a training run gets, against what the gate expects *)

\* A dataset yields no more windows than an unbroken one of its size.
LEMMA WindowsBounded ==
  ASSUME NEW rows, Datable(rows)
  PROVE  /\ Cardinality(rows) \in Nat
         /\ IsFiniteSet(BuildMatrix(Prepare(rows)))
         /\ Cardinality(BuildMatrix(Prepare(rows))) \in Nat
         /\ Cardinality(BuildMatrix(Prepare(rows))) <= ApproximateWindows(Cardinality(rows))
<1> DEFINE kept == Deduped(rows)
           list == InOrder(kept)
           windows == BuildMatrix(Prepare(rows))
<1>1. kept \subseteq rows /\ kept \in SUBSET rows
  BY DEF Deduped
<1>2. IsFiniteSet(rows) /\ Cardinality(rows) \in Nat
  BY FS_CardinalityType DEF Datable
<1> HIDE DEF kept
<1>3. Datable(kept)
  BY <1>1, DatablePart
<1>4. list \in Seq(kept) /\ Len(list) = Cardinality(kept) /\ Len(list) \in Nat
  BY <1>3, OrderPlaces
<1>5. Len(list) <= Cardinality(rows)
  BY <1>1, <1>2, <1>4, FS_Subset
<1>6. Window \in Nat /\ Window >= 1 /\ Window >= Window
  BY Sizes
<1>7. windows = UNION {Stretches(segment, Window) : segment \in {s \in Cut(list) : Len(s) >= Window}}
  BY DEF BuildMatrix, SegmentMatrix, Prepare, kept
<1> HIDE DEF list, windows
<1>8. windows = {w \in Stretches(list, Window) : Contiguous(w)}
  BY <1>4, <1>6, <1>7, StretchesOfSegments
<1>9. /\ IsFiniteSet(Stretches(list, Window))
      /\ Cardinality(Stretches(list, Window)) <= Complete(Len(list), Window)
  BY <1>4, <1>6, StretchesCounted
<1>10. windows \in SUBSET Stretches(list, Window)
  BY <1>8
<1>11. IsFiniteSet(windows) /\ Cardinality(windows) <= Cardinality(Stretches(list, Window))
  BY <1>9, <1>10, FS_Subset
<1>12. Cardinality(windows) \in Nat /\ Cardinality(Stretches(list, Window)) \in Nat
  BY <1>9, <1>11, FS_CardinalityType
<1>13. Complete(Len(list), Window) <= ApproximateWindows(Cardinality(rows))
       /\ Complete(Len(list), Window) \in Nat /\ ApproximateWindows(Cardinality(rows)) \in Nat
  BY <1>2, <1>4, <1>5, <1>6 DEF Complete, ApproximateWindows
<1> QED
  BY <1>2, <1>9, <1>11, <1>12, <1>13 DEF windows

LEMMA SplitInside ==
  ASSUME NEW n \in Nat
  PROVE  (n * SplitNum) \div SplitDen \in 0 .. n
<1>1. SplitNum \in Nat /\ SplitDen \in Nat /\ SplitDen > 0 /\ SplitNum < SplitDen
  BY PreparationAssumption
<1> DEFINE m == n * SplitNum
           q == m \div SplitDen
<1>2. m \in Nat
  BY <1>1
<1>3. m <= n * SplitDen
  BY <1>1
<1> HIDE DEF m
<1>4. q \in Nat /\ SplitDen * q <= m
  BY <1>1, <1>2
<1> HIDE DEF q
<1>5. SplitDen * q <= n * SplitDen
  BY <1>1, <1>2, <1>3, <1>4
<1>6. q <= n
  <2> SUFFICES ASSUME q >= n + 1 PROVE FALSE
    BY <1>4
  <2>1. SplitDen * q >= SplitDen * (n + 1)
    BY <1>1, <1>4
  <2>2. SplitDen * (n + 1) = n * SplitDen + SplitDen
    BY <1>1
  <2> QED
    BY <1>1, <1>4, <1>5, <2>1, <2>2
<1> QED
  BY <1>4, <1>6 DEF q, m

\* The two sides of a split, as lists and as sets.
LEMMA SplitSides ==
  ASSUME NEW rows, Datable(rows)
  PROVE  LET n == Cardinality(rows)
             cut == (n * SplitNum) \div SplitDen
             list == InOrder(rows)
             train == SubSeq(list, 1, cut)
             calibration == SubSeq(list, cut + 1, n)
         IN /\ n \in Nat /\ cut \in 0 .. n
            /\ train \in Seq(rows) /\ calibration \in Seq(rows)
            /\ TimeSplit(rows) = [train |-> ToSet(train), calibration |-> ToSet(calibration)]
            /\ Len(train) = cut /\ Len(calibration) = n - cut
            /\ \A i \in 1 .. cut : train[i] = list[i]
            /\ \A i \in 1 .. n - cut : calibration[i] = list[cut + i]
            /\ \A i, j \in DOMAIN train : i < j => Earlier(train[i], train[j])
            /\ \A i, j \in DOMAIN calibration : i < j => Earlier(calibration[i], calibration[j])
            /\ ToSet(train) \subseteq rows /\ ToSet(calibration) \subseteq rows
            /\ Cardinality(ToSet(train)) = cut /\ Cardinality(ToSet(calibration)) = n - cut
<1> DEFINE n == Cardinality(rows)
           cut == (n * SplitNum) \div SplitDen
           list == InOrder(rows)
           train == SubSeq(list, 1, cut)
           calibration == SubSeq(list, cut + 1, n)
<1>1. n \in Nat /\ list \in Seq(rows) /\ Len(list) = n /\ DOMAIN list = 1 .. n
  BY OrderPlaces
<1>2. cut \in 0 .. n
  <2> HIDE DEF n
  <2> QED
    BY <1>1, SplitInside
<1>3. \A i, j \in DOMAIN list : i < j => Earlier(list[i], list[j])
  BY OrderListed
<1>4. TimeSplit(rows) = [train |-> ToSet(train), calibration |-> ToSet(calibration)]
  BY <1>1 DEF TimeSplit
<1> HIDE DEF n, cut, list
<1>5. /\ train \in Seq(rows) /\ Len(train) = cut /\ \A i \in 1 .. cut : train[i] = list[i]
  <2>1. CASE n = 0
    <3>1. cut = 0 /\ train = <<>> /\ 1 .. cut = {}
      BY <1>1, <1>2, <2>1, EmptySeq
    <3> HIDE DEF train
    <3> QED
      BY <3>1, EmptySeq
  <2>2. CASE n # 0
    <3>1. 1 \in 1 .. Len(list) /\ cut \in 1 - 1 .. Len(list) /\ cut - 1 + 1 = cut /\ cut \in Int
      BY <1>1, <1>2, <2>2
    <3>2. \A i \in 1 .. cut : 1 + i - 1 = i
      BY <3>1
    <3> QED
      BY <1>1, <3>1, <3>2, PartOf
  <2> QED
    BY <2>1, <2>2
<1>6. /\ calibration \in Seq(rows) /\ Len(calibration) = n - cut
      /\ \A i \in 1 .. n - cut : calibration[i] = list[cut + i]
  <2>1. CASE cut = n
    <3>1. calibration = <<>> /\ n - cut = 0
      <4>1. cut + 1 > n /\ cut + 1 \in Int /\ n \in Int
        BY <1>1, <2>1
      <4>2. calibration \in Seq(rows) /\ Len(calibration) = 0
        BY <1>1, <4>1, SubSeqProperties
      <4> QED
        BY <1>1, <2>1, <4>2, EmptySeq
    <3>2. 1 .. n - cut = {}
      BY <3>1
    <3> HIDE DEF calibration
    <3> QED
      BY <3>1, <3>2, EmptySeq
  <2>2. CASE cut # n
    <3>1. cut + 1 \in 1 .. Len(list) /\ n \in (cut + 1) - 1 .. Len(list) /\ n - (cut + 1) + 1 = n - cut /\ cut \in Int
      BY <1>1, <1>2, <2>2
    <3>2. \A i \in 1 .. n - cut : (cut + 1) + i - 1 = cut + i
      BY <3>1
    <3> QED
      BY <1>1, <3>1, <3>2, PartOf
  <2> QED
    BY <2>1, <2>2
<1> HIDE DEF train, calibration
<1>7. /\ DOMAIN train = 1 .. cut /\ DOMAIN calibration = 1 .. n - cut
      /\ \A i \in 1 .. cut : i \in DOMAIN list
      /\ \A i \in 1 .. n - cut : cut + i \in DOMAIN list
      /\ cut \in Int
  BY <1>1, <1>2, <1>5, <1>6, LenProperties
<1>8. \A i, j \in DOMAIN train : i < j => Earlier(train[i], train[j])
  BY <1>3, <1>5, <1>7
<1>9. \A i, j \in DOMAIN calibration : i < j => Earlier(calibration[i], calibration[j])
  <2>1. \A i, j \in 1 .. n - cut : i < j => cut + i < cut + j
    BY <1>7
  <2> QED
    BY <1>3, <1>6, <1>7, <2>1
<1>10. ToSet(train) \subseteq rows /\ ToSet(calibration) \subseteq rows
  <2>1. \A i \in DOMAIN train : train[i] \in rows
    BY <1>5, <1>7, ElementOfSeq
  <2>2. \A i \in DOMAIN calibration : calibration[i] \in rows
    BY <1>6, <1>7, ElementOfSeq
  <2> QED
    BY <2>1, <2>2 DEF ToSet
<1>11. Datable(ToSet(train)) /\ Datable(ToSet(calibration))
  BY <1>10, DatablePart
<1>12. Cardinality(ToSet(train)) = cut /\ Cardinality(ToSet(calibration)) = n - cut
  <2>1. Distinct(train)
    BY <1>5, <1>8, <1>11, AscendingListed
  <2>2. Distinct(calibration)
    BY <1>6, <1>9, <1>11, AscendingListed
  <2> QED
    BY <1>5, <1>6, <2>1, <2>2, DistinctCounted
<1> QED
  BY <1>1, <1>2, <1>4, <1>5, <1>6, <1>8, <1>9, <1>10, <1>12 DEF n, cut, list, train, calibration

\* The windows of rows of distinct ids are the contiguous stretches of their list.
LEMMA WindowsOfList ==
  ASSUME NEW R, NEW list \in Seq(R), Datable(ToSet(list)),
         \A a, b \in ToSet(list) : a.id = b.id => a = b,
         \A i, j \in DOMAIN list : i < j => Earlier(list[i], list[j])
  PROVE  BuildMatrix(Prepare(ToSet(list))) = {w \in Stretches(list, Window) : Contiguous(w)}
<1> DEFINE rows == ToSet(list)
<1>1. Window \in Nat /\ Window >= Window
  BY Sizes
<1>2. Deduped(rows) = rows
  <2>1. \A a, b \in rows : a.id = b.id => ~Earlier(b, a)
    BY DEF Earlier, Datable
  <2> QED
    BY <2>1 DEF Deduped
<1>3. InOrder(rows) = list
  BY AscendingListed
<1>4. BuildMatrix(Prepare(rows))
        = UNION {Stretches(segment, Window) : segment \in {s \in Cut(list) : Len(s) >= Window}}
  BY <1>2, <1>3 DEF BuildMatrix, SegmentMatrix, Prepare
<1> QED
  BY <1>1, <1>4, StretchesOfSegments

\* Rows of distinct ids that follow one another yield every window they can.
LEMMA WindowsOfUnbroken ==
  ASSUME NEW R, NEW list \in Seq(R), Datable(ToSet(list)),
         \A a, b \in ToSet(list) : a.id = b.id => a = b,
         \A i, j \in DOMAIN list : i < j => Earlier(list[i], list[j]),
         Joined(list, 1, Len(list))
  PROVE  Cardinality(BuildMatrix(Prepare(ToSet(list)))) = ApproximateWindows(Len(list))
<1> DEFINE rows == ToSet(list)
<1>1. Len(list) \in Nat
  BY LenProperties
<1>2. Window \in Nat /\ Window >= 1 /\ Window >= Window
  BY Sizes
<1>4. Distinct(list)
  BY AscendingListed
<1>5. BuildMatrix(Prepare(rows)) = {w \in Stretches(list, Window) : Contiguous(w)}
  BY WindowsOfList
<1> HIDE DEF rows
<1>6. ASSUME NEW w \in Stretches(list, Window) PROVE Contiguous(w)
  <2>1. PICK a \in 1 .. (Len(list) - Window + 1) : w = SubSeq(list, a, a + Window - 1)
    BY DEF Stretches
  <2> DEFINE b == a + Window - 1
  <2>2. a \in 1 .. Len(list) /\ b \in a - 1 .. Len(list) /\ a \in Int /\ b \in Int
    BY <1>1, <1>2
  <2>3. w = SubSeq(list, a, b)
    BY <2>1
  <2> HIDE DEF b
  <2>4. Joined(list, a, b)
    <3>1. \A i \in a + 1 .. b : i \in 1 + 1 .. Len(list)
      BY <1>1, <2>2
    <3> QED
      BY <3>1 DEF Joined
  <2> QED
    BY <2>2, <2>3, <2>4, JoinedPart
<1>7. BuildMatrix(Prepare(rows)) = Stretches(list, Window)
  BY <1>5, <1>6
<1>8. Cardinality(Stretches(list, Window)) = Complete(Len(list), Window)
  BY <1>2, <1>4, StretchesCounted
<1> QED
  BY <1>7, <1>8 DEF Complete, ApproximateWindows, rows

\* The kept rows begin and end with a window: the first row begins the first
\* segment and the last row ends the last one.
LEMMA EndWindows ==
  ASSUME NEW rows, Datable(rows), Deduped(rows) = rows,
         RowsOf(Prepare(rows)) # {}
  PROVE  LET ordered == InOrder(RowsOf(Prepare(rows)))
             n == Cardinality(RowsOf(Prepare(rows)))
         IN /\ n >= Window
            /\ Contiguous(SubSeq(ordered, 1, Window))
            /\ Contiguous(SubSeq(ordered, n - Window + 1, n))
<1> DEFINE list == InOrder(rows)
           segments == Prepare(rows)
           usable == RowsOf(segments)
           ordered == InOrder(usable)
           n == Cardinality(usable)
<1>1. /\ list \in Seq(rows) /\ Len(list) \in Nat /\ DOMAIN list = 1 .. Len(list)
      /\ \A i, j \in DOMAIN list : i < j => Earlier(list[i], list[j])
  <2>1. Len(list) = Cardinality(rows) /\ list \in Seq(rows) /\ DOMAIN list = 1 .. Cardinality(rows)
        /\ Cardinality(rows) \in Nat
    BY OrderPlaces
  <2> QED
    BY <2>1, OrderListed
<1>2. segments = {segment \in Cut(list) : Len(segment) >= Window}
  BY DEF Prepare
<1>3. usable \subseteq rows
  BY PreparedRows
<1>4. usable = RowsOf(segments) /\ usable # {}
  OBVIOUS
<1>5. Window \in Nat /\ Window >= 1
  BY Sizes
<1> HIDE DEF list, segments, usable
<1>6. Datable(usable)
  BY <1>3, DatablePart
<1>7. /\ ordered \in Seq(usable) /\ Len(ordered) = n /\ n \in Nat /\ DOMAIN ordered = 1 .. n
      /\ \A i \in 1 .. n : ordered[i] \in usable /\ Place(usable, ordered[i]) = i
      /\ \A row \in usable : Place(usable, row) \in 1 .. n /\ ordered[Place(usable, row)] = row
  BY <1>6, OrderPlaces
<1>8. 1 \in 1 .. n /\ n \in 1 .. n
  <2>1. PICK row \in usable : TRUE
    BY <1>4
  <2> HIDE DEF n, ordered
  <2> QED
    BY <1>7, <2>1
<1> HIDE DEF ordered, n
\* Of a segment, with where it lies in the list.
<1>9. ASSUME NEW row \in usable
      PROVE  \E s \in 1 .. Len(list), e \in 1 .. Len(list), k \in 1 .. Len(list) :
                /\ s <= k /\ k <= e /\ row = list[k] /\ e - s + 1 >= Window /\ Joined(list, s, e)
                /\ \A i \in s .. e : list[i] \in usable
  <2>1. PICK segment \in segments : row \in ToSet(segment)
    BY <1>4 DEF RowsOf
  <2>2. PICK s \in Starts(list) : segment = SubSeq(list, s, EndOf(list, s))
    BY <1>2, <2>1 DEF Cut
  <2> DEFINE e == EndOf(list, s)
  <2>3. s \in 1 .. Len(list) /\ e \in s .. Len(list) /\ Joined(list, s, e)
    BY <1>1, SegmentEnds
  <2>4. segment = SubSeq(list, s, e)
    BY <2>2
  <2> HIDE DEF e
  <2>5. s \in Int /\ e \in Int /\ e \in s - 1 .. Len(list) /\ e \in 1 .. Len(list)
    BY <1>1, <2>3
  <2>6. /\ Len(segment) = e - s + 1 /\ DOMAIN segment = 1 .. e - s + 1
        /\ \A i \in 1 .. e - s + 1 : segment[i] = list[s + i - 1]
    BY <1>1, <2>3, <2>4, <2>5, PartOf
  <2>7. PICK p \in 1 .. e - s + 1 : row = segment[p]
    BY <2>1, <2>6 DEF ToSet
  <2>8. ASSUME NEW i \in s .. e PROVE list[i] \in usable
    <3>1. i - s + 1 \in 1 .. e - s + 1 /\ s + (i - s + 1) - 1 = i
      BY <2>5
    <3>2. segment[i - s + 1] = list[i]
      BY <2>6, <3>1
    <3> QED
      BY <1>4, <2>6, <3>1, <3>2 DEF RowsOf, ToSet
  <2>9. s + p - 1 \in 1 .. Len(list) /\ s <= s + p - 1 /\ s + p - 1 <= e /\ row = list[s + p - 1]
    BY <1>1, <2>3, <2>5, <2>6, <2>7
  <2>10. e - s + 1 >= Window
    BY <1>2, <2>6
  <2> QED
    BY <2>3, <2>5, <2>8, <2>9, <2>10
\* A window of the list whose rows are kept is one of the kept rows.
<1>10. ASSUME NEW a \in 1 .. Len(list), NEW b \in 1 .. Len(list), b - a + 1 = Window, Joined(list, a, b),
              \A i \in a .. b : list[i] \in usable
       PROVE  \E c \in 1 .. n, d \in 1 .. n :
                 /\ d - c + 1 = Window /\ ordered[c] = list[a] /\ ordered[d] = list[b]
                 /\ Contiguous(SubSeq(ordered, c, d))
  <2> DEFINE w == SubSeq(list, a, b)
  <2>1. a \in Int /\ b \in Int /\ b \in a - 1 .. Len(list) /\ b \in a .. Len(list)
        /\ a + Window - 1 = b /\ a \in 1 .. (Len(list) - Window + 1)
    BY <1>1, <1>5, <1>10
  <2>2. Contiguous(w)
    BY <1>1, <1>10, <2>1, JoinedPart
  <2>3. /\ Len(w) = b - a + 1 /\ DOMAIN w = 1 .. b - a + 1
        /\ \A i \in 1 .. b - a + 1 : w[i] = list[a + i - 1]
    BY <1>1, <2>1, PartOf
  <2>4. w[1] = list[a] /\ Last(w) = list[b]
    BY <1>1, <2>1, PartEnds
  <2>5. w \in Stretches(InOrder(rows), Window)
    <3>1. w = SubSeq(list, a, a + Window - 1)
      BY <2>1
    <3> QED
      BY <2>1, <3>1 DEF Stretches, list
  <2> HIDE DEF w
  <2>6. ToSet(w) \subseteq usable
    <3> SUFFICES ASSUME NEW i \in 1 .. b - a + 1 PROVE w[i] \in usable
      BY <2>3 DEF ToSet
    <3>1. a + i - 1 \in a .. b
      BY <2>1
    <3> QED
      BY <1>10, <2>3, <3>1
  <2>7. w \in Stretches(InOrder(usable), Window)
    BY <1>3, <1>5, <2>5, <2>6, StretchNarrowed
  <2>8. w \in Stretches(ordered, Window)
    BY <2>7 DEF ordered
  <2>9. PICK c \in 1 .. Len(ordered), d \in 1 .. Len(ordered) :
           d - c + 1 = Window /\ w = SubSeq(ordered, c, d) /\ w[1] = ordered[c] /\ Last(w) = ordered[d]
    BY <1>5, <1>7, <2>8, StretchIn
  <2> QED
    BY <1>7, <2>2, <2>4, <2>9
<1>11. Contiguous(SubSeq(ordered, 1, Window)) /\ n >= Window
  <2>1. PICK s \in 1 .. Len(list), e \in 1 .. Len(list), k \in 1 .. Len(list) :
           /\ s <= k /\ k <= e /\ ordered[1] = list[k] /\ e - s + 1 >= Window /\ Joined(list, s, e)
           /\ \A i \in s .. e : list[i] \in usable
    BY <1>7, <1>8, <1>9
  <2>2. k = s
    <3>1. s \in s .. e /\ s \in Int /\ k \in Int
      BY <1>1, <2>1
    <3>2. list[s] \in usable
      BY <2>1, <3>1
    <3>3. s < k => Place(usable, list[s]) < 1
      <4>1. s < k => Earlier(list[s], ordered[1])
        BY <1>1, <2>1
      <4>2. ordered[1] \in usable /\ Place(usable, ordered[1]) = 1
        BY <1>7, <1>8
      <4> QED
        BY <1>6, <3>2, <4>1, <4>2, PlaceGrows
    <3>4. Place(usable, list[s]) \in 1 .. n
      BY <1>7, <3>2
    <3> QED
      BY <1>7, <2>1, <3>1, <3>3, <3>4
  <2> DEFINE b == s + Window - 1
  <2>3. /\ b \in 1 .. Len(list) /\ b - s + 1 = Window
        /\ \A i \in s .. b : i \in s .. e
        /\ \A i \in s + 1 .. b : i \in s + 1 .. e
    BY <1>1, <1>5, <2>1
  <2> HIDE DEF b
  <2>4. Joined(list, s, b) /\ \A i \in s .. b : list[i] \in usable
    BY <2>1, <2>3 DEF Joined
  <2>5. PICK c \in 1 .. n, d \in 1 .. n :
           d - c + 1 = Window /\ ordered[c] = list[s] /\ Contiguous(SubSeq(ordered, c, d))
    BY <1>10, <2>3, <2>4
  <2>6. c = 1
    BY <1>7, <1>8, <2>1, <2>2, <2>5
  <2>7. d = Window /\ n >= Window
    BY <1>5, <1>7, <2>5, <2>6
  <2> QED
    BY <2>5, <2>6, <2>7
<1>12. Contiguous(SubSeq(ordered, n - Window + 1, n))
  <2>1. PICK s \in 1 .. Len(list), e \in 1 .. Len(list), k \in 1 .. Len(list) :
           /\ s <= k /\ k <= e /\ ordered[n] = list[k] /\ e - s + 1 >= Window /\ Joined(list, s, e)
           /\ \A i \in s .. e : list[i] \in usable
    BY <1>7, <1>8, <1>9
  <2>2. k = e
    <3>1. e \in s .. e /\ e \in Int /\ k \in Int
      BY <1>1, <2>1
    <3>2. list[e] \in usable
      BY <2>1, <3>1
    <3>3. k < e => n < Place(usable, list[e])
      <4>1. k < e => Earlier(ordered[n], list[e])
        BY <1>1, <2>1
      <4>2. ordered[n] \in usable /\ Place(usable, ordered[n]) = n
        BY <1>7, <1>8
      <4> QED
        BY <1>6, <3>2, <4>1, <4>2, PlaceGrows
    <3>4. Place(usable, list[e]) \in 1 .. n
      BY <1>7, <3>2
    <3> QED
      BY <1>7, <2>1, <3>1, <3>3, <3>4
  <2> DEFINE a == e - Window + 1
  <2>3. /\ a \in 1 .. Len(list) /\ e - a + 1 = Window
        /\ \A i \in a .. e : i \in s .. e
        /\ \A i \in a + 1 .. e : i \in s + 1 .. e
    BY <1>1, <1>5, <2>1
  <2> HIDE DEF a
  <2>4. Joined(list, a, e) /\ \A i \in a .. e : list[i] \in usable
    BY <2>1, <2>3 DEF Joined
  <2>5. PICK c \in 1 .. n, d \in 1 .. n :
           d - c + 1 = Window /\ ordered[d] = list[e] /\ Contiguous(SubSeq(ordered, c, d))
    BY <1>10, <2>3, <2>4
  <2>6. d = n
    BY <1>7, <1>8, <2>1, <2>2, <2>5
  <2>7. c = n - Window + 1
    BY <1>5, <1>7, <2>5, <2>6
  <2> QED
    BY <2>5, <2>6, <2>7
<1> QED
  BY <1>11, <1>12 DEF ordered, n, usable, segments

\* The gate counts rows where training counts windows: it expects one where
\* training gets one, at least as many as training gets, exactly as many of one
\* unbroken segment.
LEMMA CountsAgree ==
  ASSUME NEW table, Log(table)
  PROVE  LET rows == OwnOf(table, {})
             expected == GateWindows(rows)
             fitted == TrainingMatrices(rows)
             audited == AuditUsable(InOrder(rows))
         IN /\ fitted.train # {} <=> expected.train > 0
            /\ fitted.calibration # {} <=> expected.calibration > 0
            /\ Cardinality(fitted.train) <= expected.train
            /\ Cardinality(fitted.calibration) <= expected.calibration
            /\ Cardinality(Prepare(rows)) = 1 =>
                  /\ Cardinality(fitted.train) = expected.train
                  /\ Cardinality(fitted.calibration) = expected.calibration
            /\ Stride <= AuditStride => Kept(Prepare(rows)) <= audited
            /\ Stride >= AuditStride => Kept(Prepare(rows)) >= audited
<1> DEFINE rows == OwnOf(table, {})
           list == InOrder(rows)
           segments == Prepare(rows)
           usable == RowsOf(segments)
           ordered == InOrder(usable)
           n == Cardinality(usable)
           cut == (n * SplitNum) \div SplitDen
           train == SubSeq(ordered, 1, cut)
           calibration == SubSeq(ordered, cut + 1, n)
<1>1. /\ Datable(rows) /\ Deduped(rows) = rows
      /\ \A row \in rows : row.id \in 1 .. Len(table) /\ row = table[row.id]
  BY OwnListed
<1>2. \A a, b \in rows : a.id = b.id => a = b
  BY <1>1
<1> HIDE DEF rows
<1>3. /\ list \in Seq(rows) /\ Len(list) \in Nat /\ DOMAIN list = 1 .. Len(list)
      /\ \A i, j \in DOMAIN list : i < j => Earlier(list[i], list[j])
      /\ ToSet(list) = rows
  <2>1. Len(list) = Cardinality(rows) /\ list \in Seq(rows) /\ DOMAIN list = 1 .. Cardinality(rows)
        /\ Cardinality(rows) \in Nat
    BY <1>1, OrderPlaces
  <2> QED
    BY <1>1, <2>1, OrderListed
<1>4. segments = {segment \in Cut(list) : Len(segment) >= Window}
  BY <1>1 DEF Prepare
<1>5. /\ Stride <= AuditStride => Kept(segments) <= AuditUsable(list)
      /\ Stride >= AuditStride => Kept(segments) >= AuditUsable(list)
  <2>1. Distinct(list)
    BY <1>1, <1>3, AscendingListed
  <2> HIDE DEF list, segments
  <2>2. Usable(Stride, list) = Kept(segments)
    BY <1>3, <1>4, <2>1, UsableKept
  <2>3. AuditUsable(list) = Usable(AuditStride, list)
    BY DEF AuditUsable, AuditSegment, Usable, Around
  <2>4. Stride \in Nat /\ AuditStride \in Nat
    BY PreparationAssumption DEF AuditStride
  <2> HIDE DEF AuditStride
  <2> QED
    BY <1>3, <2>2, <2>3, <2>4, WiderStride
<1>6. usable \subseteq rows
  BY <1>1, PreparedRows
<1> HIDE DEF list, segments
<1>7. Datable(usable) /\ \A a, b \in usable : a.id = b.id => a = b
  <2> HIDE DEF usable
  <2> QED
    BY <1>1, <1>2, <1>6, DatablePart
<1> HIDE DEF usable
<1>8. /\ n \in Nat /\ cut \in 0 .. n
      /\ train \in Seq(usable) /\ calibration \in Seq(usable)
      /\ TimeSplit(usable) = [train |-> ToSet(train), calibration |-> ToSet(calibration)]
      /\ Len(train) = cut /\ Len(calibration) = n - cut
      /\ \A i \in 1 .. cut : train[i] = ordered[i]
      /\ \A i \in 1 .. n - cut : calibration[i] = ordered[cut + i]
      /\ \A i, j \in DOMAIN train : i < j => Earlier(train[i], train[j])
      /\ \A i, j \in DOMAIN calibration : i < j => Earlier(calibration[i], calibration[j])
      /\ ToSet(train) \subseteq usable /\ ToSet(calibration) \subseteq usable
      /\ Cardinality(ToSet(train)) = cut /\ Cardinality(ToSet(calibration)) = n - cut
  BY <1>7, SplitSides
<1>9. /\ GateWindows(rows).train = ApproximateWindows(cut)
      /\ GateWindows(rows).calibration = ApproximateWindows(n - cut)
  BY DEF GateWindows, Kept, segments, usable
<1>10. /\ TrainingMatrices(rows).train = BuildMatrix(Prepare(ToSet(train)))
       /\ TrainingMatrices(rows).calibration = BuildMatrix(Prepare(ToSet(calibration)))
  BY <1>8 DEF TrainingMatrices, segments, usable
<1> HIDE DEF n, cut, train, calibration
<1>11. Datable(ToSet(train)) /\ Datable(ToSet(calibration))
  BY <1>7, <1>8, DatablePart
<1>12. /\ Cardinality(TrainingMatrices(rows).train) <= GateWindows(rows).train
       /\ Cardinality(TrainingMatrices(rows).calibration) <= GateWindows(rows).calibration
  BY <1>8, <1>9, <1>10, <1>11, WindowsBounded
<1>w. Window \in Nat /\ Window >= 1 /\ cut \in Nat /\ n - cut \in Nat
  BY <1>8, Sizes
<1>14. usable # {} => /\ n >= Window
                      /\ Contiguous(SubSeq(ordered, 1, Window))
                      /\ Contiguous(SubSeq(ordered, n - Window + 1, n))
  BY <1>1, EndWindows DEF n, usable, segments
<1>15. /\ BuildMatrix(Prepare(ToSet(train))) = {w \in Stretches(train, Window) : Contiguous(w)}
       /\ BuildMatrix(Prepare(ToSet(calibration))) = {w \in Stretches(calibration, Window) : Contiguous(w)}
  <2>1. /\ \A a, b \in ToSet(train) : a.id = b.id => a = b
        /\ \A a, b \in ToSet(calibration) : a.id = b.id => a = b
    BY <1>7, <1>8
  <2> QED
    BY <1>8, <1>11, <2>1, WindowsOfList
<1>16. ordered \in Seq(usable) /\ Len(ordered) = n /\ (n # 0 => usable # {})
  <2>1. ordered \in Seq(usable) /\ Len(ordered) = n
    BY <1>7, OrderPlaces DEF n
  <2>2. n # 0 => usable # {}
    BY FS_EmptySet DEF n
  <2> QED
    BY <2>1, <2>2
<1> HIDE DEF ordered
<1>17. ASSUME cut >= Window PROVE BuildMatrix(Prepare(ToSet(train))) # {}
  <2>1. n # 0 /\ 1 \in 1 .. Len(train) /\ Window \in 1 .. Len(train) /\ Window \in 1 - 1 .. Len(train)
        /\ 1 \in 1 .. Len(ordered) /\ Window \in 1 - 1 .. Len(ordered) /\ Window - 1 + 1 = Window
        /\ 1 \in 1 .. (Len(train) - Window + 1) /\ 1 + Window - 1 = Window
    BY <1>8, <1>16, <1>17, <1>w
  <2>2. SubSeq(train, 1, Window) = SubSeq(ordered, 1, Window)
    <3> DEFINE v == SubSeq(train, 1, Window)
               u == SubSeq(ordered, 1, Window)
    <3>1. /\ v \in Seq(usable) /\ Len(v) = Window - 1 + 1
          /\ \A i \in 1 .. Window - 1 + 1 : v[i] = train[1 + i - 1]
      BY <1>8, <2>1, PartOf
    <3>2. /\ u \in Seq(usable) /\ Len(u) = Window - 1 + 1
          /\ \A i \in 1 .. Window - 1 + 1 : u[i] = ordered[1 + i - 1]
      BY <1>16, <2>1, PartOf
    <3>3. \A i \in 1 .. Window : 1 + i - 1 = i /\ i \in 1 .. cut
      BY <1>17, <1>w
    <3> HIDE DEF v, u
    <3>4. \A i \in 1 .. Window : v[i] = u[i]
      BY <1>8, <2>1, <3>1, <3>2, <3>3
    <3>5. v = u
      BY <2>1, <3>1, <3>2, <3>4, SeqEqual
    <3> QED
      BY <3>5 DEF v, u
  <2>3. SubSeq(train, 1, Window) \in Stretches(train, Window)
    BY <2>1 DEF Stretches
  <2> QED
    BY <1>14, <1>15, <1>16, <2>1, <2>2, <2>3
<1>18. ASSUME n - cut >= Window PROVE BuildMatrix(Prepare(ToSet(calibration))) # {}
  <2> DEFINE m == n - cut
             f == m - Window + 1
             g == n - Window + 1
  <2>1. /\ n # 0 /\ m \in Int /\ f \in Int /\ g \in Int /\ n \in Int /\ cut \in Int
        /\ f \in 1 .. m /\ m \in f - 1 .. m /\ m - f + 1 = Window
        /\ g \in 1 .. n /\ n \in g - 1 .. n /\ n - g + 1 = Window
        /\ f \in 1 .. (m - Window + 1) /\ f + Window - 1 = m
        /\ \A i \in 1 .. Window : f + i - 1 \in 1 .. m /\ cut + (f + i - 1) = g + i - 1
    BY <1>8, <1>18, <1>w
  <2>0. Len(calibration) = m /\ \A i \in 1 .. m : calibration[i] = ordered[cut + i]
    BY <1>8
  <2> HIDE DEF m, f
  <2>2. SubSeq(calibration, f, m) = SubSeq(ordered, g, n)
    <3> DEFINE v == SubSeq(calibration, f, m)
               u == SubSeq(ordered, g, n)
    <3> HIDE DEF g
    <3>1. /\ v \in Seq(usable) /\ Len(v) = m - f + 1
          /\ \A i \in 1 .. m - f + 1 : v[i] = calibration[f + i - 1]
      <4>1. calibration \in Seq(usable)
        BY <1>8
      <4>2. f \in 1 .. Len(calibration) /\ m \in f - 1 .. Len(calibration)
        BY <2>0, <2>1
      <4> QED
        BY <4>1, <4>2, PartOf
    <3>2. /\ u \in Seq(usable) /\ Len(u) = n - g + 1
          /\ \A i \in 1 .. n - g + 1 : u[i] = ordered[g + i - 1]
      BY <1>16, <2>1, PartOf
    <3> HIDE DEF v, u
    <3>4. \A i \in 1 .. Window : v[i] = u[i]
      BY <2>0, <2>1, <3>1, <3>2
    <3>5. v = u
      BY <2>1, <3>1, <3>2, <3>4, SeqEqual
    <3> QED
      BY <3>5 DEF v, u
  <2>3. SubSeq(calibration, f, m) \in Stretches(calibration, Window)
    BY <2>0, <2>1 DEF Stretches
  <2>4. Contiguous(SubSeq(ordered, g, n))
    BY <1>14, <1>16, <2>1
  <2> QED
    BY <1>15, <2>2, <2>3, <2>4
<1>19. /\ TrainingMatrices(rows).train # {} <=> GateWindows(rows).train > 0
       /\ TrainingMatrices(rows).calibration # {} <=> GateWindows(rows).calibration > 0
  <2>1. /\ GateWindows(rows).train > 0 <=> cut >= Window
        /\ GateWindows(rows).calibration > 0 <=> n - cut >= Window
    BY <1>9, <1>w DEF ApproximateWindows
  <2>2. ASSUME ~(cut >= Window) PROVE BuildMatrix(Prepare(ToSet(train))) = {}
    <3> DEFINE X == BuildMatrix(Prepare(ToSet(train)))
    <3>1. IsFiniteSet(X) /\ Cardinality(X) \in Nat /\ Cardinality(X) <= ApproximateWindows(cut)
      BY <1>8, <1>11, WindowsBounded
    <3>2. ApproximateWindows(cut) = 0
      BY <2>2 DEF ApproximateWindows
    <3> HIDE DEF X
    <3>3. Cardinality(X) = 0
      BY <3>1, <3>2
    <3>4. X = {}
      BY <3>1, <3>3, FS_EmptySet
    <3> QED
      BY <3>4 DEF X
  <2>3. ASSUME ~(n - cut >= Window) PROVE BuildMatrix(Prepare(ToSet(calibration))) = {}
    <3> DEFINE X == BuildMatrix(Prepare(ToSet(calibration)))
    <3>1. IsFiniteSet(X) /\ Cardinality(X) \in Nat /\ Cardinality(X) <= ApproximateWindows(n - cut)
      BY <1>8, <1>11, WindowsBounded
    <3>2. ApproximateWindows(n - cut) = 0
      BY <2>3 DEF ApproximateWindows
    <3> HIDE DEF X
    <3>3. Cardinality(X) = 0
      BY <3>1, <3>2
    <3>4. X = {}
      BY <3>1, <3>3, FS_EmptySet
    <3> QED
      BY <3>4 DEF X
  <2> QED
    BY <1>10, <1>17, <1>18, <2>1, <2>2, <2>3
<1>13. ASSUME Cardinality(segments) = 1
       PROVE  /\ Cardinality(TrainingMatrices(rows).train) = GateWindows(rows).train
              /\ Cardinality(TrainingMatrices(rows).calibration) = GateWindows(rows).calibration
  <2>1. PICK segment : segments = {segment}
    <3>1. IsFiniteSet(segments)
      <4> DEFINE S == Starts(list)
                 f == [s \in S |-> SubSeq(list, s, EndOf(list, s))]
      <4>1. S \in SUBSET (1 .. Len(list))
        BY <1>3 DEF Starts
      <4>2. IsFiniteSet(S)
        <5>1. IsFiniteSet(1 .. Len(list))
          BY <1>3, FS_Interval
        <5> QED
          BY <4>1, <5>1, FS_Subset
      <4>3. f \in Surjection(S, Cut(list))
        BY DEF Surjection, Cut
      <4> HIDE DEF S, f
      <4>4. IsFiniteSet(Cut(list))
        BY <4>2, <4>3, FS_Surjection
      <4>5. segments \in SUBSET Cut(list)
        BY <1>4
      <4> QED
        BY <4>4, <4>5, FS_Subset
    <3> QED
      BY <1>13, <3>1, FS_Singleton
  <2>2. PICK s \in Starts(list) : segment = SubSeq(list, s, EndOf(list, s))
    BY <1>4, <2>1 DEF Cut
  <2> DEFINE e == EndOf(list, s)
  <2>3. s \in 1 .. Len(list) /\ e \in s .. Len(list) /\ Joined(list, s, e)
    BY <1>3, SegmentEnds
  <2>4. segment = SubSeq(list, s, e)
    BY <2>2
  <2> HIDE DEF e
  <2>5. s \in Int /\ e \in Int /\ e \in s - 1 .. Len(list)
    BY <1>3, <2>3
  <2>6. /\ segment \in Seq(rows) /\ Len(segment) = e - s + 1 /\ DOMAIN segment = 1 .. e - s + 1
        /\ \A i \in 1 .. e - s + 1 : segment[i] = list[s + i - 1]
    BY <1>3, <2>3, <2>4, <2>5, PartOf
  <2>7. usable = ToSet(segment)
    BY <2>1 DEF usable, RowsOf
  <2>8. \A i, j \in DOMAIN segment : i < j => Earlier(segment[i], segment[j])
    <3>1. \A i \in 1 .. e - s + 1 : s + i - 1 \in DOMAIN list
      BY <1>3, <2>3, <2>5
    <3>2. \A i, j \in 1 .. e - s + 1 : i < j => s + i - 1 < s + j - 1
      BY <2>5
    <3> QED
      BY <1>3, <2>6, <3>1, <3>2
  <2>9. ordered = segment /\ n = Len(segment)
    <3>1. ordered = segment /\ Distinct(segment)
      BY <1>7, <2>6, <2>7, <2>8, AscendingListed DEF ordered
    <3> QED
      BY <2>6, <2>7, <3>1, DistinctCounted DEF n
  <2>10. Joined(segment, 1, n)
    <3>1. Contiguous(segment)
      BY <1>3, <2>3, <2>4, <2>5, JoinedPart
    <3>2. \A i \in 1 + 1 .. n : i - 1 \in 1 .. Len(segment) - 1 /\ (i - 1) + 1 = i
      BY <1>8, <2>9
    <3> QED
      BY <3>1, <3>2 DEF Joined, Contiguous
  <2>11. Joined(train, 1, Len(train))
    <3>1. \A i \in 1 + 1 .. cut : i \in 1 .. cut /\ i - 1 \in 1 .. cut /\ i \in 1 + 1 .. n
      BY <1>8
    <3> QED
      BY <1>8, <2>9, <2>10, <3>1 DEF Joined
  <2>12. Joined(calibration, 1, Len(calibration))
    <3>1. \A i \in 1 + 1 .. n - cut :
             /\ i \in 1 .. n - cut /\ i - 1 \in 1 .. n - cut
             /\ cut + i \in 1 + 1 .. n /\ cut + (i - 1) = (cut + i) - 1
      BY <1>8
    <3> QED
      BY <1>8, <2>9, <2>10, <3>1 DEF Joined
  <2>13. /\ \A a, b \in ToSet(train) : a.id = b.id => a = b
         /\ \A a, b \in ToSet(calibration) : a.id = b.id => a = b
    BY <1>7, <1>8
  <2>14. Cardinality(BuildMatrix(Prepare(ToSet(train)))) = ApproximateWindows(Len(train))
    BY <1>8, <1>11, <2>11, <2>13, WindowsOfUnbroken
  <2>15. Cardinality(BuildMatrix(Prepare(ToSet(calibration)))) = ApproximateWindows(Len(calibration))
    BY <1>8, <1>11, <2>12, <2>13, WindowsOfUnbroken
  <2> QED
    BY <1>8, <1>9, <1>10, <2>14, <2>15
<1> QED
  BY <1>5, <1>12, <1>13, <1>19 DEF rows, list, segments

\* The counts that the gate and the audit take from the rows of a dataset tell
\* what training and preparation get: a window on a side where the gate expects
\* one, never more than it expects, and the rows the audit finds usable up to
\* the difference of the strides, for every table a device can have filled
\* (gate.py:207, gate.py:231, sqlite_source.py:224).
THEOREM CountsAlwaysAgree == WindowSpec => []GateAndAuditAgree
<1>1. WindowInit => FollowInv
  BY FollowInit
<1>2. FollowInv /\ [WindowNext]_windowVars => FollowInv'
  BY FollowSteps
<1>3. ASSUME FollowInv PROVE GateAndAuditAgree
  <2>1. Log(stored)
    BY <1>3 DEF FollowInv, Follows
  <2> QED
    BY <2>1, Datasets, CountsAgree DEF GateAndAuditAgree
<1> QED
  BY <1>1, <1>2, <1>3, PTL DEF WindowSpec

-------------------------------------------------------------------------------
(* The release of a model *)

\* What a training run can be given, and everything it can build from that.
Inputs ==
    Exports \X ({m \in Manifests : Parses(m)} \cup {NoManifest})
      \X (Devices \cup {""}) \X BOOLEAN \X BOOLEAN

Buildable == UNION {Trained(input[1], input[2], input[3], input[4], input[5]) : input \in Inputs}

Identified(id) ==
    /\ built[id].device = settings.device
    /\ built[id].regime = settings.regime

\* The metadata the decision was taken by passed the checks.
Admitted ==
    /\ Identified(decided)
    /\ settings.requireValidated => built[decided].quality = "validated"

\* What each look at the directory has established.
LoadInv ==
    /\ backend \in {"down", "read", "check", "engine read", "engine check", "unpickle", "up"}
    /\ backend \in {"check", "engine read", "engine check", "unpickle"} => decided \in Artifacts
    /\ backend \in {"engine read", "engine check", "unpickle"} => Admitted
    /\ backend \in {"engine check", "unpickle"} => engine \in Artifacts
    /\ backend = "unpickle" => Identified(engine)
    /\ backend # "up" => mode = "unavailable" /\ model = Absent
    /\ model # Absent => /\ {decided, engine, model} \subseteq Artifacts
                         /\ Admitted
                         /\ Identified(engine)
    /\ mode = "active" => /\ decided \in Artifacts /\ model # Absent
                          /\ built[decided].quality = "validated"

\* What the directory still shows, unless a save has overtaken the look.
LookInv ==
    /\ backend \in {"check", "engine read"} /\ "decision" \notin raced =>
          Directory.metadata = decided
    /\ backend = "engine read" /\ "decision" \notin raced => Directory.pickle = decided
    /\ backend \in {"engine check", "unpickle"} /\ "decision" \notin raced => engine = decided
    /\ backend = "unpickle" /\ "engine" \notin raced => Directory.pickle = engine
    /\ model # Absent =>
          /\ "decision" \notin raced => engine = decided
          /\ "engine" \notin raced => model = engine

ReleaseInv ==
    /\ built \in Seq(Buildable)
    /\ DOMAIN disk = Devices /\ settings.directory \in Devices
    /\ LoadInv
    /\ LookInv

-------------------------------------------------------------------------------

\* What is known of the artifacts built so far stays known.
LEMMA BuiltGrows ==
    ASSUME NEW S, built \in Seq(S), NEW artifact \in S, built' = Append(built, artifact)
    PROVE  /\ built' \in Seq(S)
           /\ \A id \in Artifacts : id \in Artifacts' /\ built'[id] = built[id]
  <1>1. built' \in Seq(S) /\ Len(built') = Len(built) + 1 /\ Len(built) \in Nat
    OBVIOUS
  <1>2. Artifacts = 1 .. Len(built) /\ Artifacts' = 1 .. Len(built')
    BY <1>1 DEF Artifacts
  <1>3. \A id \in 1 .. Len(built) : built'[id] = built[id]
    OBVIOUS
  <1>. QED BY <1>1, <1>2, <1>3

\* No artifact has the number of an absent file.
LEMMA NumbersArePositive ==
    ASSUME built \in Seq(Buildable) PROVE Absent \notin Artifacts
  BY DEF Absent, Artifacts

LEMMA ReleaseInitInv == ReleaseInit => ReleaseInv
  BY ReleaseAssumption DEF ReleaseInit, ReleaseInv, LoadInv, LookInv, Absent, Artifacts

\* What is known of the artifacts built before a training run stays known.
LEMMA TrainInv == ASSUME ReleaseInv, Train PROVE ReleaseInv'
  <1>1. PICK rows \in Exports, manifest \in {m \in Manifests : Parses(m)} \cup {NoManifest},
              asked \in Devices \cup {""}, synthetic \in BOOLEAN, promote \in BOOLEAN :
          \E artifact \in Trained(rows, manifest, asked, synthetic, promote) :
             built' = Append(built, artifact)
    BY DEF Train
  <1>2. PICK artifact \in Trained(rows, manifest, asked, synthetic, promote) :
          built' = Append(built, artifact)
    BY <1>1
  <1>3. artifact \in Buildable
    <2>1. <<rows, manifest, asked, synthetic, promote>> \in Inputs
      BY DEF Inputs
    <2>2. \E input \in Inputs :
            artifact \in Trained(input[1], input[2], input[3], input[4], input[5])
      BY <1>2, <2>1
    <2>. QED BY <2>2 DEF Buildable
  <1>4. built \in Seq(Buildable)
    BY DEF ReleaseInv
  <1>5. /\ built' \in Seq(Buildable)
        /\ \A id \in Artifacts : id \in Artifacts' /\ built'[id] = built[id]
    BY <1>2, <1>3, <1>4, BuiltGrows
  <1>6. UNCHANGED <<disk, backend, settings, decided, engine, model, mode, raced>>
    BY DEF Train, load
  <1>7. LoadInv'
    BY <1>4, <1>5, <1>6, NumbersArePositive DEF ReleaseInv, LoadInv, Admitted, Identified
  <1>8. LookInv'
    BY <1>6 DEF ReleaseInv, LookInv, Directory
  <1>. QED BY <1>5, <1>6, <1>7, <1>8 DEF ReleaseInv

\* A save changes what a load will find; of what the load has found it makes
\* stale only what raced says.
LEMMA WritesInv ==
    ASSUME ReleaseInv, NEW file, NEW content, Writes(file, content) PROVE ReleaseInv'
  <1>1. UNCHANGED <<built, backend, settings, decided, engine, model, mode>>
    BY DEF Writes, load
  <1>2. DOMAIN disk' = Devices /\ settings'.directory \in Devices
    BY <1>1 DEF Writes, ReleaseInv
  <1>3. LoadInv'
    BY <1>1 DEF ReleaseInv, LoadInv, Admitted, Identified, Artifacts
  <1>4. raced \subseteq raced'
    BY DEF Writes
  <1>5. CASE settings.directory # Target
    <2>1. Directory' = Directory
      BY <1>1, <1>5 DEF Writes, ReleaseInv, Directory
    <2>. QED BY <1>1, <1>2, <1>3, <1>4, <2>1 DEF ReleaseInv, LookInv
  <1>6. CASE settings.directory = Target
    <2>1. /\ backend \in {"check", "engine read"} => "decision" \in raced'
          /\ backend \in {"engine check", "unpickle"} => "engine" \in raced'
      BY <1>6 DEF Writes
    <2>2. LookInv'
      BY <1>1, <1>4, <2>1 DEF ReleaseInv, LookInv
    <2>. QED BY <1>1, <1>2, <1>3, <2>2 DEF ReleaseInv
  <1>. QED BY <1>5, <1>6

\* One look of the load.
LEMMA LoadStepInv ==
    ASSUME ReleaseInv, Start \/ ReadMetadata \/ Check \/ EngineRead \/ EngineCheck \/ Unpickle \/ Stop
    PROVE ReleaseInv'
  <1>1. UNCHANGED <<built, disk, settings>>
    BY DEF Start, ReadMetadata, Check, EngineRead, EngineCheck, Unpickle, Stop, others
  <1>2. Artifacts' = Artifacts /\ Directory' = Directory
    BY <1>1 DEF Artifacts, Directory
  <1>3. Absent \notin Artifacts
    BY NumbersArePositive DEF ReleaseInv
  <1>4. SUFFICES LoadInv' /\ LookInv'
    BY <1>1 DEF ReleaseInv
  <1>5. CASE Start
    BY <1>1, <1>2, <1>5 DEF Start, Unavailable, ReleaseInv, LoadInv, LookInv, Absent
  <1>6. CASE ReadMetadata
    BY <1>1, <1>2, <1>6 DEF ReadMetadata, Unavailable, ReleaseInv, LoadInv, LookInv, Absent
  <1>7. CASE Check
    BY <1>1, <1>2, <1>7 DEF Check, Valid, Unavailable, ReleaseInv, LoadInv, LookInv, Absent, Admitted, Identified
  <1>8. CASE EngineRead
    BY <1>1, <1>2, <1>8 DEF EngineRead, Unavailable, ReleaseInv, LoadInv, LookInv, Absent, Admitted, Identified
  <1>9. CASE EngineCheck
    BY <1>1, <1>2, <1>9 DEF EngineCheck, Valid, Unavailable, ReleaseInv, LoadInv, LookInv, Absent, Admitted, Identified
  <1>10. CASE Unpickle
    BY <1>1, <1>2, <1>3, <1>10
       DEF Unpickle, ModeOf, Unavailable, ReleaseInv, LoadInv, LookInv, Admitted, Identified
  <1>11. CASE Stop
    BY <1>1, <1>2, <1>11 DEF Stop, ReleaseInv, LoadInv, LookInv
  <1>. QED BY <1>5, <1>6, <1>7, <1>8, <1>9, <1>10, <1>11

LEMMA ReleaseNextInv == ASSUME ReleaseInv, [ReleaseNext]_releaseVars PROVE ReleaseInv'
  <1>1. CASE Train
    BY <1>1, TrainInv
  <1>2. CASE OpenPickle \/ DumpPickle \/ OpenMetadata \/ WriteMetadata
    BY <1>2, WritesInv DEF OpenPickle, DumpPickle, OpenMetadata, WriteMetadata
  <1>3. CASE TrainerCrash \/ UNCHANGED releaseVars
    BY <1>3 DEF TrainerCrash, releaseVars, load, ReleaseInv, LoadInv, LookInv, Artifacts, Directory,
                Admitted, Identified
  <1>4. CASE Start \/ ReadMetadata \/ Check \/ EngineRead \/ EngineCheck \/ Unpickle \/ Stop
    BY <1>4, LoadStepInv
  <1>. QED BY <1>1, <1>2, <1>3, <1>4 DEF ReleaseNext

LEMMA ReleaseInvariance == ReleaseSpec => []ReleaseInv
  BY ReleaseInitInv, ReleaseNextInv, PTL DEF ReleaseSpec

-------------------------------------------------------------------------------

\* Only validated evidence acts (loader.py:179), for every value of the
\* constants: an active backend was decided by validated metadata, and unless a
\* save overtook the load, so is the model it runs.
THEOREM ValidatedActs == ReleaseSpec => []ActiveIsValidated
  <1>1. ReleaseInv => ActiveIsValidated
    BY DEF ReleaseInv, LoadInv, LookInv, Admitted, Identified, ActiveIsValidated, Loaded
  <1>. QED BY <1>1, ReleaseInvariance, PTL

\* No pickle is loaded but the one the engine's own metadata describes
\* (artifact.py:262), whatever crash or retraining went before, unless a save
\* wrote between that look and the unpickling.
THEOREM OwnPickleOnly == ReleaseSpec => []TornNeverLoaded
  <1>1. ReleaseInv => TornNeverLoaded
    BY DEF ReleaseInv, LookInv, TornNeverLoaded, Loaded
  <1>. QED BY <1>1, ReleaseInvariance, PTL

-------------------------------------------------------------------------------
(* What an artifact marked validated was fitted on *)

LEMMA NothingListed == InOrder({}) = <<>> /\ Cut(<<>>) = {}
<1>1. Cardinality({}) = 0
  BY FS_EmptySet
<1>2. Datable({})
  BY FS_EmptySet DEF Datable
<1>3. InOrder({}) \in Seq({}) /\ Len(InOrder({})) = 0
  BY <1>1, <1>2, OrderPlaces
<1>4. Starts(<<>>) = {}
  BY DEF Starts
<1> QED
  BY <1>3, <1>4, EmptySeq DEF Cut

LEMMA NothingPrepared == TrainingMatrices({}).train = {}
<1>1. Deduped({}) = {}
  BY DEF Deduped
<1>2. Prepare({}) = {}
  BY <1>1, NothingListed DEF Prepare
<1>3. RowsOf({}) = {} /\ BuildMatrix({}) = {}
  BY DEF RowsOf, BuildMatrix
<1>4. TimeSplit({}).train = {}
  <2>1. (0 * SplitNum) \div SplitDen = 0
    BY PreparationAssumption
  <2>2. Len(<<>>) = 0 /\ SubSeq(<<>>, 1, 0) = <<>> /\ ToSet(<<>>) = {}
    BY DEF ToSet
  <2> QED
    BY <2>1, <2>2, NothingListed DEF TimeSplit
<1> QED
  BY <1>2, <1>3, <1>4 DEF TrainingMatrices

\* An interval that covers the row exists, and the first of them gives its
\* label: it is an approved one, which no event overlaps, or an event.
LEMMA FirstCovering ==
  ASSUME NEW manifest \in Manifests, Parses(manifest), NEW row, row.at \in Int,
         Covering(manifest, row) # {}
  PROVE  LET label == Intervals(manifest)[Min(Covering(manifest, row))].label
         IN \/ /\ \E interval \in ToSet(manifest.approved) : Covers(interval, row)
               /\ \A event \in ToSet(manifest.events) : ~Covers(event, row)
            \/ \E event \in ToSet(manifest.events) : event.label = label /\ Covers(event, row)
<1> DEFINE approved == manifest.approved
           events == manifest.events
           all == Intervals(manifest)
           S == Covering(manifest, row)
           i == Min(S)
<1>1. /\ approved \in Seq(Span) /\ events \in Seq(Span)
      /\ Len(approved) \in Nat /\ Len(events) \in Nat
      /\ DOMAIN approved = 1 .. Len(approved) /\ DOMAIN events = 1 .. Len(events)
  BY ReleaseAssumption, LenProperties
<1>0. all = approved \o events
  BY DEF Intervals
<1> HIDE DEF approved, events, all
<1>2. /\ all \in Seq(Span) /\ Len(all) = Len(approved) + Len(events)
      /\ DOMAIN all = 1 .. Len(approved) + Len(events)
      /\ \A k \in 1 .. Len(approved) : all[k] = approved[k]
      /\ \A k \in Len(approved) + 1 .. Len(approved) + Len(events) : all[k] = events[k - Len(approved)]
  <2>2. /\ all \in Seq(Span) /\ Len(all) = Len(approved) + Len(events)
        /\ \A k \in 1 .. Len(approved) + Len(events) :
              all[k] = IF k <= Len(approved) THEN approved[k] ELSE events[k - Len(approved)]
    BY <1>0, <1>1, ConcatProperties
  <2>3. DOMAIN all = 1 .. Len(approved) + Len(events)
    BY <2>2, LenProperties
  <2>4. /\ \A k \in 1 .. Len(approved) : k \in 1 .. Len(approved) + Len(events) /\ k <= Len(approved)
        /\ \A k \in Len(approved) + 1 .. Len(approved) + Len(events) :
              k \in 1 .. Len(approved) + Len(events) /\ ~(k <= Len(approved))
    BY <1>1
  <2> QED
    BY <2>2, <2>3, <2>4
<1>3. i \in S
  <2>1. S \in SUBSET Nat /\ S # {}
    <3>1. \A k \in DOMAIN all : k \in Nat
      BY <1>1, <1>2
    <3> QED
      BY <3>1 DEF Covering, all
  <2> HIDE DEF S
  <2>2. \E m \in S : \A k \in S : m <= k
    BY <2>1, LeastNat
  <2> QED
    BY <2>2 DEF Min
<1> HIDE DEF i
<1>4. i \in 1 .. Len(approved) + Len(events) /\ Covers(all[i], row)
  BY <1>2, <1>3 DEF Covering, all
<1> HIDE DEF S
<1>5. CASE i \in 1 .. Len(approved)
  <2> DEFINE normal == approved[i]
  <2>1. normal \in ToSet(approved) /\ Covers(normal, row)
    BY <1>1, <1>2, <1>4, <1>5 DEF ToSet
  <2>2. ASSUME NEW event \in ToSet(events) PROVE ~Covers(event, row)
    <3>1. ~Overlap(normal, event)
      BY <2>1 DEF Parses, approved, events
    <3>2. normal \in Span /\ event \in Span
      BY <1>1, <1>5, ElementOfSeq DEF ToSet
    <3>3. /\ normal.from \in Int /\ normal.to \in Int /\ event.from \in Int /\ event.to \in Int
      BY <3>2 DEF Span
    <3> HIDE DEF normal
    <3> QED
      BY <2>1, <3>1, <3>3 DEF Overlap, Covers
  <2> QED
    BY <2>1, <2>2 DEF approved, events
<1>6. CASE i \in Len(approved) + 1 .. Len(approved) + Len(events)
  <2>1. i - Len(approved) \in 1 .. Len(events) /\ all[i] = events[i - Len(approved)]
    BY <1>1, <1>2, <1>6
  <2>2. all[i] \in ToSet(events)
    BY <1>1, <2>1 DEF ToSet
  <2> QED
    BY <1>4, <2>2 DEF all, S, i, events
<1>7. i \in 1 .. Len(approved) \/ i \in Len(approved) + 1 .. Len(approved) + Len(events)
  BY <1>1, <1>4
<1> QED
  BY <1>5, <1>6, <1>7

LEMMA StampedRow ==
  ASSUME NEW manifest, NEW row
  PROVE  /\ Stamped(manifest, row).id = row.id /\ Stamped(manifest, row).at = row.at
         /\ Stamped(manifest, row).label
              = Intervals(manifest)[Min(Covering(manifest, row))].label
BY DEF Stamped

LEMMA ApprovedDatable ==
  ASSUME NEW rows \in Exports, NEW manifest
  PROVE  /\ Datable(Approved(rows, manifest))
         /\ \A row \in Approved(rows, manifest) : \E r \in rows :
               row = Stamped(manifest, r) /\ Covering(manifest, r) # {} /\ r.at \in Int
<1>1. Datable(rows)
  BY ReleaseAssumption DEF Datable
<1> DEFINE chosen == {r \in rows : /\ r.device = manifest.device
                                   /\ manifest.boots = {} \/ r.boot \in manifest.boots
                                   /\ Covering(manifest, r) # {}}
           f == [r \in chosen |-> Stamped(manifest, r)]
           approved == Approved(rows, manifest)
<1>2. approved = {Stamped(manifest, r) : r \in chosen}
  BY DEF Approved
<1>3. Datable(chosen)
  BY <1>1, DatablePart
<1>4. \A r \in chosen : r \in rows /\ Covering(manifest, r) # {}
  OBVIOUS
<1> HIDE DEF chosen, approved
<1>5. f \in Surjection(chosen, approved)
  BY <1>2 DEF Surjection
<1>6. IsFiniteSet(approved)
  BY <1>3, <1>5, FS_Surjection DEF Datable
<1>7. ASSUME NEW row \in approved
      PROVE  \E r \in chosen : row = Stamped(manifest, r) /\ row.at = r.at /\ row.id = r.id
                               /\ r.at \in Int /\ r.id \in Int
  <2>1. PICK r \in chosen : row = Stamped(manifest, r)
    BY <1>2
  <2> QED
    BY <1>3, <2>1, StampedRow DEF Datable
<1>8. ASSUME NEW a \in approved, NEW b \in approved, a.at = b.at, a.id = b.id PROVE a = b
  <2>1. PICK r \in chosen : a = Stamped(manifest, r) /\ a.at = r.at /\ a.id = r.id
    BY <1>7
  <2>2. PICK q \in chosen : b = Stamped(manifest, q) /\ b.at = q.at /\ b.id = q.id
    BY <1>7
  <2>3. r = q
    BY <1>3, <1>8, <2>1, <2>2 DEF Datable
  <2> QED
    BY <2>1, <2>2, <2>3
<1>9. Datable(approved)
  BY <1>6, <1>7, <1>8 DEF Datable
<1> QED
  BY <1>4, <1>7, <1>9 DEF approved

\* What was dropped of the rows given is another device's.
LEMMA SelectedRows ==
  ASSUME NEW data, NEW manifest, NEW asked, \A row \in data : row.device = manifest.device
  PROVE  /\ Selected(data, manifest, asked) \subseteq Normal(data)
         /\ \/ Selected(data, manifest, asked) = Normal(data)
            \/ Selected(data, manifest, asked) = {}
<1>1. \A device : OfDevice(Normal(data), device) = (IF device = manifest.device THEN Normal(data) ELSE {})
  BY DEF OfDevice, Normal
<1> QED
  BY <1>1 DEF Selected

Attested(artifact) ==
    LET by == artifact.by
        declaredNormal(row) ==
            \E event \in ToSet(by.events) : event.label = 0 /\ Covers(event, row)
    IN artifact.quality = "validated" =>
         /\ by.provenance = "hardware" /\ by.filled
         /\ artifact.provenance = "hardware"
         /\ Cardinality(artifact.fitted) >= MinApproved
         /\ \A row \in artifact.fitted :
               /\ row.device = by.device /\ row.boot \in by.boots
               /\ \/ declaredNormal(row)
                  \/ /\ \E interval \in ToSet(by.approved) : Covers(interval, row)
                     /\ \A event \in ToSet(by.events) : ~Covers(event, row)

LEMMA NormalAttested ==
  ASSUME NEW rows \in Exports, NEW manifest \in Manifests, Parses(manifest),
         NEW row \in Normal(Approved(rows, manifest))
  PROVE  \/ \E event \in ToSet(manifest.events) : event.label = 0 /\ Covers(event, row)
         \/ /\ \E interval \in ToSet(manifest.approved) : Covers(interval, row)
            /\ \A event \in ToSet(manifest.events) : ~Covers(event, row)
<1>1. row \in Approved(rows, manifest) /\ row.label # 1
  BY DEF Normal
<1>2. PICK r \in rows : row = Stamped(manifest, r) /\ Covering(manifest, r) # {} /\ r.at \in Int
  BY <1>1, ApprovedDatable
<1> DEFINE label == Intervals(manifest)[Min(Covering(manifest, r))].label
<1>3. row.at = r.at /\ row.label = label
  BY <1>2, StampedRow
<1>4. \A interval : Covers(interval, row) <=> Covers(interval, r)
  BY <1>3 DEF Covers
<1>5. \/ /\ \E interval \in ToSet(manifest.approved) : Covers(interval, r)
         /\ \A event \in ToSet(manifest.events) : ~Covers(event, r)
      \/ \E event \in ToSet(manifest.events) : event.label = label /\ Covers(event, r)
  BY <1>2, FirstCovering
<1>6. ASSUME NEW event \in ToSet(manifest.events) PROVE event.label \in {0, 1}
  <2>1. event \in ToSet(manifest.approved \o manifest.events)
    <3>1. /\ manifest.approved \in Seq(Span) /\ manifest.events \in Seq(Span)
      BY ReleaseAssumption
    <3>2. PICK k \in DOMAIN manifest.events : event = manifest.events[k]
      BY DEF ToSet
    <3> DEFINE approved == manifest.approved
               events == manifest.events
               all == approved \o events
               j == Len(approved) + k
    <3>3. k \in 1 .. Len(events) /\ Len(approved) \in Nat /\ Len(events) \in Nat
      BY <3>1, <3>2, LenProperties
    <3> HIDE DEF approved, events
    <3>4. j \in 1 .. Len(approved) + Len(events) /\ ~(j <= Len(approved)) /\ j - Len(approved) = k
      BY <3>3
    <3> HIDE DEF j
    <3>5. /\ all \in Seq(Span) /\ Len(all) = Len(approved) + Len(events)
          /\ \A i \in 1 .. Len(approved) + Len(events) :
                all[i] = IF i <= Len(approved) THEN approved[i] ELSE events[i - Len(approved)]
      BY <3>1, ConcatProperties DEF approved, events
    <3> HIDE DEF all
    <3>6. all[j] = events[k] /\ j \in DOMAIN all
      BY <3>4, <3>5, LenProperties
    <3>7. event \in ToSet(all)
      BY <3>2, <3>6 DEF ToSet, events
    <3> QED
      BY <3>7 DEF all, approved, events
  <2> QED
    BY <2>1 DEF Parses
<1> HIDE DEF label
<1> QED
  BY <1>1, <1>3, <1>4, <1>5, <1>6

LEMMA TrainedAttested ==
  ASSUME NEW rows \in Exports, NEW manifest \in {m \in Manifests : Parses(m)} \cup {NoManifest},
         NEW asked, NEW synthetic \in BOOLEAN, NEW promote \in BOOLEAN,
         NEW artifact \in Trained(rows, manifest, asked, synthetic, promote)
  PROVE  Attested(artifact)
<1> SUFFICES ASSUME artifact.quality = "validated" PROVE Attested(artifact)
  BY DEF Attested
<1> DEFINE data == IF synthetic THEN rows ELSE Dataset(rows, manifest)
           chosen == Selected(data, manifest, asked)
           usable == RowsOf(Prepare(chosen))
           first == InOrder(usable)[1]
           matrices == TrainingMatrices(chosen)
           refused == \/ promote /\ (synthetic \/ ~GatePasses(data, manifest))
                      \/ Refuses(chosen)
                      \/ matrices.train = {} \/ matrices.calibration = {}
           made == [quality |-> IF promote THEN "validated" ELSE "not established",
                    provenance |-> IF synthetic THEN "synthetic" ELSE manifest.provenance,
                    device |-> first.device,
                    regime |-> first.regime,
                    fitted |-> usable,
                    by |-> manifest]
<1>0. Trained(rows, manifest, asked, synthetic, promote) = IF refused THEN {} ELSE {made}
  BY DEF Trained
<1>1. /\ ~(promote /\ (synthetic \/ ~GatePasses(data, manifest)))
      /\ TrainingMatrices(chosen).train # {}
      /\ artifact.quality = IF promote THEN "validated" ELSE "not established"
      /\ artifact.provenance = IF synthetic THEN "synthetic" ELSE manifest.provenance
      /\ artifact.fitted = usable
      /\ artifact.by = manifest
  <2> HIDE DEF made, data, chosen, usable
  <2>1. ~refused /\ artifact = made
    BY <1>0
  <2>2. /\ made.quality = (IF promote THEN "validated" ELSE "not established")
        /\ made.provenance = (IF synthetic THEN "synthetic" ELSE manifest.provenance)
        /\ made.fitted = usable
        /\ made.by = manifest
    BY DEF made
  <2> QED
    BY <2>1, <2>2
<1>2. ~synthetic /\ GatePasses(data, manifest)
  BY <1>1
<1>3. manifest \in Manifests /\ Parses(manifest) /\ data = Approved(rows, manifest)
  BY <1>2 DEF GatePasses, Dataset
<1>4. /\ manifest.provenance = "hardware" /\ manifest.filled
      /\ \A row \in data : row.device = manifest.device /\ row.boot \in manifest.boots
      /\ Kept(Prepare(Normal(data))) >= MinApproved
  BY <1>2 DEF GatePasses
<1>5. Datable(data)
  BY <1>3, ApprovedDatable
<1> HIDE DEF data
<1>6. chosen \subseteq Normal(data) /\ (chosen = Normal(data) \/ chosen = {})
  BY <1>4, SelectedRows
<1>7. chosen = Normal(data)
  BY <1>1, <1>6, NothingPrepared
<1>8. usable \subseteq Normal(data)
  <2>1. Normal(data) \subseteq data
    BY DEF Normal
  <2>2. Datable(Normal(data))
    BY <1>5, <2>1, DatablePart
  <2> QED
    BY <1>7, <2>2, PreparedRows
<1>9. Cardinality(usable) >= MinApproved
  BY <1>4, <1>7 DEF Kept
<1> HIDE DEF usable, chosen
<1>10. ASSUME NEW row \in usable
       PROVE  /\ row.device = manifest.device /\ row.boot \in manifest.boots
              /\ \/ \E event \in ToSet(manifest.events) : event.label = 0 /\ Covers(event, row)
                 \/ /\ \E interval \in ToSet(manifest.approved) : Covers(interval, row)
                    /\ \A event \in ToSet(manifest.events) : ~Covers(event, row)
  <2>1. row \in Normal(data) /\ row \in data
    BY <1>8 DEF Normal
  <2>2. row.device = manifest.device /\ row.boot \in manifest.boots
    BY <1>4, <2>1
  <2> QED
    BY <1>3, <2>1, <2>2, NormalAttested
<1> QED
  BY <1>1, <1>2, <1>4, <1>9, <1>10 DEF Attested

\* An artifact marked validated rests on an operator's word: a hardware
\* capture, enough rows, every one of the attested device and of a witnessed
\* boot, approved and outside every abnormal event, or declared normal by one
\* (review.py:166, train.py:118).
THEOREM PromotedRowsAttested == ReleaseSpec => []PromotedIsAttested
<1>1. ASSUME ReleaseInv PROVE PromotedIsAttested
  <2>1. ASSUME NEW artifact \in Buildable PROVE Attested(artifact)
    <3>1. PICK input \in Inputs :
             artifact \in Trained(input[1], input[2], input[3], input[4], input[5])
      BY DEF Buildable
    <3>2. /\ input[1] \in Exports /\ input[2] \in {m \in Manifests : Parses(m)} \cup {NoManifest}
          /\ input[4] \in BOOLEAN /\ input[5] \in BOOLEAN
      BY DEF Inputs
    <3> QED
      BY <3>1, <3>2, TrainedAttested
  <2>2. ASSUME NEW id \in Artifacts PROVE Attested(built[id])
    <3>1. built[id] \in Buildable
      BY <1>1, LenProperties, ElementOfSeq DEF Artifacts, ReleaseInv
    <3> QED
      BY <2>1, <3>1
  <2> QED
    BY <2>2 DEF PromotedIsAttested, Attested
<1> QED
  BY <1>1, ReleaseInvariance, PTL
-------------------------------------------------------------------------------
(* The types of the release *)

\* An artifact is of a device whose directory there is: it is named after the
\* first row it was fitted on, and there is one, or no window would be left.
LEMMA TrainedTyped ==
  ASSUME NEW rows \in Exports, NEW manifest, NEW asked, NEW synthetic, NEW promote,
         NEW artifact \in Trained(rows, manifest, asked, synthetic, promote)
  PROVE  /\ artifact.quality \in {"validated", "not established"}
         /\ artifact.device \in Devices
<1> DEFINE data == IF synthetic THEN rows ELSE Dataset(rows, manifest)
           chosen == Selected(data, manifest, asked)
           usable == RowsOf(Prepare(chosen))
           first == InOrder(usable)[1]
           matrices == TrainingMatrices(chosen)
           refused == \/ promote /\ (synthetic \/ ~GatePasses(data, manifest))
                      \/ Refuses(chosen)
                      \/ matrices.train = {} \/ matrices.calibration = {}
           made == [quality |-> IF promote THEN "validated" ELSE "not established",
                    provenance |-> IF synthetic THEN "synthetic" ELSE manifest.provenance,
                    device |-> first.device,
                    regime |-> first.regime,
                    fitted |-> usable,
                    by |-> manifest]
<1>0. Trained(rows, manifest, asked, synthetic, promote) = IF refused THEN {} ELSE {made}
  BY DEF Trained
<1>1. /\ TrainingMatrices(chosen).train # {}
      /\ artifact.quality = IF promote THEN "validated" ELSE "not established"
      /\ artifact.device = first.device
  <2> HIDE DEF made, data, chosen, first
  <2>1. ~refused /\ artifact = made
    BY <1>0
  <2>2. /\ made.quality = (IF promote THEN "validated" ELSE "not established")
        /\ made.device = first.device
    BY DEF made
  <2> QED
    BY <2>1, <2>2
<1>2. Datable(data) /\ \A row \in data : row.device \in Devices
  <2>1. Datable(rows) /\ \A row \in rows : row.device \in Devices
    BY ReleaseAssumption DEF Datable
  <2>2. Datable(Approved(rows, manifest))
    BY ApprovedDatable
  <2>3. \A row \in Approved(rows, manifest) : row.device \in Devices
    BY <2>1 DEF Approved, Stamped
  <2> QED
    BY <2>1, <2>2, <2>3 DEF Dataset
<1> HIDE DEF data
<1>3. chosen \subseteq data
  BY DEF Selected, Normal, OfDevice
<1>4. Datable(chosen)
  BY <1>2, <1>3, DatablePart
<1> HIDE DEF chosen
<1>5. usable \subseteq chosen /\ Datable(usable)
  BY <1>4, PreparedRows, DatablePart
<1>6. usable # {}
  <2>1. Datable({}) /\ RowsOf(Prepare({})) = {}
    <3>1. Datable({})
      BY FS_EmptySet DEF Datable
    <3> QED
      BY <3>1, PreparedRows
  <2>2. \A s : TrainingMatrices(s).train = BuildMatrix(Prepare(TimeSplit(RowsOf(Prepare(s))).train))
    BY DEF TrainingMatrices
  <2> QED
    BY <1>1, <2>1, <2>2, NothingPrepared
<1> HIDE DEF usable
<1>7. first \in usable
  <2>1. /\ Cardinality(usable) \in Nat
        /\ \A i \in 1 .. Cardinality(usable) : InOrder(usable)[i] \in usable
        /\ \A row \in usable : Place(usable, row) \in 1 .. Cardinality(usable)
    BY <1>5, OrderPlaces
  <2>2. PICK row \in usable : TRUE
    BY <1>6
  <2>3. 1 \in 1 .. Cardinality(usable)
    BY <2>1, <2>2
  <2> QED
    BY <2>1, <2>3
<1> HIDE DEF first
<1> QED
  BY <1>1, <1>2, <1>3, <1>5, <1>7

\* While it saves, a trainer has an artifact to save.
SavesLatest == trainer # "idle" => Latest \in Artifacts

TypedInv == ReleaseInv /\ ReleaseTypeOK /\ SavesLatest

LEMMA TypedStarts == ReleaseInit => TypedInv
<1>1. ASSUME ReleaseInit PROVE ReleaseTypeOK /\ SavesLatest
  BY <1>1, ReleaseAssumption
     DEF ReleaseInit, ReleaseTypeOK, SavesLatest, Artifacts, Files, Absent
<1> QED
  BY <1>1, ReleaseInitInv DEF TypedInv

LEMMA BuiltTyped ==
  ASSUME NEW list \in Seq(Buildable)
  PROVE  \A id \in DOMAIN list : /\ list[id].quality \in {"validated", "not established"}
                                 /\ list[id].device \in Devices
<1>1. ASSUME NEW artifact \in Buildable
      PROVE  artifact.quality \in {"validated", "not established"} /\ artifact.device \in Devices
  <2>1. PICK input \in Inputs :
           artifact \in Trained(input[1], input[2], input[3], input[4], input[5])
    BY DEF Buildable
  <2>2. input[1] \in Exports
    BY DEF Inputs
  <2> QED
    BY <2>1, <2>2, TrainedTyped
<1>2. \A id \in DOMAIN list : list[id] \in Buildable
  BY LenProperties, ElementOfSeq
<1> QED
  BY <1>1, <1>2

LEMMA TrainTyped == ASSUME TypedInv, Train PROVE ReleaseTypeOK' /\ SavesLatest'
<1>1. ReleaseInv'
  BY TrainInv DEF TypedInv
<1>2. PICK artifact : built' = Append(built, artifact)
  BY DEF Train
<1>3. built \in Seq(Buildable) /\ built' \in Seq(Buildable)
  BY <1>1 DEF TypedInv, ReleaseInv
<1>4. /\ Artifacts = 1 .. Len(built) /\ Artifacts' = 1 .. Len(built')
      /\ Len(built) \in Nat /\ Len(built') = Len(built) + 1
  <2>1. built \in Seq(Buildable \cup {artifact}) /\ artifact \in Buildable \cup {artifact}
    BY <1>3
  <2>2. Len(built') = Len(built) + 1
    BY <1>2, <2>1, AppendProperties
  <2> QED
    BY <1>3, <2>2, LenProperties DEF Artifacts
<1>5. Artifacts \subseteq Artifacts' /\ Latest' \in Artifacts'
  BY <1>4 DEF Latest
<1>6. \A id \in Artifacts' : /\ built'[id].quality \in {"validated", "not established"}
                             /\ built'[id].device \in Devices
  BY <1>3, BuiltTyped DEF Artifacts
<1>7. /\ UNCHANGED <<disk, backend, settings, decided, engine, model, mode, raced, starts>>
      /\ trainer' = "trained"
  BY DEF Train, load
<1>8. Files \subseteq Files'
  BY <1>5 DEF Files
<1>9. disk' \in [Devices -> [metadata : Files', pickle : Files']]
  BY <1>7, <1>8 DEF TypedInv, ReleaseTypeOK
<1> QED
  BY <1>5, <1>6, <1>7, <1>9 DEF TypedInv, ReleaseTypeOK, SavesLatest

LEMMA WritesTyped ==
  ASSUME TypedInv, NEW file \in {"metadata", "pickle"}, NEW content \in Files,
         Writes(file, content),
         trainer' \in {"idle", "trained", "dumping", "dumped", "describing"},
         trainer # "idle"
  PROVE  ReleaseTypeOK' /\ SavesLatest'
<1>1. UNCHANGED <<built, backend, settings, decided, engine, model, mode, starts>>
  BY DEF Writes, load
<1>2. disk' \in [Devices -> [metadata : Files, pickle : Files]]
  <2>1. disk \in [Devices -> [metadata : Files, pickle : Files]]
    BY DEF TypedInv, ReleaseTypeOK
  <2> QED
    BY <2>1 DEF Writes
<1>3. raced' \subseteq {"decision", "engine"}
  BY DEF Writes, TypedInv, ReleaseTypeOK
<1>4. Artifacts' = Artifacts /\ Latest' = Latest /\ Files' = Files
  BY <1>1 DEF Artifacts, Latest, Files
<1> QED
  BY <1>1, <1>2, <1>3, <1>4 DEF TypedInv, ReleaseTypeOK, SavesLatest

LEMMA LoadStepTyped ==
  ASSUME TypedInv, Start \/ ReadMetadata \/ Check \/ EngineRead \/ EngineCheck \/ Unpickle \/ Stop
  PROVE  ReleaseTypeOK' /\ SavesLatest'
<1>1. UNCHANGED <<built, disk, trainer, settings>>
  BY DEF Start, ReadMetadata, Check, EngineRead, EngineCheck, Unpickle, Stop, others
<1>2. Artifacts' = Artifacts /\ Latest' = Latest /\ Files' = Files
  BY <1>1 DEF Artifacts, Latest, Files
<1>3. raced' \subseteq {"decision", "engine"}
  BY DEF Start, ReadMetadata, Check, EngineRead, EngineCheck, Unpickle, Stop, TypedInv, ReleaseTypeOK
<1>4. starts' \in 0 .. MaxStarts
  <2>1. starts \in 0 .. MaxStarts /\ MaxStarts \in Nat
    BY ReleaseAssumption DEF TypedInv, ReleaseTypeOK
  <2>2. starts' = starts \/ (starts < MaxStarts /\ starts' = starts + 1)
    BY DEF Start, ReadMetadata, Check, EngineRead, EngineCheck, Unpickle, Stop
  <2> QED
    BY <2>1, <2>2
<1>5. /\ backend' \in {"down", "read", "check", "engine read", "engine check", "unpickle", "up"}
      /\ mode' \in {"active", "shadow", "unavailable"}
  BY DEF Start, ReadMetadata, Check, EngineRead, EngineCheck, Unpickle, Stop, Unavailable, ModeOf,
         TypedInv, ReleaseTypeOK
<1>6. {decided', engine', model'} \subseteq {Absent} \cup Artifacts
  BY DEF Start, ReadMetadata, Check, EngineRead, EngineCheck, Unpickle, Stop, Unavailable,
         TypedInv, ReleaseTypeOK
<1> QED
  BY <1>1, <1>2, <1>3, <1>4, <1>5, <1>6 DEF TypedInv, ReleaseTypeOK, SavesLatest

LEMMA TypedSteps == ASSUME TypedInv, [ReleaseNext]_releaseVars PROVE TypedInv'
<1>1. ReleaseInv'
  BY ReleaseNextInv DEF TypedInv
<1>2. CASE OpenPickle \/ DumpPickle \/ OpenMetadata \/ WriteMetadata
  <2>1. Torn \in Files /\ (trainer # "idle" => Latest \in Files)
    BY DEF Files, TypedInv, SavesLatest
  <2> QED
    BY <1>1, <1>2, <2>1, WritesTyped
       DEF OpenPickle, DumpPickle, OpenMetadata, WriteMetadata, TypedInv
<1>3. CASE TrainerCrash \/ UNCHANGED releaseVars
  <2>1. UNCHANGED <<built, disk, load, raced, starts>> /\ trainer' \in {"idle", trainer}
    BY <1>3 DEF TrainerCrash, releaseVars
  <2>2. Artifacts' = Artifacts /\ Latest' = Latest /\ Files' = Files
    BY <2>1 DEF Artifacts, Latest, Files
  <2> QED
    BY <1>1, <2>1, <2>2 DEF TypedInv, ReleaseTypeOK, SavesLatest, load
<1>4. CASE Train
  BY <1>1, <1>4, TrainTyped DEF TypedInv
<1>5. CASE Start \/ ReadMetadata \/ Check \/ EngineRead \/ EngineCheck \/ Unpickle \/ Stop
  BY <1>1, <1>5, LoadStepTyped DEF TypedInv
<1> QED
  BY <1>2, <1>3, <1>4, <1>5 DEF ReleaseNext
===============================================================================
