--------------------------- MODULE WorkbenchProofs ---------------------------
(***************************************************************************)
(* Proofs about the synthetic publisher and the pages of the history, and  *)
(* the types of the four components that MCWorkbench puts side by side.    *)
(*                                                                         *)
(* SyntheticPublisher: for every command line and every cap the planner    *)
(* makes sessions with boot ids of their own.  The drops are counted: in   *)
(* what a scenario makes, and in what scenarios make together, the boot id *)
(* of a message is the first one and the drops before it, a cut at the cap *)
(* leaves that so, and the sessions are the unbroken stretches between two *)
(* drops.                                                                  *)
(*                                                                         *)
(* A session whose will is out is never heard from again, wherever a send  *)
(* fails or the walk is interrupted.  The invariant says under which       *)
(* session's will each stage of the walk holds a connection, that the will *)
(* of an open connection is not out, and that every will that is out is of *)
(* a session the walk has come to: so the will of the next connection is   *)
(* always of a session still unmourned.                                    *)
(*                                                                         *)
(* An exit code of 0 tells the truth.  The invariant says that what has    *)
(* been heard, goodbyes aside, is the list of messages up to the place the *)
(* walk has reached, and that the last status is offline or a will once no *)
(* connection is left.                                                     *)
(*                                                                         *)
(* What the backend counts of such a run is what its scenario was made to  *)
(* show, for every number of samples.  A list of messages is tallied one   *)
(* at a time, so that dropping what is not sent leaves the tally; a list   *)
(* in which each reading follows one that is not far behind counts         *)
(* nothing, and such lists can be joined and cut; the out-of-order         *)
(* scenario is tallied round by round, and the jump of the gap scenario by *)
(* the place it comes at.                                                  *)
(*                                                                         *)
(* HistoryPages: a walk over a history that grows as it is read delivers   *)
(* every wanted reading once, newest first, for every table, window and    *)
(* limit.  While the clock is steady the order of the times is that of the *)
(* ids, so a listing descends and misses nothing (it is an injection of a  *)
(* finite set into itself); a page is the newest rows beyond the cursor;   *)
(* the invariant says that what has been delivered is what was wanted from *)
(* the cursor upwards, and that rows inserted since are newer than that.   *)
(***************************************************************************)
EXTENDS MCWorkbench, AnomalyModelProofs

-------------------------------------------------------------------------------
(* Recursion, where a plan is put together step by step *)

\* A message of a plan.
Plannable == [kind : (Kinds \ {"will"}) \cup {"drop"}, boot : Int, seq : Int]

\* A first value, and a step for each number behind that of the first.
Steps(V, a, n, base, step) ==
    a \in Nat /\ n \in Nat /\ a <= n /\ base \in V /\ step \in [a + 1 .. n -> [V -> V]]

Led(V, a, n, base, step) ==
    \E f \in [a .. n -> V] : f[a] = base /\ \A k \in a + 1 .. n : f[k] = step[k][f[k - 1]]

\* What is built from a first value by a step for each number exists.
LEMMA StepsLead ==
  ASSUME NEW V, NEW a, NEW n, NEW base, NEW step, Steps(V, a, n, base, step)
  PROVE  Led(V, a, n, base, step)
<1> USE DEF Steps
<1> DEFINE Leads(m) ==
             \E f \in [a .. m -> V] : f[a] = base /\ \A k \in a + 1 .. m : f[k] = step[k][f[k - 1]]
           T == {m \in a .. n : ~Leads(m)}
<1>1. T \in SUBSET Nat
  OBVIOUS
<1>2. ASSUME T # {} PROVE FALSE
  <2>1. PICK m \in T : \A k \in T : m <= k
    <3> HIDE DEF T
    <3> QED
      BY <1>1, <1>2, LeastNat
  <2>2. m \in a .. n /\ ~Leads(m)
    OBVIOUS
  <2>3. CASE m = a
    <3> DEFINE f == [i \in a .. a |-> base]
    <3>1. f \in [a .. a -> V] /\ f[a] = base /\ a + 1 .. a = {}
      OBVIOUS
    <3>2. Leads(a)
      BY <3>1
    <3> QED
      BY <2>2, <2>3, <3>2
  <2>4. CASE m # a
    <3>1. m - 1 \in a .. n /\ m \in Int /\ m > a
      BY <2>2, <2>4
    <3>2. Leads(m - 1)
      <4>1. m - 1 \notin T
        <5> HIDE DEF T
        <5> QED
          BY <2>1, <3>1
      <4> QED
        BY <3>1, <4>1
    <3>3. PICK g \in [a .. m - 1 -> V] :
             g[a] = base /\ \A k \in a + 1 .. m - 1 : g[k] = step[k][g[k - 1]]
      BY <3>2
    <3> DEFINE f == [i \in a .. m |-> IF i = m THEN step[m][g[m - 1]] ELSE g[i]]
    <3>4. step[m][g[m - 1]] \in V
      <4>1. m \in a + 1 .. n /\ m - 1 \in a .. m - 1
        BY <2>2, <3>1
      <4> QED
        BY <3>3, <4>1
    <3>5. f \in [a .. m -> V]
      <4>1. \A i \in a .. m : i # m => i \in a .. m - 1
        BY <3>1
      <4> QED
        BY <3>3, <3>4, <4>1
    <3>6. f[a] = base
      BY <2>2, <2>4, <3>3
    <3>7. ASSUME NEW k \in a + 1 .. m PROVE f[k] = step[k][f[k - 1]]
      <4>1. k \in a .. m /\ k - 1 \in a .. m /\ k - 1 # m /\ (k # m => k \in a + 1 .. m - 1)
        BY <3>1
      <4>2. f[k - 1] = g[k - 1]
        BY <4>1
      <4>3. CASE k = m
        BY <4>1, <4>2, <4>3
      <4>4. CASE k # m
        <5>1. f[k] = g[k]
          BY <4>1, <4>4
        <5> QED
          BY <3>3, <4>1, <4>2, <4>4, <5>1
      <4> QED
        BY <4>3, <4>4
    <3> HIDE DEF f
    <3>8. Leads(m)
      BY <3>5, <3>6, <3>7
    <3> QED
      BY <2>2, <3>8
  <2> QED
    BY <2>3, <2>4
<1> HIDE DEF Leads
<1>3. Leads(n)
  BY <1>2
<1> QED
  BY <1>3 DEF Leads, Led

\* A list of lists, one after the other: ...
LEMMA FlattenSteps ==
  ASSUME NEW S, NEW seqs \in Seq(Seq(S)), Len(seqs) # 0
  PROVE  \E flat : /\ FlattenSeq(seqs) = flat[Len(seqs)]
                   /\ \A k \in 1 .. Len(seqs) :
                         flat[k] = IF k = 1 THEN seqs[k] ELSE flat[k - 1] \o seqs[k]
<1> DEFINE n == Len(seqs)
           Body(g) == [i \in 1 .. n |-> IF i = 1 THEN seqs[i] ELSE g[i - 1] \o seqs[i]]
           flat == CHOOSE g : g = Body(g)
           step == [i \in 2 .. n |-> [v \in Seq(S) |-> v \o seqs[i]]]
<1>1. n \in Nat /\ \A i \in 1 .. n : seqs[i] \in Seq(S)
  BY LenProperties, ElementOfSeq
<1>2. FlattenSeq(seqs) = flat[n]
  BY DEF FlattenSeq
<1>3. step \in [1 + 1 .. n -> [Seq(S) -> Seq(S)]]
  <2>1. ASSUME NEW i \in 2 .. n, NEW v \in Seq(S) PROVE v \o seqs[i] \in Seq(S)
    <3>1. seqs[i] \in Seq(S)
      BY <1>1
    <3> QED
      BY <3>1, ConcatProperties
  <2> QED
    BY <2>1
<1>4. PICK f \in [1 .. n -> Seq(S)] : f[1] = seqs[1] /\ \A k \in 1 + 1 .. n : f[k] = step[k][f[k - 1]]
  <2>1. Steps(Seq(S), 1, n, seqs[1], step)
    BY <1>1, <1>3 DEF Steps
  <2> HIDE DEF step, n
  <2>2. Led(Seq(S), 1, n, seqs[1], step)
    BY <2>1, StepsLead
  <2> QED
    BY <2>2 DEF Led
<1>5. ASSUME NEW k \in 2 .. n PROVE k - 1 \in 1 .. n /\ f[k] = f[k - 1] \o seqs[k]
  <2>1. k - 1 \in 1 .. n /\ k \in 1 + 1 .. n
    BY <1>1
  <2>2. f[k - 1] \in Seq(S) /\ f[k] = step[k][f[k - 1]]
    BY <1>4, <2>1
  <2>3. step[k][f[k - 1]] = f[k - 1] \o seqs[k]
    BY <2>2
  <2> QED
    BY <2>1, <2>2, <2>3
<1>6. f = Body(f)
  <2>1. \A k \in 1 .. n : f[k] = IF k = 1 THEN seqs[k] ELSE f[k - 1] \o seqs[k]
    <3> SUFFICES ASSUME NEW k \in 1 .. n
                 PROVE  f[k] = IF k = 1 THEN seqs[k] ELSE f[k - 1] \o seqs[k]
      OBVIOUS
    <3>1. k # 1 => k \in 2 .. n
      BY <1>1
    <3> QED
      BY <1>4, <1>5, <3>1
  <2> QED
    BY <2>1
<1>7. flat = Body(flat)
  BY <1>6
<1> HIDE DEF flat
<1>8. \A k \in 1 .. n : flat[k] = IF k = 1 THEN seqs[k] ELSE flat[k - 1] \o seqs[k]
  BY <1>7
<1> QED
  BY <1>2, <1>8

\* ... and what is so of each stretch of them is so of all.
LEMMA FlattenLed ==
  ASSUME NEW S, NEW seqs \in Seq(Seq(S)), Len(seqs) # 0, NEW G,
         seqs[1] \in G[1],
         \A k \in 2 .. Len(seqs) : \A v \in G[k - 1] : v \o seqs[k] \in G[k]
  PROVE  FlattenSeq(seqs) \in G[Len(seqs)]
<1> DEFINE n == Len(seqs)
<1>1. n \in Nat
  BY LenProperties
<1>2. PICK flat : /\ FlattenSeq(seqs) = flat[n]
                  /\ \A k \in 1 .. n : flat[k] = IF k = 1 THEN seqs[k] ELSE flat[k - 1] \o seqs[k]
  BY FlattenSteps
<1> DEFINE T == {k \in 1 .. n : flat[k] \notin G[k]}
<1>3. ASSUME T # {} PROVE FALSE
  <2>1. T \in SUBSET Nat
    OBVIOUS
  <2>2. PICK m \in T : \A k \in T : m <= k
    <3> HIDE DEF T
    <3> QED
      BY <1>3, <2>1, LeastNat
  <2>3. m \in 1 .. n /\ flat[m] \notin G[m] /\ flat[m] = IF m = 1 THEN seqs[m] ELSE flat[m - 1] \o seqs[m]
    BY <1>2
  <2>4. m # 1
    BY <2>3
  <2>5. m \in 2 .. n /\ m - 1 \in 1 .. n /\ ~(m <= m - 1)
    BY <1>1, <2>3, <2>4
  <2>6. m - 1 \notin T
    <3> HIDE DEF T
    <3> QED
      BY <2>2, <2>5
  <2>7. flat[m - 1] \in G[m - 1]
    BY <2>5, <2>6
  <2> QED
    BY <2>3, <2>4, <2>5, <2>7
<1>4. n \in 1 .. n /\ n \notin T
  BY <1>1, <1>3
<1> QED
  BY <1>2, <1>4

LEMMA FlattenTyped ==
  ASSUME NEW S, NEW seqs \in Seq(Seq(S))
  PROVE  FlattenSeq(seqs) \in Seq(S)
<1> DEFINE n == Len(seqs)
           G == [k \in 1 .. n |-> Seq(S)]
<1>1. n \in Nat /\ \A k \in 1 .. n : seqs[k] \in Seq(S) /\ G[k] = Seq(S)
  BY LenProperties, ElementOfSeq
<1>2. CASE n = 0
  <2>1. seqs = <<>> /\ FlattenSeq(seqs) = seqs
    BY <1>2, EmptySeq DEF FlattenSeq
  <2> QED
    BY <2>1, EmptySeq
<1>3. CASE n # 0
  <2>1. 1 \in 1 .. n /\ n \in 1 .. n
    BY <1>1, <1>3
  <2>2. \A k \in 2 .. n : k \in 1 .. n /\ k - 1 \in 1 .. n
    BY <1>1
  <2> HIDE DEF G
  <2>3. \A k \in 2 .. n : \A v \in G[k - 1] : v \o seqs[k] \in G[k]
    BY <1>1, <2>2, ConcatProperties
  <2>4. FlattenSeq(seqs) \in G[n]
    BY <1>1, <1>3, <2>1, <2>3, FlattenLed
  <2> QED
    BY <1>1, <2>1, <2>4
<1> QED
  BY <1>2, <1>3

-------------------------------------------------------------------------------
(* What a scenario makes: messages whose boot ids count the drops before them *)

LEMMA DropsCounted ==
  ASSUME NEW s \in Seq(Plannable)
  PROVE  /\ Drops(s, 1) = 0
         /\ \A i \in 1 .. Len(s) + 1 : Drops(s, i) \in Nat
         /\ \A i \in 1 .. Len(s) : Drops(s, i + 1) = Drops(s, i) + IF s[i].kind = "drop" THEN 1 ELSE 0
<1> DEFINE D(i) == {j \in 1 .. i - 1 : s[j].kind = "drop"}
<1>1. Len(s) \in Nat
  BY LenProperties
<1>2. ASSUME NEW i \in Int
      PROVE  IsFiniteSet(D(i)) /\ Cardinality(D(i)) \in Nat /\ Drops(s, i) = Cardinality(D(i))
  <2>1. IsFiniteSet(1 .. i - 1)
    BY FS_Interval
  <2>2. IsFiniteSet(D(i))
    BY <2>1, FS_Subset
  <2> QED
    BY <2>2, FS_CardinalityType DEF Drops
<1>3. D(1) = {}
  OBVIOUS
<1>4. Drops(s, 1) = 0
  BY <1>2, <1>3, FS_EmptySet
<1>5. ASSUME NEW i \in 1 .. Len(s)
      PROVE  Drops(s, i + 1) = Drops(s, i) + IF s[i].kind = "drop" THEN 1 ELSE 0
  <2>1. i \in Int /\ i + 1 \in Int /\ i \notin D(i)
    BY <1>1
  <2>2. ASSUME s[i].kind = "drop" PROVE D(i + 1) = D(i) \cup {i}
    BY <2>1, <2>2
  <2>3. ASSUME s[i].kind # "drop" PROVE D(i + 1) = D(i)
    BY <2>1, <2>3
  <2>4. Drops(s, i + 1) = Cardinality(D(i + 1)) /\ Drops(s, i) = Cardinality(D(i)) /\ IsFiniteSet(D(i))
        /\ Cardinality(D(i)) \in Nat
    BY <1>2, <2>1
  <2> HIDE DEF D
  <2>5. Cardinality(D(i) \cup {i}) = Cardinality(D(i)) + 1
    BY <2>1, <2>4, FS_AddElement
  <2>6. CASE s[i].kind = "drop"
    BY <2>2, <2>4, <2>5, <2>6
  <2>7. CASE s[i].kind # "drop"
    <3>1. Cardinality(D(i)) + 0 = Cardinality(D(i))
      BY <2>4
    <3> QED
      BY <2>3, <2>4, <2>7, <3>1
  <2> QED
    BY <2>6, <2>7
<1>6. \A i \in 1 .. Len(s) + 1 : Drops(s, i) \in Nat
  <2> SUFFICES ASSUME NEW i \in 1 .. Len(s) + 1 PROVE Drops(s, i) \in Nat
    OBVIOUS
  <2>1. i \in Int
    BY <1>1
  <2> HIDE DEF D
  <2> QED
    BY <1>2, <2>1
<1> QED
  BY <1>4, <1>5, <1>6

LEMMA DropsLocal ==
  ASSUME NEW s, NEW t, NEW i \in Int, \A j \in 1 .. i - 1 : s[j] = t[j]
  PROVE  Drops(s, i) = Drops(t, i)
<1>1. {j \in 1 .. i - 1 : s[j].kind = "drop"} = {j \in 1 .. i - 1 : t[j].kind = "drop"}
  OBVIOUS
<1> QED
  BY <1>1 DEF Drops

LEMMA DropsConcat ==
  ASSUME NEW s \in Seq(Plannable), NEW t \in Seq(Plannable)
  PROVE  /\ \A i \in 1 .. Len(s) + 1 : Drops(s \o t, i) = Drops(s, i)
         /\ \A i \in 1 .. Len(t) + 1 : Drops(s \o t, Len(s) + i) = Drops(s, Len(s) + 1) + Drops(t, i)
<1> DEFINE g == s \o t
           T == {i \in 1 .. Len(t) + 1 : Drops(g, Len(s) + i) # Drops(s, Len(s) + 1) + Drops(t, i)}
<1>1. /\ Len(s) \in Nat /\ Len(t) \in Nat
      /\ g \in Seq(Plannable) /\ Len(g) = Len(s) + Len(t)
      /\ \A i \in 1 .. Len(s) + Len(t) : g[i] = IF i <= Len(s) THEN s[i] ELSE t[i - Len(s)]
  BY LenProperties, ConcatProperties
<1> HIDE DEF g
<1>2. ASSUME NEW i \in 1 .. Len(s) + 1 PROVE Drops(g, i) = Drops(s, i)
  <2>1. i \in Int /\ \A j \in 1 .. i - 1 : g[j] = s[j]
    BY <1>1
  <2> QED
    BY <2>1, DropsLocal
<1>3. ASSUME T # {} PROVE FALSE
  <2>1. T \in SUBSET Nat
    BY <1>1
  <2>2. PICK m \in T : \A k \in T : m <= k
    <3> HIDE DEF T
    <3> QED
      BY <1>3, <2>1, LeastNat
  <2>3. m \in 1 .. Len(t) + 1 /\ Drops(g, Len(s) + m) # Drops(s, Len(s) + 1) + Drops(t, m) /\ m \in Int
    BY <1>1
  <2>4. Drops(t, 1) = 0 /\ Drops(s, Len(s) + 1) \in Nat
    BY <1>1, DropsCounted
  <2>5. m # 1
    <3>1. Len(s) + 1 \in 1 .. Len(s) + 1
      BY <1>1
    <3> QED
      BY <1>1, <1>2, <2>3, <2>4, <3>1
  <2> DEFINE p == m - 1
             q == Len(s) + m - 1
  <2>6. /\ p \in 1 .. Len(t) /\ p + 1 = m /\ q \in 1 .. Len(g) /\ q + 1 = Len(s) + m
        /\ q = Len(s) + p /\ q - Len(s) = p /\ ~(q <= Len(s)) /\ ~(m <= p)
        /\ p \in 1 .. Len(t) + 1 /\ q \in 1 .. Len(g) + 1
    BY <1>1, <2>3, <2>5
  <2> HIDE DEF p, q
  <2>7. p \notin T
    <3> HIDE DEF T
    <3> QED
      BY <2>2, <2>6
  <2>8. Drops(g, q) = Drops(s, Len(s) + 1) + Drops(t, p)
    BY <2>6, <2>7
  <2>9. g[q] = t[p]
    BY <1>1, <2>6
  <2>10. /\ Drops(t, m) = Drops(t, p) + IF t[p].kind = "drop" THEN 1 ELSE 0
         /\ Drops(t, p) \in Nat
    BY <2>6, DropsCounted
  <2>11. Drops(g, Len(s) + m) = Drops(g, q) + IF g[q].kind = "drop" THEN 1 ELSE 0
    BY <1>1, <2>6, DropsCounted
  <2> QED
    BY <2>3, <2>4, <2>8, <2>9, <2>10, <2>11
<1> QED
  BY <1>2, <1>3 DEF g

\* A message carries the boot id of its session or that of none; the first
\* behind a drop carries it.
Booted(s, boot) ==
    /\ s \in Seq(Plannable)
    /\ \A i \in 1 .. Len(s) :
          /\ s[i].boot \in {0, -1, boot + Drops(s, i)}
          /\ i > 1 /\ s[i - 1].kind = "drop" => s[i].boot = boot + Drops(s, i)

\* ... and the list does not end in a drop, so that the next may follow it.
Closed(s, boot, next) ==
    /\ Booted(s, boot)
    /\ next = boot + Drops(s, Len(s) + 1)
    /\ Len(s) > 0 => s[Len(s)].kind # "drop"

LEMMA BootedConcat ==
  ASSUME NEW boot \in Nat, NEW next \in Nat, NEW s, NEW t, Closed(s, boot, next), Booted(t, next)
  PROVE  Booted(s \o t, boot)
<1> DEFINE g == s \o t
<1>0. s \in Seq(Plannable) /\ t \in Seq(Plannable)
  BY DEF Closed, Booted
<1>1. /\ Len(s) \in Nat /\ Len(t) \in Nat
      /\ g \in Seq(Plannable) /\ Len(g) = Len(s) + Len(t)
      /\ \A i \in 1 .. Len(s) + Len(t) : g[i] = IF i <= Len(s) THEN s[i] ELSE t[i - Len(s)]
  BY <1>0, LenProperties, ConcatProperties
<1>2. /\ \A i \in 1 .. Len(s) + 1 : Drops(g, i) = Drops(s, i)
      /\ \A i \in 1 .. Len(t) + 1 : Drops(g, Len(s) + i) = Drops(s, Len(s) + 1) + Drops(t, i)
  BY <1>0, DropsConcat
<1>3. Drops(s, Len(s) + 1) \in Nat /\ \A i \in 1 .. Len(t) : Drops(t, i) \in Nat
  BY <1>0, <1>1, DropsCounted
<1> HIDE DEF g
<1>4. ASSUME NEW i \in 1 .. Len(g)
      PROVE  /\ g[i].boot \in {0, -1, boot + Drops(g, i)}
             /\ i > 1 /\ g[i - 1].kind = "drop" => g[i].boot = boot + Drops(g, i)
  <2>1. CASE i <= Len(s)
    <3>1. i \in 1 .. Len(s) /\ g[i] = s[i] /\ Drops(g, i) = Drops(s, i) /\ (i > 1 => g[i - 1] = s[i - 1])
      BY <1>1, <1>2, <2>1
    <3> QED
      BY <3>1 DEF Closed, Booted
  <2>2. CASE i > Len(s)
    <3> DEFINE k == i - Len(s)
    <3>1. k \in 1 .. Len(t) /\ i = Len(s) + k /\ k \in 1 .. Len(t) + 1
      BY <1>1, <2>2
    <3>2. g[i] = t[k]
      BY <1>1, <2>2
    <3>3. Drops(g, i) = Drops(s, Len(s) + 1) + Drops(t, k)
      BY <1>2, <3>1
    <3>4. i > 1 => g[i - 1] = IF k = 1 THEN s[Len(s)] ELSE t[k - 1]
      <4>1. ASSUME k = 1, i > 1 PROVE g[i - 1] = s[Len(s)]
        <5>1. i - 1 = Len(s) /\ i - 1 \in 1 .. Len(s) + Len(t) /\ i - 1 <= Len(s)
          BY <1>1, <3>1, <4>1
        <5> QED
          BY <1>1, <5>1
      <4>2. ASSUME k # 1, i > 1 PROVE g[i - 1] = t[k - 1]
        <5>1. i - 1 \in 1 .. Len(s) + Len(t) /\ ~(i - 1 <= Len(s)) /\ i - 1 - Len(s) = k - 1
          BY <1>1, <3>1, <4>2
        <5> QED
          BY <1>1, <5>1
      <4> QED
        BY <4>1, <4>2
    <3> HIDE DEF k
    <3>5. boot + Drops(g, i) = next + Drops(t, k)
      BY <1>3, <3>1, <3>3 DEF Closed
    <3>6. t[k].boot \in {0, -1, next + Drops(t, k)}
      BY <3>1 DEF Booted
    <3>7. ASSUME i > 1, g[i - 1].kind = "drop" PROVE t[k].boot = next + Drops(t, k)
      <4>1. k # 1
        <5>1. k = 1 => Len(s) > 0
          BY <1>1, <3>1, <3>7
        <5> QED
          BY <3>4, <3>7, <5>1 DEF Closed
      <4>2. k > 1 /\ t[k - 1].kind = "drop"
        BY <1>1, <3>1, <3>4, <3>7, <4>1
      <4> QED
        BY <3>1, <4>2 DEF Booted
    <3> QED
      BY <3>2, <3>5, <3>6, <3>7
  <2> QED
    BY <1>1, <2>1, <2>2
<1>5. Booted(g, boot)
  BY <1>1, <1>4 DEF Booted
<1> QED
  BY <1>5 DEF g

LEMMA ClosedConcat ==
  ASSUME NEW boot \in Nat, NEW next \in Nat, NEW last \in Nat, NEW s, NEW t,
         Closed(s, boot, next), Closed(t, next, last)
  PROVE  Closed(s \o t, boot, last)
<1> DEFINE g == s \o t
<1>0. s \in Seq(Plannable) /\ t \in Seq(Plannable)
  BY DEF Closed, Booted
<1>1. /\ Len(s) \in Nat /\ Len(t) \in Nat
      /\ Len(g) = Len(s) + Len(t)
      /\ \A i \in 1 .. Len(s) + Len(t) : g[i] = IF i <= Len(s) THEN s[i] ELSE t[i - Len(s)]
  BY <1>0, LenProperties, ConcatProperties
<1>2. Booted(g, boot)
  BY BootedConcat DEF Closed
<1>3. Drops(g, Len(s) + (Len(t) + 1)) = Drops(s, Len(s) + 1) + Drops(t, Len(t) + 1)
  BY <1>0, <1>1, DropsConcat
<1>4. Drops(s, Len(s) + 1) \in Nat /\ Drops(t, Len(t) + 1) \in Nat
  BY <1>0, <1>1, DropsCounted
<1> HIDE DEF g
<1>5. Len(g) + 1 = Len(s) + (Len(t) + 1)
  BY <1>1
<1>6. last = boot + Drops(g, Len(g) + 1)
  BY <1>3, <1>4, <1>5 DEF Closed
<1>7. ASSUME Len(g) > 0 PROVE g[Len(g)].kind # "drop"
  <2>1. CASE Len(t) > 0
    <3>1. g[Len(g)] = t[Len(t)]
      BY <1>1, <2>1
    <3> QED
      BY <2>1, <3>1 DEF Closed
  <2>2. CASE Len(t) = 0
    <3>1. g[Len(g)] = s[Len(s)] /\ Len(s) > 0
      BY <1>1, <1>7, <2>2
    <3> QED
      BY <3>1 DEF Closed
  <2> QED
    BY <1>1, <2>1, <2>2
<1>8. Closed(g, boot, last)
  BY <1>2, <1>6, <1>7 DEF Closed
<1> QED
  BY <1>8 DEF g

\* The first messages of a list.
LEMMA BootedCut ==
  ASSUME NEW boot \in Nat, NEW s, Booted(s, boot), NEW n \in 0 .. Len(s)
  PROVE  Booted(SubSeq(s, 1, n), boot) /\ Len(SubSeq(s, 1, n)) = n
<1> DEFINE g == SubSeq(s, 1, n)
<1>0. s \in Seq(Plannable) /\ Len(s) \in Nat /\ n \in Nat
  BY LenProperties DEF Booted
<1>1. \A i \in 1 .. n : s[i] \in Plannable
  BY <1>0, ElementOfSeq
<1>2. /\ g \in Seq(Plannable) /\ Len(g) = n
      /\ \A i \in 1 .. n : g[i] = s[i]
  <2>1. /\ g \in Seq(Plannable) /\ Len(g) = IF 1 <= n THEN n - 1 + 1 ELSE 0
        /\ \A i \in 1 .. n - 1 + 1 : g[i] = s[1 + i - 1]
    BY <1>0, <1>1, SubSeqProperties
  <2>2. n - 1 + 1 = n /\ (~(1 <= n) => n = 0) /\ \A i \in 1 .. n : 1 + i - 1 = i
    BY <1>0
  <2> HIDE DEF g
  <2> QED
    BY <2>1, <2>2
<1> HIDE DEF g
<1>3. ASSUME NEW i \in 1 .. Len(g)
      PROVE  /\ g[i].boot \in {0, -1, boot + Drops(g, i)}
             /\ i > 1 /\ g[i - 1].kind = "drop" => g[i].boot = boot + Drops(g, i)
  <2>1. i \in Int /\ i \in 1 .. Len(s) /\ \A j \in 1 .. i - 1 : g[j] = s[j]
    BY <1>0, <1>2
  <2>2. Drops(g, i) = Drops(s, i)
    BY <2>1, DropsLocal
  <2>3. g[i] = s[i] /\ (i > 1 => i - 1 \in 1 .. i - 1)
    BY <1>2, <2>1
  <2> QED
    BY <2>1, <2>2, <2>3 DEF Booted
<1>4. Booted(g, boot)
  BY <1>2, <1>3 DEF Booted
<1> QED
  BY <1>2, <1>4 DEF g

\* What a scenario sends that knows one boot id only.
Plain(boot) == {m \in Plannable : m.kind # "drop" /\ m.boot \in {0, -1, boot}}

LEMMA PlainMessages ==
  ASSUME NEW boot \in Nat, NEW seq \in Int
  PROVE  /\ Telemetry(boot, seq) \in Plain(boot)
         /\ Online(boot) \in Plain(boot) /\ Offline(boot) \in Plain(boot)
         /\ \A of \in {0, -1, boot} : Message("malformed", of, 0) \in Plain(boot)
BY DEF Telemetry, Online, Offline, Message, Plain, Plannable, Kinds

LEMMA PlainClosed ==
  ASSUME NEW boot \in Nat, NEW s \in Seq(Plain(boot))
  PROVE  Closed(s, boot, boot)
<1>1. /\ s \in Seq(Plannable) /\ Len(s) \in Nat
      /\ \A i \in 1 .. Len(s) : s[i].kind # "drop" /\ s[i].boot \in {0, -1, boot}
  <2>1. Plain(boot) \subseteq Plannable /\ Len(s) \in Nat
    BY LenProperties DEF Plain
  <2>2. \A i \in 1 .. Len(s) : s[i] \in Plain(boot)
    BY ElementOfSeq
  <2> QED
    BY <2>1, <2>2, SeqMonotonic DEF Plain
<1>2. ASSUME NEW i \in 1 .. Len(s) + 1 PROVE Drops(s, i) = 0
  <2>1. {j \in 1 .. i - 1 : s[j].kind = "drop"} = {}
    BY <1>1
  <2> QED
    BY <2>1, FS_EmptySet DEF Drops
<1>3. Booted(s, boot)
  <2> SUFFICES ASSUME NEW i \in 1 .. Len(s)
               PROVE  /\ s[i].boot \in {0, -1, boot + Drops(s, i)}
                      /\ i > 1 /\ s[i - 1].kind = "drop" => s[i].boot = boot + Drops(s, i)
    BY <1>1 DEF Booted
  <2>1. Drops(s, i) = 0 /\ (i > 1 => i - 1 \in 1 .. Len(s))
    BY <1>1, <1>2
  <2> QED
    BY <1>1, <2>1
<1>4. boot = boot + Drops(s, Len(s) + 1)
  BY <1>1, <1>2
<1>5. Len(s) > 0 => s[Len(s)].kind # "drop"
  BY <1>1
<1> QED
  BY <1>3, <1>4, <1>5 DEF Closed

LEMMA RunPlain ==
  ASSUME NEW boot \in Nat, NEW from \in Int, NEW n \in Nat
  PROVE  Run(boot, from, n) \in Seq(Plain(boot))
<1>1. \A i \in 1 .. n : Telemetry(boot, from + i - 1) \in Plain(boot)
  BY PlainMessages
<1>2. Run(boot, from, n) \in [1 .. n -> Plain(boot)]
  BY <1>1 DEF Run
<1> QED
  BY <1>2, SeqDef

LEMMA DuplicatesPlain ==
  ASSUME NEW boot \in Nat, NEW n \in Nat
  PROVE  Duplicates(boot, n) \in Seq(Plain(boot))
<1> DEFINE reading(i) == Telemetry(boot, FirstSeq + i - 1)
           parts == [i \in 1 .. n |-> IF i % 2 = 0 THEN <<reading(i), reading(i)>> ELSE <<reading(i)>>]
<1>1. ASSUME NEW i \in 1 .. n PROVE parts[i] \in Seq(Plain(boot))
  <2>1. reading(i) \in Plain(boot)
    BY PlainMessages DEF FirstSeq
  <2> HIDE DEF reading
  <2> QED
    BY <2>1
<1>2. parts \in [1 .. n -> Seq(Plain(boot))]
  <2>1. \A i \in 1 .. n : parts[i] \in Seq(Plain(boot))
    BY <1>1
  <2>2. parts = [i \in 1 .. n |-> parts[i]]
    OBVIOUS
  <2> HIDE DEF parts
  <2> QED
    BY <2>1, <2>2
<1>3. Duplicates(boot, n) = FlattenSeq(parts)
  BY DEF Duplicates
<1> HIDE DEF parts
<1>4. parts \in Seq(Seq(Plain(boot)))
  BY <1>2, SeqDef
<1> QED
  BY <1>3, <1>4, FlattenTyped

LEMMA OutOfOrderPlain ==
  ASSUME NEW boot \in Nat, NEW n \in Nat
  PROVE  OutOfOrder(boot, n) \in Seq(Plain(boot))
<1> DEFINE seq(i) == FirstSeq + (i - 1) + (i - 1) \div 3
           parts == [i \in 1 .. n |->
                       IF i % 3 = 0 THEN <<Telemetry(boot, seq(i) + 1), Telemetry(boot, seq(i))>>
                                    ELSE <<Telemetry(boot, seq(i))>>]
<1>1. ASSUME NEW i \in 1 .. n PROVE parts[i] \in Seq(Plain(boot))
  <2>1. seq(i) \in Int /\ seq(i) + 1 \in Int
    BY DEF FirstSeq
  <2> HIDE DEF seq
  <2>2. Telemetry(boot, seq(i)) \in Plain(boot) /\ Telemetry(boot, seq(i) + 1) \in Plain(boot)
    BY <2>1, PlainMessages
  <2> QED
    BY <2>2
<1>2. parts \in [1 .. n -> Seq(Plain(boot))]
  <2>1. \A i \in 1 .. n : parts[i] \in Seq(Plain(boot))
    BY <1>1
  <2>2. parts = [i \in 1 .. n |-> parts[i]]
    OBVIOUS
  <2> HIDE DEF parts
  <2> QED
    BY <2>1, <2>2
<1>3. OutOfOrder(boot, n) = FlattenSeq(parts)
  BY DEF OutOfOrder
<1> HIDE DEF parts
<1>4. parts \in Seq(Seq(Plain(boot)))
  BY <1>2, SeqDef
<1> QED
  BY <1>3, <1>4, FlattenTyped

LEMMA WithGapPlain ==
  ASSUME NEW boot \in Nat, NEW n \in Nat
  PROVE  WithGap(boot, n) \in Seq(Plain(boot))
<1> DEFINE seq(i) == FirstSeq + i - 1 + IF i - 1 > n \div 2 THEN 4 ELSE 0
<1>1. ASSUME NEW i \in 1 .. n PROVE Telemetry(boot, seq(i)) \in Plain(boot)
  <2>1. seq(i) \in Int
    BY DEF FirstSeq
  <2> HIDE DEF seq
  <2> QED
    BY <2>1, PlainMessages
<1>2. WithGap(boot, n) = [i \in 1 .. n |-> Telemetry(boot, seq(i))]
  BY DEF WithGap
<1> HIDE DEF seq
<1>3. WithGap(boot, n) \in [1 .. n -> Plain(boot)]
  BY <1>1, <1>2
<1> QED
  BY <1>3, SeqDef

LEMMA MalformedPlain ==
  ASSUME NEW boot \in Nat, NEW n \in Nat
  PROVE  SubSeq(Malformed(boot), 1, IF n < 5 THEN n ELSE 5) \in Seq(Plain(boot))
<1> DEFINE all == Malformed(boot)
           last == IF n < 5 THEN n ELSE 5
<1>1. /\ Message("malformed", 0, 0) \in Plain(boot) /\ Message("malformed", -1, 0) \in Plain(boot)
      /\ Message("malformed", boot, 0) \in Plain(boot)
  BY PlainMessages
<1>2. \A i \in 1 .. 5 : all[i] \in Plain(boot)
  BY <1>1 DEF Malformed
<1>3. last \in Int /\ \A i \in 1 .. last : i \in 1 .. 5
  OBVIOUS
<1> HIDE DEF all, last
<1>4. SubSeq(all, 1, last) \in Seq(Plain(boot))
  BY <1>2, <1>3, SubSeqProperties
<1> QED
  BY <1>4 DEF all, last

LEMMA ReconnectingClosed ==
  ASSUME NEW boot \in Nat, NEW n \in Nat \ {0}
  PROVE  Closed(Reconnecting(boot, n), boot, boot + 1)
<1> DEFINE half == IF n > 1 THEN n \div 2 ELSE 1
           first == Run(boot, FirstSeq, half)
           cut == <<Drop(boot), Online(boot + 1)>>
           second == Run(boot + 1, 1, n - half)
<1>1. half \in Nat /\ n - half \in Nat /\ boot + 1 \in Nat
  OBVIOUS
<1>2. Reconnecting(boot, n) = <<Online(boot)>> \o first \o cut \o second
  BY DEF Reconnecting
<1> HIDE DEF half
<1>3. Closed(<<Online(boot)>>, boot, boot)
  <2>1. <<Online(boot)>> \in Seq(Plain(boot))
    BY PlainMessages
  <2> QED
    BY <2>1, PlainClosed
<1>4. Closed(first, boot, boot) /\ Closed(second, boot + 1, boot + 1)
  <2>1. first \in Seq(Plain(boot))
    <3>1. FirstSeq \in Int
      BY DEF FirstSeq
    <3> QED
      BY <1>1, <3>1, RunPlain
  <2>2. second \in Seq(Plain(boot + 1))
    <3>1. 1 \in Int
      OBVIOUS
    <3> QED
      BY <1>1, <3>1, RunPlain
  <2> HIDE DEF first, second
  <2> QED
    BY <1>1, <2>1, <2>2, PlainClosed
<1>5. Closed(cut, boot, boot + 1)
  <2>1. cut \in Seq(Plannable) /\ Len(cut) = 2 /\ cut[1] = Drop(boot) /\ cut[2] = Online(boot + 1)
    BY DEF Drop, Online, Message, Plannable, Kinds
  <2>2. /\ cut[1].kind = "drop" /\ cut[1].boot = boot
        /\ cut[2].kind = "online" /\ cut[2].boot = boot + 1
    BY <2>1 DEF Drop, Online, Message
  <2> HIDE DEF cut
  <2>3. Drops(cut, 1) = 0 /\ Drops(cut, 1 + 1) = 0 + 1 /\ Drops(cut, 2 + 1) = 1 + 0
    <3>1. Drops(cut, 1) = 0 /\ Drops(cut, 1 + 1) = Drops(cut, 1) + 1 /\ Drops(cut, 2 + 1) = Drops(cut, 2) + 0
      <4>1. 1 \in 1 .. Len(cut) /\ 2 \in 1 .. Len(cut)
        BY <2>1
      <4>2. \A i \in 1 .. Len(cut) :
               Drops(cut, i + 1) = Drops(cut, i) + IF cut[i].kind = "drop" THEN 1 ELSE 0
        BY <2>1, DropsCounted
      <4>3. Drops(cut, 1 + 1) = Drops(cut, 1) + 1
        BY <2>2, <4>1, <4>2
      <4>4. Drops(cut, 2 + 1) = Drops(cut, 2) + 0
        BY <2>2, <4>1, <4>2
      <4> QED
        BY <2>1, <4>3, <4>4, DropsCounted
    <3> QED
      BY <3>1
  <2>4. ASSUME NEW i \in 1 .. Len(cut)
        PROVE  /\ cut[i].boot \in {0, -1, boot + Drops(cut, i)}
               /\ i > 1 /\ cut[i - 1].kind = "drop" => cut[i].boot = boot + Drops(cut, i)
    <3>1. i = 1 \/ i = 2
      BY <2>1
    <3> QED
      BY <2>2, <2>3, <3>1
  <2> QED
    BY <2>1, <2>2, <2>3, <2>4 DEF Closed, Booted
<1> HIDE DEF first, cut, second
<1>6. Closed(<<Online(boot)>> \o first, boot, boot)
  BY <1>3, <1>4, ClosedConcat
<1>7. Closed(<<Online(boot)>> \o first \o cut, boot, boot + 1)
  BY <1>1, <1>5, <1>6, ClosedConcat
<1>8. Closed(<<Online(boot)>> \o first \o cut \o second, boot, boot + 1)
  BY <1>1, <1>4, <1>7, ClosedConcat
<1> QED
  BY <1>2, <1>8

LEMMA ScenarioClosed ==
  ASSUME NEW name \in STRING, NEW boot \in Nat, NEW n \in Nat \ {0}
  PROVE  Closed(Scenario(name, boot, n), boot, BootAfter(name, boot)) /\ BootAfter(name, boot) \in Nat
<1>1. BootAfter(name, boot) = (IF name = "reconnect" THEN boot + 1 ELSE boot)
      /\ BootAfter(name, boot) \in Nat
  BY DEF BootAfter
<1>0. n \in Nat /\ FirstSeq \in Int
  BY DEF FirstSeq
<1>2. CASE name = "reconnect"
  BY <1>1, <1>2, ReconnectingClosed DEF Scenario
<1>3. CASE name # "reconnect"
  <2>1. <<Online(boot)>> \o Run(boot, FirstSeq, n) \o <<Offline(boot)>> \in Seq(Plain(boot))
    <3>1. <<Online(boot)>> \in Seq(Plain(boot)) /\ <<Offline(boot)>> \in Seq(Plain(boot))
      BY PlainMessages
    <3>2. Run(boot, FirstSeq, n) \in Seq(Plain(boot))
      BY <1>0, RunPlain
    <3> QED
      BY <3>1, <3>2, ConcatProperties
  <2>2. Run(boot, FirstSeq, n) \in Seq(Plain(boot))
    BY <1>0, RunPlain
  <2>3. Scenario(name, boot, n) \in Seq(Plain(boot))
    <3>1. CASE name = "duplicate"
      BY <3>1, DuplicatesPlain DEF Scenario
    <3>2. CASE name = "gap"
      BY <3>2, WithGapPlain DEF Scenario
    <3>3. CASE name = "out-of-order"
      BY <3>3, OutOfOrderPlain DEF Scenario
    <3>4. CASE name = "malformed"
      BY <3>4, MalformedPlain DEF Scenario
    <3>5. CASE name = "status"
      BY <3>5, <2>1 DEF Scenario
    <3>6. CASE name \notin {"duplicate", "gap", "out-of-order", "malformed", "status"}
      BY <3>6, <1>3, <2>2 DEF Scenario
    <3> QED
      BY <3>1, <3>2, <3>3, <3>4, <3>5, <3>6
  <2> QED
    BY <1>1, <1>3, <2>3, PlainClosed
<1> QED
  BY <1>1, <1>2, <1>3

-------------------------------------------------------------------------------
(* What the scenarios of a command line make together *)

LEMMA TruncatedBooted ==
  ASSUME NEW boot \in Nat, NEW s, Booted(s, boot)
  PROVE  /\ Booted(Truncated(s), boot) /\ Len(Truncated(s)) \in Nat
         /\ Len(s) < Cap => Truncated(s) = s
         /\ Len(Truncated(s)) < Cap => Truncated(s) = s /\ Len(s) < Cap
<1>1. Len(s) \in Nat /\ Cap \in Nat
  BY LenProperties, PublisherAssumption DEF Booted
<1>2. CASE Len(s) > Cap
  <2>1. Booted(SubSeq(s, 1, Cap), boot) /\ Len(SubSeq(s, 1, Cap)) = Cap
    BY <1>1, <1>2, BootedCut
  <2> QED
    BY <1>1, <1>2, <2>1 DEF Truncated
<1>3. CASE ~(Len(s) > Cap)
  BY <1>1, <1>3 DEF Truncated
<1> QED
  BY <1>2, <1>3

\* The list made so far, u, and the boot id it leaves: cut at Cap it is as it
\* must be, and as long as the cap is not reached, so is the whole of it.
Grown(u) ==
    /\ u.messages \in Seq(Plannable) /\ u.boot \in Nat
    /\ Booted(Truncated(u.messages), FirstBoot)
    /\ Len(u.messages) < Cap => Closed(u.messages, FirstBoot, u.boot)

LEMMA Grows ==
  ASSUME NEW u, Grown(u), NEW name \in STRING, NEW n \in Nat \ {0}, NEW next,
         next.messages = u.messages \o Truncated(Scenario(name, u.boot, n)),
         next.boot = BootAfter(name, u.boot)
  PROVE  Grown(next)
<1> DEFINE s == u.messages
           t == Scenario(name, u.boot, n)
           cut == Truncated(t)
           g == s \o cut
<1>1. /\ s \in Seq(Plannable) /\ u.boot \in Nat /\ Len(s) \in Nat /\ Cap \in Nat
      /\ FirstBoot \in Nat
  BY LenProperties, PublisherAssumption DEF Grown, FirstBoot
<1>2. Closed(t, u.boot, next.boot) /\ next.boot \in Nat
  BY <1>1, ScenarioClosed
<1> HIDE DEF t
<1>3. /\ Booted(cut, u.boot) /\ Len(cut) \in Nat /\ cut \in Seq(Plannable)
      /\ Len(cut) < Cap => cut = t
  <2>1. Booted(t, u.boot)
    BY <1>2 DEF Closed
  <2>2. /\ Booted(cut, u.boot) /\ Len(cut) \in Nat
        /\ Len(cut) < Cap => cut = t
    BY <1>1, <2>1, TruncatedBooted
  <2> HIDE DEF cut
  <2> QED
    BY <2>2 DEF Booted
<1> HIDE DEF cut
<1>4. /\ g \in Seq(Plannable) /\ Len(g) = Len(s) + Len(cut)
      /\ \A i \in 1 .. Len(s) + Len(cut) : g[i] = IF i <= Len(s) THEN s[i] ELSE cut[i - Len(s)]
  BY <1>1, <1>3, ConcatProperties
<1>5. next.messages = g
  BY DEF t, cut
<1> HIDE DEF g
<1>6. CASE Len(s) < Cap
  <2>1. Closed(s, FirstBoot, u.boot)
    BY <1>6 DEF Grown
  <2> HIDE DEF s
  <2>2. Booted(g, FirstBoot)
    BY <1>1, <1>3, <2>1, BootedConcat DEF g
  <2>3. Booted(Truncated(g), FirstBoot)
    BY <1>1, <2>2, TruncatedBooted
  <2>4. ASSUME Len(g) < Cap PROVE Closed(g, FirstBoot, next.boot)
    <3>1. Len(cut) < Cap
      BY <1>1, <1>3, <1>4, <2>4
    <3>2. cut = t
      BY <1>3, <3>1
    <3>3. Closed(cut, u.boot, next.boot)
      BY <1>2, <3>2
    <3> QED
      BY <1>1, <1>2, <2>1, <3>3, ClosedConcat DEF g
  <2> QED
    BY <1>2, <1>4, <1>5, <2>3, <2>4 DEF Grown
<1>7. CASE ~(Len(s) < Cap)
  <2>1. Truncated(g) = Truncated(s)
    <3>1. ASSUME NEW q \in Seq(Plannable), Len(q) >= Cap
          PROVE  /\ Truncated(q) \in Seq(Plannable) /\ Len(Truncated(q)) = Cap
                 /\ \A i \in 1 .. Cap : Truncated(q)[i] = q[i]
      <4>1. Len(q) \in Nat /\ \A i \in 1 .. Cap : q[i] \in Plannable
        <5>1. Len(q) \in Nat
          BY LenProperties
        <5>2. \A i \in 1 .. Cap : i \in 1 .. Len(q)
          BY <1>1, <3>1, <5>1
        <5> QED
          BY <5>1, <5>2, ElementOfSeq
      <4>2. CASE Len(q) > Cap
        <5> DEFINE c == SubSeq(q, 1, Cap)
        <5>1. /\ c \in Seq(Plannable) /\ Len(c) = IF 1 <= Cap THEN Cap - 1 + 1 ELSE 0
              /\ \A i \in 1 .. Cap - 1 + 1 : c[i] = q[1 + i - 1]
          BY <1>1, <4>1, SubSeqProperties
        <5>2. Cap - 1 + 1 = Cap /\ (~(1 <= Cap) => Cap = 0) /\ \A i \in 1 .. Cap : 1 + i - 1 = i
          BY <1>1
        <5>3. Truncated(q) = c
          BY <4>2 DEF Truncated
        <5> HIDE DEF c
        <5> QED
          BY <5>1, <5>2, <5>3
      <4>3. CASE ~(Len(q) > Cap)
        <5>1. Len(q) = Cap /\ Truncated(q) = q
          BY <1>1, <3>1, <4>1, <4>3 DEF Truncated
        <5> QED
          BY <5>1
      <4> QED
        BY <4>2, <4>3
    <3> HIDE DEF s
    <3>2. Len(g) >= Cap /\ Len(s) >= Cap
      BY <1>1, <1>3, <1>4, <1>7
    <3>3. \A i \in 1 .. Cap : g[i] = s[i]
      BY <1>1, <1>3, <1>4, <3>2
    <3>4. /\ Truncated(g) \in Seq(Plannable) /\ Len(Truncated(g)) = Cap
          /\ \A i \in 1 .. Cap : Truncated(g)[i] = g[i]
      BY <1>4, <3>1, <3>2
    <3>5. /\ Truncated(s) \in Seq(Plannable) /\ Len(Truncated(s)) = Cap
          /\ \A i \in 1 .. Cap : Truncated(s)[i] = s[i]
      BY <1>1, <3>1, <3>2
    <3> QED
      BY <3>3, <3>4, <3>5, SeqEqual
  <2>2. ~(Len(g) < Cap)
    BY <1>1, <1>3, <1>4, <1>7
  <2> HIDE DEF s
  <2>3. Booted(Truncated(s), FirstBoot)
    BY DEF Grown, s
  <2> QED
    BY <1>2, <1>4, <1>5, <2>1, <2>2, <2>3 DEF Grown
<1> QED
  BY <1>6, <1>7

\* The list made so far and the boot id it leaves, from one scenario to the next.
Begun == [messages |-> <<>>, boot |-> FirstBoot]

Continued(names, n, k, v) ==
    [messages |-> v.messages \o Truncated(Scenario(names[k], v.boot, n)),
     boot |-> BootAfter(names[k], v.boot)]

LEMMA MessagesMade ==
  ASSUME NEW names \in Seq(STRING), NEW n \in Nat \ {0}
  PROVE  \E upTo : /\ Messages(names, n) = Truncated(upTo[Len(names)].messages)
                   /\ \A k \in 0 .. Len(names) :
                         upTo[k] = IF k = 0 THEN Begun ELSE Continued(names, n, k, upTo[k - 1])
<1> DEFINE V == [messages : Seq(Plannable), boot : Nat]
           then(k, v) == Continued(names, n, k, v)
           first == Begun
           Body(g) == [k \in 0 .. Len(names) |-> IF k = 0 THEN first ELSE then(k, g[k - 1])]
           upTo == CHOOSE g : g = Body(g)
           last == Len(names)
<1>1. last \in Nat /\ \A k \in 1 .. last : names[k] \in STRING
  BY LenProperties, ElementOfSeq
<1>2. Messages(names, n) = Truncated(upTo[last].messages)
  BY DEF Messages, Begun, Continued
<1>3. ASSUME NEW k \in 1 .. last, NEW v \in V PROVE then(k, v) \in V
  <2>1. v.messages \in Seq(Plannable) /\ v.boot \in Nat /\ names[k] \in STRING
    BY <1>1
  <2> DEFINE t == Scenario(names[k], v.boot, n)
  <2>2. Closed(t, v.boot, BootAfter(names[k], v.boot)) /\ BootAfter(names[k], v.boot) \in Nat
    BY <2>1, ScenarioClosed
  <2> HIDE DEF t
  <2>3. Truncated(t) \in Seq(Plannable)
    BY <2>1, <2>2, TruncatedBooted DEF Closed, Booted
  <2>4. v.messages \o Truncated(t) \in Seq(Plannable)
    BY <2>1, <2>3, ConcatProperties
  <2> QED
    BY <2>2, <2>4 DEF t, Continued
<1>4. first \in V
  BY EmptySeq DEF FirstBoot, Begun
<1> DEFINE step == [k \in 1 .. last |-> [v \in V |-> then(k, v)]]
<1>5. Steps(V, 0, last, first, step)
  <2>1. step \in [0 + 1 .. last -> [V -> V]]
    <3> HIDE DEF V, then, last
    <3> QED
      BY <1>1, <1>3
  <2> HIDE DEF step, V, first, last
  <2> QED
    BY <1>1, <1>4, <2>1 DEF Steps
<1>6. PICK f \in [0 .. last -> V] : f[0] = first /\ \A k \in 0 + 1 .. last : f[k] = step[k][f[k - 1]]
  <2> HIDE DEF step, V, first, last
  <2>1. Led(V, 0, last, first, step)
    BY <1>5, StepsLead
  <2> QED
    BY <2>1 DEF Led
<1>7. f = Body(f)
  <2>1. ASSUME NEW k \in 0 .. last PROVE f[k] = IF k = 0 THEN first ELSE then(k, f[k - 1])
    <3>1. CASE k = 0
      BY <1>6, <3>1
    <3>2. CASE k # 0
      <4>1. k \in 1 .. last /\ k \in 0 + 1 .. last /\ k - 1 \in 0 .. last
        BY <1>1, <3>2
      <4> HIDE DEF V, first, then, last
      <4>2. f[k - 1] \in V /\ f[k] = step[k][f[k - 1]]
        BY <1>6, <4>1
      <4>3. step[k][f[k - 1]] = then(k, f[k - 1])
        BY <4>1, <4>2
      <4> QED
        BY <3>2, <4>2, <4>3
    <3> QED
      BY <3>1, <3>2
  <2> HIDE DEF V, first, then
  <2> QED
    BY <1>6, <2>1
<1>8. upTo = Body(upTo)
  <2> HIDE DEF V, first, then
  <2> QED
    BY <1>7
<1> HIDE DEF upTo, step
<1>9. \A k \in 0 .. last : upTo[k] = IF k = 0 THEN first ELSE then(k, upTo[k - 1])
  <2> HIDE DEF V, first, then
  <2> QED
    BY <1>8
<1> QED
  BY <1>2, <1>9

LEMMA ContinuedBy ==
  ASSUME NEW names, NEW n, NEW k, NEW u, NEW w, NEW name, NEW b,
         names[k] = name, u.boot = b, w = Continued(names, n, k, u)
  PROVE  /\ w.messages = u.messages \o Truncated(Scenario(name, b, n))
         /\ w.boot = BootAfter(name, b)
BY DEF Continued

LEMMA MessagesBooted ==
  ASSUME NEW names \in Seq(STRING), NEW n \in Nat \ {0}
  PROVE  Booted(Messages(names, n), FirstBoot)
<1> DEFINE last == Len(names)
<1>1. last \in Nat /\ \A k \in 1 .. last : names[k] \in STRING
  BY LenProperties, ElementOfSeq
<1>2. PICK upTo : /\ Messages(names, n) = Truncated(upTo[last].messages)
                  /\ \A k \in 0 .. last :
                        upTo[k] = IF k = 0 THEN Begun ELSE Continued(names, n, k, upTo[k - 1])
  BY MessagesMade
<1>3. Grown(Begun)
  <2>1. Begun.messages = <<>> /\ Begun.boot = FirstBoot /\ FirstBoot \in Nat /\ Cap \in Nat
    BY PublisherAssumption DEF FirstBoot, Begun
  <2>2. <<>> \in Seq(Plain(FirstBoot)) /\ Len(<<>>) = 0 /\ <<>> \in Seq(Plannable)
    BY EmptySeq
  <2>3. Closed(<<>>, FirstBoot, FirstBoot)
    BY <2>1, <2>2, PlainClosed
  <2>4. Booted(Truncated(<<>>), FirstBoot)
    BY <2>1, <2>3, TruncatedBooted DEF Closed
  <2> QED
    BY <2>1, <2>2, <2>3, <2>4 DEF Grown
<1> DEFINE T == {k \in 0 .. last : ~Grown(upTo[k])}
<1>4. ASSUME T # {} PROVE FALSE
  <2>1. T \in SUBSET Nat
    OBVIOUS
  <2>2. PICK m \in T : \A k \in T : m <= k
    <3> HIDE DEF T
    <3> QED
      BY <1>4, <2>1, LeastNat
  <2>3. m \in 0 .. last /\ ~Grown(upTo[m])
    OBVIOUS
  <2>4. m # 0
    BY <1>2, <1>3, <2>3
  <2>5. m - 1 \in 0 .. last /\ m \in 1 .. last /\ ~(m <= m - 1)
    BY <1>1, <2>3, <2>4
  <2>6. m - 1 \notin T
    <3> HIDE DEF T
    <3> QED
      BY <2>2, <2>5
  <2>7. Grown(upTo[m - 1]) /\ names[m] \in STRING
    BY <1>1, <2>5, <2>6
  <2>8. upTo[m] = Continued(names, n, m, upTo[m - 1])
    BY <1>2, <2>3, <2>4
  <2>9. /\ upTo[m].messages = upTo[m - 1].messages \o Truncated(Scenario(names[m], upTo[m - 1].boot, n))
        /\ upTo[m].boot = BootAfter(names[m], upTo[m - 1].boot)
    <3> DEFINE list == upTo[m - 1].messages \o Truncated(Scenario(names[m], upTo[m - 1].boot, n))
               after == BootAfter(names[m], upTo[m - 1].boot)
    <3>1. upTo[m] = [messages |-> list, boot |-> after]
      BY <2>8 DEF Continued
    <3> HIDE DEF list, after
    <3>2. upTo[m].messages = list /\ upTo[m].boot = after
      BY <3>1
    <3> QED
      BY <3>2 DEF list, after
  <2>10. Grown(upTo[m])
    BY <2>7, <2>9, Grows
  <2> QED
    BY <2>3, <2>10
<1>5. Grown(upTo[last])
  <2>1. last \in 0 .. last /\ last \notin T
    BY <1>1, <1>4
  <2> QED
    BY <2>1
<1> QED
  BY <1>2, <1>5 DEF Grown

-------------------------------------------------------------------------------
(* How a list of messages is cut into sessions *)

LEMMA DropsGrow ==
  ASSUME NEW s \in Seq(Plannable), NEW i \in 1 .. Len(s) + 1, NEW j \in 1 .. Len(s) + 1, i <= j
  PROVE  Drops(s, i) <= Drops(s, j)
<1> DEFINE D(k) == {m \in 1 .. k - 1 : s[m].kind = "drop"}
<1>1. Len(s) \in Nat
  BY LenProperties
<1>2. D(i) \subseteq D(j) /\ IsFiniteSet(1 .. j - 1) /\ D(j) \subseteq 1 .. j - 1
  <2>1. i \in Int /\ j \in Int
    BY <1>1
  <2>2. IsFiniteSet(1 .. j - 1)
    <3>1. 1 \in Int /\ j - 1 \in Int
      BY <2>1
    <3> QED
      BY <3>1, FS_Interval
  <2>3. D(i) \subseteq D(j)
    BY <2>1
  <2> QED
    BY <2>2, <2>3
<1>3. Drops(s, i) = Cardinality(D(i)) /\ Drops(s, j) = Cardinality(D(j))
  BY DEF Drops
<1> HIDE DEF D
<1>4. IsFiniteSet(D(j))
  BY <1>2, FS_Subset
<1> QED
  BY <1>2, <1>3, <1>4, FS_Subset

Opens(s, k) == Min(Places(s, k))
Closes(s, k) == Max(Places(s, k))
Cuts(s) == Drops(s, Len(s)) + 1

LEMMA PlacesFound ==
  ASSUME NEW s \in Seq(Plannable), Len(s) > 0, NEW k \in 1 .. Cuts(s)
  PROVE  Places(s, k) # {}
<1> DEFINE T == {i \in 1 .. Len(s) : Drops(s, i) >= k - 1}
<1>1. Len(s) \in Nat /\ DOMAIN s = 1 .. Len(s) /\ Drops(s, 1) = 0 /\ 1 \in 1 .. Len(s) + 1
  BY LenProperties, DropsCounted
<1>2. \A i \in 1 .. Len(s) + 1 : Drops(s, i) \in Nat
  BY DropsCounted
<1>3. Len(s) \in T /\ k \in Int
  BY <1>1, <1>2 DEF Cuts
<1>4. PICK i \in T : \A j \in T : i <= j
  <2>1. T \in SUBSET Nat /\ T # {}
    BY <1>3
  <2> HIDE DEF T
  <2> QED
    BY <2>1, LeastNat
<1>5. i \in 1 .. Len(s) /\ Drops(s, i) >= k - 1 /\ Drops(s, i) \in Nat
  BY <1>1, <1>2
<1>6. Drops(s, i) = k - 1
  <2>1. CASE i = 1
    BY <1>1, <1>3, <1>5, <2>1
  <2>2. CASE i # 1
    <3> DEFINE p == i - 1
    <3>1. p \in 1 .. Len(s) /\ p + 1 = i /\ ~(i <= p)
      BY <1>1, <1>5, <2>2
    <3> HIDE DEF p
    <3>2. p \notin T
      <4> HIDE DEF T
      <4> QED
        BY <1>4, <3>1
    <3>3. ~(Drops(s, p) >= k - 1) /\ Drops(s, p) \in Nat
      BY <1>1, <1>2, <3>1, <3>2
    <3>4. Drops(s, i) = Drops(s, p) + 1 \/ Drops(s, i) = Drops(s, p) + 0
      BY <3>1, DropsCounted
    <3> QED
      BY <1>3, <1>5, <3>3, <3>4
  <2> QED
    BY <2>1, <2>2
<1> QED
  BY <1>1, <1>5, <1>6 DEF Places

\* A session is an unbroken stretch, from behind the drop of the one before it
\* up to its own drop or the end.
LEMMA SessionStretch ==
  ASSUME NEW s \in Seq(Plannable), Len(s) > 0, NEW k \in 1 .. Cuts(s)
  PROVE  /\ Opens(s, k) \in 1 .. Len(s) /\ Closes(s, k) \in 1 .. Len(s)
         /\ Opens(s, k) <= Closes(s, k)
         /\ Places(s, k) = Opens(s, k) .. Closes(s, k)
         /\ \A i \in Opens(s, k) .. Closes(s, k) - 1 : s[i].kind # "drop"
<1> DEFINE P == Places(s, k)
<1>1. /\ Len(s) \in Nat /\ DOMAIN s = 1 .. Len(s) /\ k \in Int
      /\ \A i \in 1 .. Len(s) + 1 : Drops(s, i) \in Nat
  BY LenProperties, DropsCounted DEF Cuts
<1>2. P = {i \in 1 .. Len(s) : Drops(s, i) = k - 1} /\ P # {}
  BY <1>1, PlacesFound DEF Places
<1>3. PICK a \in P : \A i \in P : a <= i
  <2>1. P \in SUBSET Nat
    BY <1>2
  <2> HIDE DEF P
  <2> QED
    BY <1>2, <2>1, LeastNat
<1>4. PICK b \in P : \A i \in P : i <= b
  <2> DEFINE Q == {m \in 0 .. Len(s) : Len(s) - m \in P}
  <2> HIDE DEF P
  <2>1. Q \in SUBSET Nat /\ Len(s) - a \in Q
    BY <1>1, <1>2, <1>3
  <2>2. PICK m \in Q : \A i \in Q : m <= i
    <3> HIDE DEF Q
    <3> QED
      BY <2>1, LeastNat
  <2>3. ASSUME NEW i \in P PROVE i <= Len(s) - m
    <3>1. i \in 1 .. Len(s) /\ Len(s) - (Len(s) - i) = i
      BY <1>1, <1>2
    <3>2. Len(s) - i \in Q
      BY <1>1, <3>1
    <3>3. m <= Len(s) - i /\ m \in Int
      BY <2>2, <3>2
    <3> QED
      BY <1>1, <3>1, <3>3
  <2> QED
    BY <2>2, <2>3
<1> HIDE DEF P
<1>5. a \in 1 .. Len(s) /\ b \in 1 .. Len(s) /\ a <= b /\ a \in Int /\ b \in Int
  BY <1>1, <1>2, <1>3, <1>4
<1>6. Opens(s, k) = a /\ Closes(s, k) = b
  <2>1. \A i \in P : i \in Int
    BY <1>2
  <2>2. \A x \in P : (\A y \in P : x <= y) => x = a
    BY <1>3, <1>5, <2>1
  <2>3. \A x \in P : (\A y \in P : x >= y) => x = b
    BY <1>4, <1>5, <2>1
  <2>4. \A y \in P : b >= y
    BY <1>4, <1>5, <2>1
  <2>5. Opens(s, k) = Min(P) /\ Closes(s, k) = Max(P)
    BY DEF Opens, Closes, P
  <2>6. Min(P) = a
    BY <1>3, <2>2 DEF Min
  <2>7. Max(P) = b
    BY <2>3, <2>4 DEF Max
  <2> QED
    BY <2>5, <2>6, <2>7
<1>7. P = a .. b
  <2>1. ASSUME NEW i \in a .. b PROVE i \in P
    <3>1. i \in 1 .. Len(s) /\ a \in 1 .. Len(s) + 1 /\ i \in 1 .. Len(s) + 1 /\ b \in 1 .. Len(s) + 1
          /\ a <= i /\ i <= b
      BY <1>1, <1>5
    <3>2. Drops(s, a) <= Drops(s, i) /\ Drops(s, i) <= Drops(s, b)
      BY <3>1, DropsGrow
    <3>3. Drops(s, a) = k - 1 /\ Drops(s, b) = k - 1
      BY <1>2, <1>3, <1>4
    <3> QED
      BY <1>1, <1>2, <3>1, <3>2, <3>3
  <2>2. \A i \in P : i \in a .. b
    BY <1>2, <1>3, <1>4, <1>5
  <2> QED
    BY <2>1, <2>2
<1>8. ASSUME NEW i \in a .. b - 1 PROVE s[i].kind # "drop"
  <2>1. i \in P /\ i + 1 \in P
    BY <1>5, <1>7
  <2>2. Drops(s, i) = k - 1 /\ Drops(s, i + 1) = k - 1 /\ i \in 1 .. Len(s)
    BY <1>2, <2>1
  <2>3. s[i].kind = "drop" => Drops(s, i + 1) = Drops(s, i) + 1
    BY <2>2, DropsCounted
  <2> QED
    BY <1>1, <2>2, <2>3
<1> QED
  BY <1>5, <1>6, <1>7, <1>8 DEF P

LEMMA SessionsFollow ==
  ASSUME NEW s \in Seq(Plannable), Len(s) > 0
  PROVE  /\ Cuts(s) \in Nat \ {0}
         /\ Opens(s, 1) = 1 /\ Closes(s, Cuts(s)) = Len(s)
         /\ \A k \in 2 .. Cuts(s) :
               Opens(s, k) = Closes(s, k - 1) + 1 /\ s[Closes(s, k - 1)].kind = "drop"
<1>1. /\ Len(s) \in Nat /\ DOMAIN s = 1 .. Len(s) /\ Len(s) \in 1 .. Len(s) /\ 1 \in 1 .. Len(s)
      /\ \A i \in 1 .. Len(s) + 1 : Drops(s, i) \in Nat
      /\ Drops(s, 1) = 0
  BY LenProperties, DropsCounted
<1>2. Cuts(s) \in Nat \ {0} /\ Drops(s, Len(s)) = Cuts(s) - 1
  BY <1>1 DEF Cuts
<1>3. 1 \in Places(s, 1) /\ Len(s) \in Places(s, Cuts(s))
  BY <1>1, <1>2 DEF Places
<1>4. 1 \in 1 .. Cuts(s) /\ Cuts(s) \in 1 .. Cuts(s)
  BY <1>2
<1>5. Opens(s, 1) = 1
  <2>1. Opens(s, 1) \in 1 .. Len(s) /\ Closes(s, 1) \in 1 .. Len(s) /\ 1 \in Opens(s, 1) .. Closes(s, 1)
    BY <1>3, <1>4, SessionStretch
  <2> QED
    BY <1>1, <2>1
<1>6. Closes(s, Cuts(s)) = Len(s)
  <2> DEFINE c == Cuts(s)
  <2>1. Opens(s, c) \in 1 .. Len(s) /\ Closes(s, c) \in 1 .. Len(s) /\ Len(s) \in Opens(s, c) .. Closes(s, c)
    BY <1>3, <1>4, SessionStretch
  <2> HIDE DEF c
  <2>2. Closes(s, c) = Len(s)
    BY <1>1, <2>1
  <2> QED
    BY <2>2 DEF c
<1>7. ASSUME NEW k \in 2 .. Cuts(s)
      PROVE  Opens(s, k) = Closes(s, k - 1) + 1 /\ s[Closes(s, k - 1)].kind = "drop"
  <2> DEFINE a == Opens(s, k)
             p == a - 1
             h == Closes(s, k - 1)
             l == Opens(s, k - 1)
  <2>1. k \in Int /\ k \in 1 .. Cuts(s) /\ k - 1 \in 1 .. Cuts(s)
    BY <1>2
  <2>2. /\ a \in 1 .. Len(s) /\ Closes(s, k) \in 1 .. Len(s) /\ a <= Closes(s, k)
        /\ Places(s, k) = a .. Closes(s, k)
    BY <2>1, SessionStretch
  <2>3. /\ l \in 1 .. Len(s) /\ h \in 1 .. Len(s) /\ l <= h
        /\ Places(s, k - 1) = l .. h
    BY <2>1, SessionStretch
  <2>4. /\ \A i \in 1 .. Len(s) : i \in Places(s, k) <=> Drops(s, i) = k - 1
        /\ \A i \in 1 .. Len(s) : i \in Places(s, k - 1) <=> Drops(s, i) = k - 1 - 1
    BY <1>1 DEF Places
  <2> HIDE DEF a, h, l
  <2>5. Drops(s, a) = k - 1 /\ a # 1
    <3>1. a \in Places(s, k)
      BY <1>1, <2>2
    <3>2. Drops(s, a) = k - 1
      BY <2>2, <2>4, <3>1
    <3> QED
      BY <1>1, <2>1, <3>2
  <2>6. p \in 1 .. Len(s) /\ p + 1 = a /\ p \in Int /\ p \notin Places(s, k)
    BY <1>1, <2>2, <2>5
  <2> HIDE DEF p
  <2>7. p \in 1 .. Len(s) + 1 /\ Drops(s, p) \in Nat /\ Drops(s, p) # k - 1
    BY <1>1, <2>4, <2>6
  <2>8. Drops(s, a) = Drops(s, p) + IF s[p].kind = "drop" THEN 1 ELSE 0
    BY <2>6, DropsCounted
  <2>9. s[p].kind = "drop" /\ Drops(s, p) = k - 1 - 1
    <3>1. s[p].kind # "drop" => Drops(s, a) = Drops(s, p) + 0
      BY <2>8
    <3>2. s[p].kind = "drop" => Drops(s, a) = Drops(s, p) + 1
      BY <2>8
    <3> QED
      BY <2>1, <2>5, <2>7, <3>1, <3>2
  <2>10. p \in l .. h
    BY <2>3, <2>4, <2>6, <2>9
  <2>11. h <= p
    <3>1. h \in l .. h /\ h \in 1 .. Len(s) + 1 /\ a \in 1 .. Len(s) + 1
      BY <1>1, <2>2, <2>3
    <3>2. Drops(s, h) = k - 1 - 1
      BY <2>3, <2>4, <3>1
    <3>3. a <= h => Drops(s, a) <= Drops(s, h)
      BY <3>1, DropsGrow
    <3>4. ~(a <= h)
      BY <2>1, <2>5, <3>2, <3>3
    <3> QED
      BY <1>1, <2>2, <2>3, <2>6, <3>4
  <2>12. h = p
    BY <1>1, <2>3, <2>6, <2>10, <2>11
  <2> QED
    BY <2>6, <2>9, <2>12 DEF a, h
<1> QED
  BY <1>2, <1>5, <1>6, <1>7

LEMMA SessionsCut ==
  ASSUME NEW s \in Seq(Plannable), Len(s) > 0, Booted(s, FirstBoot)
  PROVE  /\ Sessions(s) \in Seq([boot : Nat \ {0}, messages : Seq(Plannable)])
         /\ Len(Sessions(s)) = Cuts(s)
         /\ \A k \in 1 .. Cuts(s) :
              /\ Sessions(s)[k].boot = FirstBoot + k - 1
              /\ Len(Sessions(s)[k].messages) = Closes(s, k) - Opens(s, k) + 1
              /\ \A j \in 1 .. Closes(s, k) - Opens(s, k) + 1 :
                    Sessions(s)[k].messages[j] = s[Opens(s, k) + j - 1]
<1> DEFINE piece(k) == SubSeq(s, Min(Places(s, k)), Max(Places(s, k)))
           bootOf(list) == list[Min({i \in DOMAIN list : list[i].boot # 0})].boot
           cut(k) == [boot |-> IF k = 1 THEN FirstBoot ELSE bootOf(piece(k)), messages |-> piece(k)]
           c == Cuts(s)
           all == Sessions(s)
<1>1. Len(s) \in Nat /\ c \in Nat \ {0} /\ s # <<>>
  <2>1. s # <<>>
    BY EmptySeq
  <2> QED
    BY <2>1, LenProperties, SessionsFollow
<1>2. all = [k \in 1 .. c |-> cut(k)]
  BY <1>1 DEF Sessions, Cuts
<1> HIDE DEF all, c, cut
<1>3. ASSUME NEW k \in 1 .. c
      PROVE  /\ piece(k) \in Seq(Plannable)
             /\ Len(piece(k)) = Closes(s, k) - Opens(s, k) + 1
             /\ \A j \in 1 .. Closes(s, k) - Opens(s, k) + 1 : piece(k)[j] = s[Opens(s, k) + j - 1]
  <2> DEFINE a == Opens(s, k)
             b == Closes(s, k)
             p == SubSeq(s, a, b)
  <2>1. piece(k) = p
    BY DEF Opens, Closes
  <2>2. a \in 1 .. Len(s) /\ b \in 1 .. Len(s) /\ a <= b
    BY SessionStretch DEF c
  <2> HIDE DEF a, b
  <2>3. \A i \in a .. b : s[i] \in Plannable
    <3>1. \A i \in a .. b : i \in 1 .. Len(s)
      BY <1>1, <2>2
    <3> QED
      BY <3>1, ElementOfSeq
  <2>4. a \in Int /\ b \in Int /\ b - a + 1 \in Nat
    BY <1>1, <2>2
  <2>5. /\ p \in Seq(Plannable) /\ Len(p) = b - a + 1
        /\ \A j \in 1 .. b - a + 1 : p[j] = s[a + j - 1]
    BY <2>2, <2>3, <2>4, SubSeqProperties
  <2> HIDE DEF p, piece
  <2> QED
    BY <2>1, <2>5 DEF a, b
<1>4. ASSUME NEW k \in 2 .. c PROVE bootOf(piece(k)) = FirstBoot + k - 1
  <2> DEFINE a == Opens(s, k)
             list == piece(k)
             S == {i \in DOMAIN list : list[i].boot # 0}
  <2>1. k \in Int /\ k \in 1 .. c
    BY <1>1
  <2>2. /\ list \in Seq(Plannable) /\ Len(list) \in Nat
        /\ Len(list) = Closes(s, k) - a + 1
        /\ \A j \in 1 .. Closes(s, k) - a + 1 : list[j] = s[a + j - 1]
    BY <1>3, <2>1, LenProperties
  <2>3. /\ a \in 1 .. Len(s) /\ Closes(s, k) \in 1 .. Len(s) /\ a <= Closes(s, k)
        /\ Places(s, k) = a .. Closes(s, k)
    BY <2>1, SessionStretch DEF c
  <2>4. a = Closes(s, k - 1) + 1 /\ s[Closes(s, k - 1)].kind = "drop"
    BY SessionsFollow DEF c
  <2>5. Closes(s, k - 1) \in 1 .. Len(s)
    <3>1. k - 1 \in 1 .. c
      BY <1>1
    <3> QED
      BY <3>1, SessionStretch DEF c
  <2> HIDE DEF a, list
  <2>6. a > 1 /\ a - 1 = Closes(s, k - 1)
    BY <1>1, <2>4, <2>5
  <2>7. Drops(s, a) = k - 1
    <3>1. a \in Places(s, k)
      BY <1>1, <2>3
    <3> QED
      BY <3>1 DEF Places
  <2>8. s[a].boot = FirstBoot + (k - 1)
    BY <2>3, <2>4, <2>6, <2>7 DEF Booted
  <2>9. list[1] = s[a] /\ 1 \in 1 .. Len(list) /\ DOMAIN list = 1 .. Len(list)
    <3>1. 1 \in 1 .. Closes(s, k) - a + 1 /\ a + 1 - 1 = a
      BY <1>1, <2>3
    <3> QED
      BY <2>2, <3>1, LenProperties
  <2>10. list[1].boot = FirstBoot + k - 1 /\ list[1].boot # 0
    BY <2>1, <2>8, <2>9 DEF FirstBoot
  <2>11. 1 \in S /\ \A i \in S : i \in Nat /\ 1 <= i
    BY <2>2, <2>9, <2>10
  <2> HIDE DEF S
  <2>12. Min(S) = 1
    <3>1. \A x \in S : (\A y \in S : x <= y) => x = 1
      BY <2>11
    <3> QED
      BY <2>11, <3>1 DEF Min
  <2> QED
    BY <2>10, <2>12 DEF S, list
<1>5. ASSUME NEW k \in 1 .. c
      PROVE  /\ cut(k) \in [boot : Nat \ {0}, messages : Seq(Plannable)]
             /\ cut(k).boot = FirstBoot + k - 1 /\ cut(k).messages = piece(k)
  <2>1. k \in Int /\ k >= 1 /\ (k # 1 => k \in 2 .. c)
    BY <1>1
  <2> HIDE DEF piece, bootOf
  <2>2. (IF k = 1 THEN FirstBoot ELSE bootOf(piece(k))) = FirstBoot + k - 1
    BY <1>4, <2>1 DEF FirstBoot
  <2>3. FirstBoot + k - 1 \in Nat \ {0}
    BY <2>1 DEF FirstBoot
  <2> QED
    BY <1>3, <2>2, <2>3 DEF cut
<1>6. all \in [1 .. c -> [boot : Nat \ {0}, messages : Seq(Plannable)]]
  BY <1>2, <1>5
<1>7. all \in Seq([boot : Nat \ {0}, messages : Seq(Plannable)]) /\ Len(all) = c
  <2> DEFINE R == [boot : Nat \ {0}, messages : Seq(Plannable)]
  <2> HIDE DEF R
  <2>1. all \in [1 .. c -> R]
    BY <1>6 DEF R
  <2>2. all \in Seq(R)
    BY <1>1, <2>1, SeqDef
  <2>3. Len(all) = c
    BY <1>1, <2>1, <2>2, LenProperties
  <2> QED
    BY <2>2, <2>3 DEF R
<1>8. \A k \in 1 .. c : all[k] = cut(k)
  BY <1>2
<1> HIDE DEF piece, bootOf
<1>9. \A k \in 1 .. c :
        /\ all[k].boot = FirstBoot + k - 1
        /\ Len(all[k].messages) = Closes(s, k) - Opens(s, k) + 1
        /\ \A j \in 1 .. Closes(s, k) - Opens(s, k) + 1 : all[k].messages[j] = s[Opens(s, k) + j - 1]
  BY <1>3, <1>5, <1>8
<1> QED
  BY <1>7, <1>9 DEF all, c

All == Messages(invoked.names, invoked.count)

\* Every command line makes a plan in which each session has a boot id of its own.
LEMMA PlansWell ==
  ASSUME PublisherInit
  PROVE  WellPlanned
<1> DEFINE R == [boot : Nat \ {0}, messages : Seq(Plannable)]
<1>0. Seq(R) = Seq([boot : Nat \ {0},
                     messages : Seq([kind : (Kinds \ {"will"}) \cup {"drop"}, boot : Int, seq : Int])])
  BY DEF Plannable
<1>1. /\ invoked.names \in Seq(STRING) /\ invoked.count \in Int
      /\ plan = IF invoked.count < 1 THEN <<>> ELSE Sessions(All)
  BY PublisherAssumption DEF PublisherInit, All
<1>2. CASE invoked.count < 1
  <2>1. plan = <<>> /\ DOMAIN plan = {}
    BY <1>1, <1>2
  <2>2. plan \in Seq(R)
    BY <2>1, EmptySeq
  <2> HIDE DEF R
  <2> QED
    BY <1>0, <2>1, <2>2 DEF WellPlanned
<1>3. CASE ~(invoked.count < 1)
  <2>1. Booted(All, FirstBoot)
    BY <1>1, <1>3, MessagesBooted DEF All
  <2>2. All \in Seq(Plannable) /\ Len(All) \in Nat /\ DOMAIN All = 1 .. Len(All) /\ plan = Sessions(All)
    BY <1>1, <1>3, <2>1, LenProperties DEF Booted
  <2>3. CASE All = <<>>
    <3>1. plan = <<[boot |-> FirstBoot, messages |-> <<>>]>>
      BY <2>2, <2>3 DEF Sessions
    <3>2. /\ plan \in Seq(R) /\ DOMAIN plan = {1} /\ plan[1].boot = FirstBoot /\ plan[1].messages = <<>>
          /\ DOMAIN plan[1].messages = {}
      <4>1. [boot |-> FirstBoot, messages |-> <<>>] \in R
        BY EmptySeq DEF FirstBoot
      <4> QED
        BY <3>1, <4>1
    <3> HIDE DEF R
    <3> QED
      BY <1>0, <3>2 DEF WellPlanned
  <2>4. CASE All # <<>>
    <3>1. Len(All) > 0
      BY <2>2, <2>4, EmptySeq
    <3>2. /\ plan \in Seq(R) /\ Len(plan) = Cuts(All)
          /\ \A k \in 1 .. Cuts(All) :
              /\ plan[k].boot = FirstBoot + k - 1
              /\ Len(plan[k].messages) = Closes(All, k) - Opens(All, k) + 1
              /\ \A j \in 1 .. Closes(All, k) - Opens(All, k) + 1 :
                    plan[k].messages[j] = All[Opens(All, k) + j - 1]
      BY <2>1, <2>2, <3>1, SessionsCut
    <3>3. DOMAIN plan = 1 .. Cuts(All) /\ Cuts(All) \in Nat \ {0}
      BY <2>2, <3>1, <3>2, LenProperties, SessionsFollow
    <3>4. plan[1].boot = FirstBoot
      BY <3>2, <3>3 DEF FirstBoot
    <3>5. ASSUME NEW i \in DOMAIN plan, NEW j \in DOMAIN plan, plan[i].boot = plan[j].boot PROVE i = j
      BY <3>2, <3>3, <3>5 DEF FirstBoot
    <3>6. ASSUME NEW k \in DOMAIN plan, NEW j \in DOMAIN plan[k].messages
          PROVE  plan[k].messages[j].boot \in {0, -1, plan[k].boot}
      <4> DEFINE a == Opens(All, k)
                 b == Closes(All, k)
                 i == a + j - 1
      <4>1. a \in 1 .. Len(All) /\ b \in 1 .. Len(All) /\ a <= b /\ Places(All, k) = a .. b
        BY <2>2, <3>1, <3>3, SessionStretch
      <4>2. DOMAIN plan[k].messages = 1 .. Len(plan[k].messages)
        <5>1. plan[k] \in R
          BY <3>2, <3>3, ElementOfSeq
        <5> QED
          BY <5>1, LenProperties
      <4>3. Len(plan[k].messages) = b - a + 1 /\ \A m \in 1 .. b - a + 1 : plan[k].messages[m] = All[a + m - 1]
        BY <3>2, <3>3
      <4> HIDE DEF a, b
      <4>4. i \in a .. b /\ i \in 1 .. Len(All) /\ plan[k].messages[j] = All[i]
        BY <2>2, <4>1, <4>2, <4>3
      <4> HIDE DEF i
      <4>5. Drops(All, i) = k - 1 /\ k \in Int
        BY <3>3, <4>1, <4>4 DEF Places
      <4>6. All[i].boot \in {0, -1, FirstBoot + (k - 1)}
        BY <2>1, <4>4, <4>5 DEF Booted
      <4>7. FirstBoot + (k - 1) = plan[k].boot
        BY <3>2, <3>3, <4>5 DEF FirstBoot
      <4> QED
        BY <4>4, <4>6, <4>7
    <3> HIDE DEF R
    <3> QED
      BY <1>0, <3>2, <3>4, <3>5, <3>6 DEF WellPlanned
  <2> QED
    BY <2>3, <2>4
<1> QED
  BY <1>2, <1>3

-------------------------------------------------------------------------------
(* Walking the sessions *)

Entry == [kind : Kinds, boot : Int, seq : Int, under : Nat]

\* What a message may be that reaches the broker next: of no session, the
\* exception, or of a session under its own will that is not out yet.
Unmourned(w, boot) == \A i \in DOMAIN w : w[i].kind = "will" => w[i].boot # boot

MayReach(w, e) ==
    \/ e.boot \in {0, -1}
    \/ interrupt = "moved" /\ e.kind = "offline"
    \/ e.boot = e.under /\ Unmourned(w, e.boot)

\* DeadStaysDead, of any sequence of messages.
Orderly(w) ==
    \A j \in DOMAIN w :
        \/ w[j].boot \in {0, -1}
        \/ interrupt = "moved" /\ w[j].kind = "offline"
        \/ /\ w[j].boot = w[j].under
           /\ \A i \in 1 .. j - 1 : w[i].kind = "will" => w[i].boot # w[j].boot

\* No will is out but those of the first sessions.
Past(boot, last) == \E s \in 1 .. last : s \in DOMAIN plan /\ boot = plan[s].boot

UpTo(w, last) == \A i \in DOMAIN w : w[i].kind = "will" => Past(w[i].boot, last)

\* Where a connection can be in the walk, and under which will.
LinkInv ==
    /\ session \in Nat \ {0} /\ sent \in Nat /\ will \in Nat /\ link \in Nat
    /\ pc \in {"connect", "start", "send", "dropped", "stopped", "set", "reconnected",
               "looped", "moved", "goodbye", "done"}
    /\ pc \notin {"goodbye", "done"} => interrupt = "none"
    /\ pc = "connect" => session = 1 /\ link = 0 /\ wire = <<>> /\ will = FirstBoot
    /\ pc \notin {"connect", "done"} => session \in DOMAIN plan
    /\ pc \in {"start", "send"} => will = plan[session].boot
    /\ pc \in {"dropped", "stopped", "set"} => link = 0
    /\ pc \in {"dropped", "stopped", "set", "reconnected", "looped", "moved"} =>
          session + 1 \in DOMAIN plan
    /\ pc \in {"set", "reconnected", "looped", "moved"} => will = plan[session + 1].boot
    /\ pc \in {"start", "send", "reconnected", "looped", "moved"} => link \in {0, will}
    /\ pc = "goodbye" /\ interrupt # "moved" => link \in {0, plan[session].boot}

\* A connection's will is not out yet, and a will that is out is of a session
\* that the walk has come to.
WillInv ==
    /\ link # 0 => Unmourned(wire, link)
    /\ pc \in {"start", "send", "dropped", "stopped", "set"} => UpTo(wire, session)
    /\ pc \in {"reconnected", "looped", "moved"} => UpTo(wire, session + 1)

PublisherInv ==
    /\ WellPlanned
    /\ wire \in Seq(Entry)
    /\ LinkInv /\ WillInv
    /\ Orderly(wire)

LEMMA AppendEntry ==
    ASSUME NEW w \in Seq(Entry), NEW e \in Entry, Orderly(w), MayReach(w, e)
    PROVE  /\ Append(w, e) \in Seq(Entry) /\ Orderly(Append(w, e))
           /\ \A boot : Unmourned(w, boot) /\ (e.kind = "will" => e.boot # boot)
                          => Unmourned(Append(w, e), boot)
           /\ \A last : UpTo(w, last) /\ (e.kind = "will" => Past(e.boot, last))
                          => UpTo(Append(w, e), last)
<1> DEFINE g == Append(w, e)
<1>1. /\ g \in Seq(Entry) /\ Len(w) \in Nat
      /\ DOMAIN w = 1 .. Len(w) /\ DOMAIN g = 1 .. Len(w) + 1
      /\ \A i \in 1 .. Len(w) : g[i] = w[i]
      /\ g[Len(w) + 1] = e
  BY AppendProperties, LenProperties
<1>2. \A i \in DOMAIN g : (i \in DOMAIN w /\ g[i] = w[i]) \/ (i = Len(w) + 1 /\ g[i] = e)
  BY <1>1
<1> HIDE DEF g
<1>3. Orderly(g)
  <2> SUFFICES ASSUME NEW j \in DOMAIN g, g[j].boot \notin {0, -1},
                      ~(interrupt = "moved" /\ g[j].kind = "offline")
               PROVE  /\ g[j].boot = g[j].under
                      /\ \A i \in 1 .. j - 1 : g[i].kind = "will" => g[i].boot # g[j].boot
    BY DEF Orderly
  <2>1. \A i \in 1 .. j - 1 : i \in DOMAIN w /\ g[i] = w[i]
    BY <1>1
  <2>2. CASE j \in DOMAIN w /\ g[j] = w[j]
    BY <2>1, <2>2 DEF Orderly
  <2>3. CASE j = Len(w) + 1 /\ g[j] = e
    BY <2>1, <2>3 DEF MayReach, Unmourned
  <2> QED
    BY <1>2, <2>2, <2>3
<1>4. ASSUME NEW boot, Unmourned(w, boot), e.kind = "will" => e.boot # boot
      PROVE  Unmourned(g, boot)
  BY <1>2, <1>4 DEF Unmourned
<1>5. ASSUME NEW last, UpTo(w, last), e.kind = "will" => Past(e.boot, last)
      PROVE  UpTo(g, last)
  <2> SUFFICES ASSUME NEW i \in DOMAIN g, g[i].kind = "will" PROVE Past(g[i].boot, last)
    BY DEF UpTo
  <2> QED
    BY <1>2, <1>5 DEF UpTo
<1> QED
  BY <1>1, <1>3, <1>4, <1>5 DEF g

LEMMA ReceivedEntry ==
    ASSUME NEW m, m.kind \in Kinds, m.boot \in Int, m.seq \in Int, link \in Nat
    PROVE  /\ Received(m) \in Entry
           /\ Received(m).kind = m.kind /\ Received(m).boot = m.boot /\ Received(m).under = link
BY DEF Received, Entry

LEMMA PublisherStarts ==
    ASSUME WellPlanned, PublisherInit
    PROVE  PublisherInv
<1>1. wire = <<>> /\ wire \in Seq(Entry) /\ DOMAIN wire = {}
  BY DEF PublisherInit
<1>2. LinkInv /\ WillInv /\ Orderly(wire)
  BY <1>1 DEF PublisherInit, LinkInv, WillInv, Orderly, FirstBoot
<1> QED
  BY <1>1, <1>2 DEF PublisherInv

\* The sessions of the plan, as the steps look at them.
LEMMA SessionsPlanned ==
    ASSUME PublisherInv
    PROVE  /\ Len(plan) \in Nat /\ DOMAIN plan = 1 .. Len(plan)
           /\ \A i \in DOMAIN plan : plan[i].boot \in Nat \ {0} /\ plan[i].messages \in Seq(Plannable)
           /\ \A i, j \in DOMAIN plan : plan[i].boot = plan[j].boot => i = j
           /\ plan # <<>> => 1 \in DOMAIN plan /\ plan[1].boot = FirstBoot
<1> DEFINE R == [boot : Nat \ {0}, messages : Seq(Plannable)]
<1>1. /\ plan \in Seq(R)
      /\ plan # <<>> => plan[1].boot = FirstBoot
      /\ \A i, j \in DOMAIN plan : plan[i].boot = plan[j].boot => i = j
  BY DEF PublisherInv, WellPlanned, Plannable
<1> HIDE DEF R
<1>2. Len(plan) \in Nat /\ DOMAIN plan = 1 .. Len(plan) /\ (plan # <<>> => Len(plan) # 0)
  BY <1>1, LenProperties, EmptySeq
<1>3. \A i \in DOMAIN plan : plan[i] \in R
  BY <1>1, <1>2, ElementOfSeq
<1>4. \A i \in DOMAIN plan : plan[i].boot \in Nat \ {0} /\ plan[i].messages \in Seq(Plannable)
  BY <1>3 DEF R
<1>5. plan # <<>> => 1 \in DOMAIN plan
  BY <1>2
<1> QED
  BY <1>1, <1>2, <1>4, <1>5

\* What the next message of a session can be.
LEMMA NextPlanned ==
    ASSUME PublisherInv, pc = "send", Remaining > 0
    PROVE  /\ Next1.kind \in (Kinds \ {"will"}) \cup {"drop"}
           /\ Next1.boot \in Int /\ Next1.seq \in Int
           /\ Next1.boot \in {0, -1, plan[session].boot}
<1> DEFINE ms == plan[session].messages
<1>1. session \in DOMAIN plan /\ sent \in Nat
  BY DEF PublisherInv, LinkInv
<1>2. /\ ms \in Seq(Plannable)
      /\ \A j \in DOMAIN ms : ms[j].boot \in {0, -1, plan[session].boot}
  <2>1. \A i \in DOMAIN plan : \A j \in DOMAIN plan[i].messages :
          plan[i].messages[j].boot \in {0, -1, plan[i].boot}
    BY DEF PublisherInv, WellPlanned
  <2> QED
    BY <1>1, <2>1, SessionsPlanned
<1>3. Len(ms) \in Nat /\ DOMAIN ms = 1 .. Len(ms)
  BY <1>2, LenProperties
<1>4. Len(ms) - sent > 0 /\ Next1 = ms[sent + 1]
  BY DEF Remaining, Next1, Here
<1> HIDE DEF ms
<1>5. sent + 1 \in DOMAIN ms
  BY <1>1, <1>3, <1>4
<1>6. ms[sent + 1] \in Plannable
  BY <1>2, <1>3, <1>5, ElementOfSeq
<1> QED
  BY <1>2, <1>4, <1>5, <1>6 DEF Plannable

\* The walk itself: a step that puts nothing on the wire.
LEMMA WalkKeeps ==
    ASSUME PublisherInv, UNCHANGED <<plan, wire>>,
           \/ Refuse \/ Connect \/ StartLoop \/ PublishRaises
           \/ StopLoop \/ SetWill \/ Reconnect \/ RestartLoop
           \/ Reconnected \/ NextSession \/ Finish \/ Interrupt \/ Abort
    PROVE  PublisherInv'
<1> USE DEF PublisherInv
<1>1. /\ Len(plan) \in Nat /\ DOMAIN plan = 1 .. Len(plan)
      /\ \A i \in DOMAIN plan : plan[i].boot \in Nat \ {0}
      /\ \A i, j \in DOMAIN plan : plan[i].boot = plan[j].boot => i = j
      /\ plan # <<>> => 1 \in DOMAIN plan /\ plan[1].boot = FirstBoot
  BY SessionsPlanned
<1>2. WellPlanned'
  BY DEF WellPlanned
<1>3. Orderly(wire)'
  <2>1. CASE UNCHANGED interrupt
    BY <2>1 DEF Orderly
  <2>2. CASE Interrupt
    <3>1. interrupt = "none"
      BY <2>2 DEF Interrupt, LinkInv
    <3> QED
      BY <3>1 DEF Orderly
  <2> QED
    BY <2>1, <2>2 DEF Refuse, Connect, StartLoop, PublishRaises, StopLoop, SetWill, Reconnect, RestartLoop,
                      Reconnected, NextSession, Finish, Abort
<1>4. LinkInv'
  <2>1. CASE Refuse \/ PublishRaises \/ Abort
    BY <1>1, <2>1 DEF Refuse, PublishRaises, Abort, Ends, LinkInv, run, walk
  <2>2. CASE Connect
    BY <1>1, <2>2 DEF Connect, Ends, LinkInv, run, walk
  <2>3. CASE StartLoop
    BY <1>1, <2>3 DEF StartLoop, Ends, LinkInv, run, walk
  <2>4. CASE StopLoop \/ SetWill
    BY <1>1, <2>4 DEF StopLoop, SetWill, LinkInv, run, walk
  <2>5. CASE Reconnect \/ RestartLoop \/ Reconnected
    BY <1>1, <2>5 DEF Reconnect, RestartLoop, Reconnected, Ends, LinkInv, run, walk
  <2>6. CASE NextSession
    BY <1>1, <2>6 DEF NextSession, LinkInv, run
  <2>7. CASE Finish
    BY <1>1, <2>7 DEF Finish, LinkInv, run, walk
  <2>8. CASE Interrupt
    BY <1>1, <2>8 DEF Interrupt, Ends, LinkInv, run, walk
  <2> QED
    BY <2>1, <2>2, <2>3, <2>4, <2>5, <2>6, <2>7, <2>8
<1>5. WillInv'
  <2>1. CASE UNCHANGED <<link, session>>
    <3>1. (link # 0 => Unmourned(wire, link))'
      BY <2>1 DEF WillInv, Unmourned
    <3>2. (pc \in {"start", "send", "dropped", "stopped", "set"} => UpTo(wire, session))'
      BY <2>1 DEF WillInv, UpTo, Past, Refuse, Connect, StartLoop, PublishRaises, StopLoop, SetWill, Reconnect,
                  RestartLoop, Reconnected, NextSession, Finish, Interrupt, Abort, Ends, LinkInv
    <3>3. (pc \in {"reconnected", "looped", "moved"} => UpTo(wire, session + 1))'
      BY <2>1 DEF WillInv, UpTo, Past, Refuse, Connect, StartLoop, PublishRaises, StopLoop, SetWill, Reconnect,
                  RestartLoop, Reconnected, NextSession, Finish, Interrupt, Abort, Ends, LinkInv
    <3> QED
      BY <3>1, <3>2, <3>3 DEF WillInv
  <2>2. CASE Connect
    BY <2>2 DEF Connect, Ends, LinkInv, WillInv, Unmourned, UpTo
  <2>3. CASE Reconnect /\ pc' = "reconnected"
    <3>1. /\ link' = plan[session + 1].boot /\ session' = session
          /\ session \in Nat \ {0} /\ session + 1 \in DOMAIN plan /\ UpTo(wire, session)
      <4>1. pc = "set" /\ link' = will /\ session' = session
        BY <2>3 DEF Reconnect, Ends, walk
      <4> QED
        BY <4>1 DEF LinkInv, WillInv
    <3>2. Unmourned(wire, link')
      <4> SUFFICES ASSUME NEW i \in DOMAIN wire, wire[i].kind = "will", wire[i].boot = link'
                   PROVE  FALSE
        BY DEF Unmourned
      <4>1. PICK s \in 1 .. session : s \in DOMAIN plan /\ wire[i].boot = plan[s].boot
        BY <3>1 DEF UpTo, Past
      <4>2. s = session + 1
        BY <1>1, <3>1, <4>1
      <4> QED
        BY <3>1, <4>2
    <3>3. UpTo(wire, session + 1)
      BY <3>1 DEF UpTo, Past
    <3> QED
      BY <2>3, <3>1, <3>2, <3>3 DEF WillInv, Unmourned, UpTo, Past
  <2>4. CASE NextSession
    <3>1. pc = "moved" /\ pc' = "send" /\ session' = session + 1 /\ UNCHANGED link
      BY <2>4 DEF NextSession
    <3> QED
      BY <3>1 DEF WillInv, Unmourned, UpTo, Past
  <2> QED
    BY <2>1, <2>2, <2>3, <2>4 DEF Refuse, StartLoop, PublishRaises, StopLoop, SetWill, Reconnect,
                  RestartLoop, Reconnected, Finish, Interrupt, Abort, Ends, walk
<1> QED
  BY <1>2, <1>3, <1>4, <1>5

\* The next message of a session goes out under the will of that session.
LEMMA OwnMayReach ==
    ASSUME PublisherInv, pc = "send", Remaining > 0, Next1.kind # "drop", link # 0
    PROVE  /\ Received(Next1) \in Entry /\ Received(Next1).kind # "will"
           /\ MayReach(wire, Received(Next1))
<1>1. link = plan[session].boot /\ link \in Nat /\ Unmourned(wire, link)
  BY DEF PublisherInv, LinkInv, WillInv
<1>2. /\ Next1.kind \in Kinds /\ Next1.kind # "will" /\ Next1.boot \in Int /\ Next1.seq \in Int
      /\ Next1.boot \in {0, -1, link}
  BY <1>1, NextPlanned
<1>3. /\ Received(Next1) \in Entry
      /\ Received(Next1).kind = Next1.kind /\ Received(Next1).boot = Next1.boot
      /\ Received(Next1).under = link
  BY <1>1, <1>2, ReceivedEntry
<1> QED
  BY <1>1, <1>2, <1>3 DEF MayReach

\* So does the goodbye, but for the one exception.
LEMMA GoodbyeMayReach ==
    ASSUME PublisherInv, pc = "goodbye", link # 0
    PROVE  /\ Received(Offline(Here.boot)) \in Entry /\ Received(Offline(Here.boot)).kind # "will"
           /\ MayReach(wire, Received(Offline(Here.boot)))
<1> DEFINE m == Offline(Here.boot)
<1>1. session \in DOMAIN plan /\ link \in Nat /\ Unmourned(wire, link)
  BY DEF PublisherInv, LinkInv, WillInv
<1>2. m.kind = "offline" /\ m.boot = plan[session].boot /\ m.seq = 0 /\ m.boot \in Nat
  BY <1>1, SessionsPlanned DEF Offline, Message, Here
<1>3. interrupt = "moved" \/ link = m.boot
  BY <1>2 DEF PublisherInv, LinkInv
<1> HIDE DEF m
<1>4. m.kind \in Kinds /\ m.boot \in Int /\ m.seq \in Int
  BY <1>2 DEF Kinds
<1>5. Received(m) \in Entry /\ Received(m).kind = m.kind /\ Received(m).boot = m.boot /\ Received(m).under = link
  BY <1>1, <1>4, ReceivedEntry
<1>6. MayReach(wire, Received(m)) /\ Received(m).kind # "will"
  BY <1>1, <1>2, <1>3, <1>5 DEF MayReach
<1> QED
  BY <1>5, <1>6 DEF m

\* The will of a connection is the first of its session.
LEMMA WillMayReach ==
    ASSUME PublisherInv, link # 0, NEW w \in Seq(Entry), Unmourned(w, link)
    PROVE  LET e == Received(Message("will", link, 0))
           IN e \in Entry /\ e.kind = "will" /\ e.boot = link /\ MayReach(w, e)
<1> DEFINE m == Message("will", link, 0)
<1>1. link \in Nat
  BY DEF PublisherInv, LinkInv
<1>2. m.kind = "will" /\ m.boot = link /\ m.seq = 0
  BY DEF Message
<1> HIDE DEF m
<1>3. m.kind \in Kinds /\ m.boot \in Int /\ m.seq \in Int
  BY <1>1, <1>2 DEF Kinds
<1>4. Received(m) \in Entry /\ Received(m).kind = "will" /\ Received(m).boot = link /\ Received(m).under = link
  BY <1>1, <1>2, <1>3, ReceivedEntry
<1> QED
  BY <1>4 DEF MayReach, m

\* An orderly wire stays one under a step that leaves the plan and Ctrl-C alone.
LEMMA WireMoves ==
    ASSUME PublisherInv, UNCHANGED <<plan, interrupt>>, wire' \in Seq(Entry), Orderly(wire')
    PROVE  WellPlanned' /\ wire' \in Seq(Entry) /\ Orderly(wire)'
BY DEF PublisherInv, WellPlanned, Orderly

LEMMA SendKeeps ==
    ASSUME PublisherInv, Send
    PROVE  PublisherInv'
<1>1. /\ pc = "send" /\ pc' = pc /\ link # 0 /\ sent' = sent + 1
      /\ wire' = Append(wire, Received(Next1))
      /\ UNCHANGED <<plan, session, will, link, interrupt>>
  BY DEF Send, Reaching, run
<1>2. /\ Received(Next1) \in Entry /\ Received(Next1).kind # "will"
      /\ MayReach(wire, Received(Next1))
  BY <1>1, OwnMayReach DEF Send
<1>3. /\ wire' \in Seq(Entry) /\ Orderly(wire')
      /\ Unmourned(wire, link) => Unmourned(wire', link)
      /\ UpTo(wire, session) => UpTo(wire', session)
  BY <1>1, <1>2, AppendEntry DEF PublisherInv
<1>4. WellPlanned' /\ wire' \in Seq(Entry) /\ Orderly(wire)'
  BY <1>1, <1>3, WireMoves
<1>5. LinkInv'
  BY <1>1 DEF PublisherInv, LinkInv
<1>6. WillInv'
  BY <1>1, <1>3 DEF PublisherInv, WillInv, Unmourned, UpTo, Past
<1> QED
  BY <1>4, <1>5, <1>6 DEF PublisherInv

\* The end of a connection is the end of its session, whoever notices.
LEMMA WithWillKeeps ==
    ASSUME PublisherInv, wire' = WithWill
    PROVE  /\ wire' \in Seq(Entry) /\ Orderly(wire')
           /\ \A last : UpTo(wire, last) /\ (link # 0 => Past(link, last)) => UpTo(wire', last)
<1> DEFINE e == Received(Message("will", link, 0))
<1>1. CASE link = 0
  BY <1>1 DEF WithWill, PublisherInv
<1>2. CASE link # 0
  <2>1. wire \in Seq(Entry) /\ Orderly(wire) /\ Unmourned(wire, link)
    BY <1>2 DEF PublisherInv, WillInv
  <2>2. e \in Entry /\ e.kind = "will" /\ e.boot = link /\ MayReach(wire, e)
    BY <1>2, <2>1, WillMayReach
  <2>3. wire' = Append(wire, e)
    BY <1>2 DEF WithWill, Reaching
  <2> HIDE DEF e
  <2> QED
    BY <1>2, <2>1, <2>2, <2>3, AppendEntry
<1> QED
  BY <1>1, <1>2

LEMMA LossKeeps ==
    ASSUME PublisherInv, LinkLost
    PROVE  PublisherInv'
<1>1. /\ wire' = WithWill /\ link' = 0 /\ link # 0
      /\ UNCHANGED <<plan, session, sent, pc, will, interrupt>>
  BY DEF LinkLost, run, walk
<1>2. /\ wire' \in Seq(Entry) /\ Orderly(wire')
      /\ \A last : UpTo(wire, last) /\ (link # 0 => Past(link, last)) => UpTo(wire', last)
  BY <1>1, WithWillKeeps
<1>3. WellPlanned' /\ wire' \in Seq(Entry) /\ Orderly(wire)'
  BY <1>1, <1>2, WireMoves
<1>4. LinkInv'
  BY <1>1 DEF PublisherInv, LinkInv
<1>5. WillInv'
  <2>1. CASE pc \in {"start", "send"}
    <3>1. /\ link = plan[session].boot /\ session \in DOMAIN plan /\ session \in 1 .. session
          /\ UpTo(wire, session)
      BY <1>1, <2>1 DEF PublisherInv, LinkInv, WillInv
    <3>2. UpTo(wire', session)
      BY <1>2, <3>1 DEF Past
    <3> QED
      BY <1>1, <2>1, <3>2 DEF WillInv, UpTo, Past
  <2>2. CASE pc \in {"reconnected", "looped", "moved"}
    <3>1. /\ link = plan[session + 1].boot /\ session + 1 \in DOMAIN plan
          /\ session + 1 \in 1 .. session + 1 /\ UpTo(wire, session + 1)
      BY <1>1, <2>2 DEF PublisherInv, LinkInv, WillInv
    <3>2. UpTo(wire', session + 1)
      BY <1>2, <3>1 DEF Past
    <3> QED
      BY <1>1, <2>2, <3>2 DEF WillInv, UpTo, Past
  <2>3. CASE pc \in {"connect", "dropped", "stopped", "set"}
    BY <1>1, <2>3 DEF PublisherInv, LinkInv
  <2>4. CASE pc \in {"goodbye", "done"}
    BY <1>1, <2>4 DEF WillInv
  <2> QED
    BY <2>1, <2>2, <2>3, <2>4 DEF PublisherInv, LinkInv
<1> QED
  BY <1>3, <1>4, <1>5 DEF PublisherInv

LEMMA DropKeeps ==
    ASSUME PublisherInv, DropConnection
    PROVE  PublisherInv'
<1>1. /\ pc = "send" /\ wire' = WithWill /\ link' = 0
      /\ UNCHANGED <<plan, session, will, interrupt>>
      /\ \/ session < Len(plan) /\ pc' = "dropped" /\ sent' = sent + 1
         \/ pc' = "done" /\ sent' = sent
  BY DEF DropConnection, Ends, run
<1>2. /\ wire' \in Seq(Entry) /\ Orderly(wire')
      /\ \A last : UpTo(wire, last) /\ (link # 0 => Past(link, last)) => UpTo(wire', last)
  BY <1>1, WithWillKeeps
<1>3. WellPlanned' /\ wire' \in Seq(Entry) /\ Orderly(wire)'
  BY <1>1, <1>2, WireMoves
<1>4. session \in DOMAIN plan /\ session \in Nat \ {0} /\ DOMAIN plan = 1 .. Len(plan) /\ Len(plan) \in Nat
  BY <1>1, SessionsPlanned DEF PublisherInv, LinkInv
<1>5. LinkInv'
  <2>1. session < Len(plan) => session + 1 \in DOMAIN plan
    BY <1>4
  <2> QED
    BY <1>1, <2>1 DEF PublisherInv, LinkInv
<1>6. WillInv'
  <2>1. UpTo(wire, session) /\ (link # 0 => link = plan[session].boot)
    BY <1>1 DEF PublisherInv, LinkInv, WillInv
  <2>2. link # 0 => Past(link, session)
    BY <1>4, <2>1 DEF Past
  <2>3. UpTo(wire', session)
    BY <1>2, <2>1, <2>2
  <2> QED
    BY <1>1, <2>3 DEF WillInv, UpTo, Past
<1> QED
  BY <1>3, <1>5, <1>6 DEF PublisherInv

\* A publication nobody confirmed, and the will that may follow it.
LEMMA UnconfirmedKeeps ==
    ASSUME PublisherInv, link # 0, NEW m, Unconfirmed(m), UNCHANGED <<run, walk, will, interrupt>>,
           pc \in {"send", "goodbye"},
           Received(m) \in Entry, Received(m).kind # "will", MayReach(wire, Received(m))
    PROVE  PublisherInv'
<1>1. pc' = "done" /\ link' = 0 /\ UNCHANGED <<plan, session, sent, will, interrupt>>
  BY DEF Unconfirmed, Leaves, Ends, run, walk
<1>2. /\ wire \in Seq(Entry) /\ Orderly(wire) /\ Unmourned(wire, link)
  BY DEF PublisherInv, WillInv
<1>3. PICK arrives \in BOOLEAN, lost \in BOOLEAN :
        LET reached == IF arrives THEN Reaching(m) ELSE wire
        IN wire' = IF lost THEN Append(reached, Received(Message("will", link, 0))) ELSE reached
  BY DEF Unconfirmed
<1> DEFINE reached == IF arrives THEN Append(wire, Received(m)) ELSE wire
           e == Received(Message("will", link, 0))
<1>4. reached \in Seq(Entry) /\ Orderly(reached) /\ Unmourned(reached, link)
  BY <1>2, AppendEntry
<1>5. wire' = IF lost THEN Append(reached, e) ELSE reached
  BY <1>3 DEF Reaching
<1> HIDE DEF reached
<1>6. e \in Entry /\ e.kind = "will" /\ e.boot = link /\ MayReach(reached, e)
  BY <1>4, WillMayReach
<1> HIDE DEF e
<1>7. wire' \in Seq(Entry) /\ Orderly(wire')
  BY <1>4, <1>5, <1>6, AppendEntry
<1>8. WellPlanned' /\ wire' \in Seq(Entry) /\ Orderly(wire)'
  BY <1>1, <1>7, WireMoves
<1>9. LinkInv' /\ WillInv'
  BY <1>1 DEF PublisherInv, LinkInv, WillInv
<1> QED
  BY <1>8, <1>9 DEF PublisherInv

LEMMA GoodbyeKeeps ==
    ASSUME PublisherInv, Goodbye
    PROVE  PublisherInv'
<1> DEFINE e == Received(Offline(Here.boot))
<1>1. /\ pc = "goodbye" /\ link # 0 /\ pc' = "done" /\ link' = 0
      /\ wire' = Append(wire, e)
      /\ UNCHANGED <<plan, session, sent, will, interrupt>>
  BY DEF Goodbye, Reaching, Leaves, Ends, run, walk
<1>2. e \in Entry /\ e.kind # "will" /\ MayReach(wire, e)
  BY <1>1, GoodbyeMayReach
<1> HIDE DEF e
<1>3. wire' \in Seq(Entry) /\ Orderly(wire')
  BY <1>1, <1>2, AppendEntry DEF PublisherInv
<1>4. WellPlanned' /\ wire' \in Seq(Entry) /\ Orderly(wire)'
  BY <1>1, <1>3, WireMoves
<1>5. LinkInv' /\ WillInv'
  BY <1>1 DEF PublisherInv, LinkInv, WillInv
<1> QED
  BY <1>4, <1>5 DEF PublisherInv

LEMMA PublisherSteps ==
    ASSUME PublisherInv, [PublisherNext]_publisherVars
    PROVE  PublisherInv'
<1>1. CASE \/ Refuse \/ Connect \/ StartLoop \/ PublishRaises
           \/ StopLoop \/ SetWill \/ Reconnect \/ RestartLoop
           \/ Reconnected \/ NextSession \/ Finish \/ Interrupt \/ Abort
  <2>1. UNCHANGED <<plan, wire>>
    BY <1>1 DEF Refuse, Connect, StartLoop, PublishRaises, StopLoop, SetWill, Reconnect, RestartLoop,
                Reconnected, NextSession, Finish, Interrupt, Abort, run
  <2> QED
    BY <1>1, <2>1, WalkKeeps
<1>2. CASE Send
  BY <1>2, SendKeeps
<1>3. CASE SendUnconfirmed
  <2>1. pc = "send" /\ Remaining > 0 /\ Next1.kind # "drop" /\ link # 0 /\ Unconfirmed(Next1)
        /\ UNCHANGED <<run, walk, will, interrupt>>
    BY <1>3 DEF SendUnconfirmed
  <2> QED
    BY <2>1, OwnMayReach, UnconfirmedKeeps
<1>4. CASE DropConnection
  BY <1>4, DropKeeps
<1>5. CASE Goodbye
  BY <1>5, GoodbyeKeeps
<1>6. CASE GoodbyeUnconfirmed
  <2>1. pc = "goodbye" /\ link # 0 /\ Unconfirmed(Offline(Here.boot))
        /\ UNCHANGED <<run, walk, will, interrupt>>
    BY <1>6 DEF GoodbyeUnconfirmed
  <2> QED
    BY <2>1, GoodbyeMayReach, UnconfirmedKeeps
<1>7. CASE LinkLost
  BY <1>7, LossKeeps
<1>8. CASE UNCHANGED publisherVars
  BY <1>8 DEF publisherVars, PublisherInv, WellPlanned, LinkInv, WillInv, Orderly, Unmourned, UpTo, Past
<1> QED
  BY <1>1, <1>2, <1>3, <1>4, <1>5, <1>6, <1>7, <1>8 DEF PublisherNext

\* publish_synthetic.py:32: nothing of a finished session reaches the broker,
\* whatever fails or interrupts the walk and wherever, for every command line.
THEOREM FinishedStaysFinished == PublisherSpec => []DeadStaysDead
<1>1. PublisherInit => PublisherInv
  BY PlansWell, PublisherStarts
<1>2. PublisherInv /\ [PublisherNext]_publisherVars => PublisherInv'
  BY PublisherSteps
<1>3. PublisherInv => DeadStaysDead
  BY DEF PublisherInv, Orderly, DeadStaysDead
<1> QED
  BY <1>1, <1>2, <1>3, PTL DEF PublisherSpec

-------------------------------------------------------------------------------
(* What has been said, and what was to be said *)

\* Two lists that agree at some of their first n places.
Agree(n, p, l, m) == n \in Nat /\ p \in SUBSET (1 .. n) /\ \A i \in p : m[i] = l[i]

Extends(n, p, l, m) ==
    Picked(m, p) = Picked(l, p) /\ Picked(m, p \cup {n + 1}) = Append(Picked(l, p), m[n + 1])

LEMMA PickedGrows ==
  ASSUME NEW n, NEW p, NEW l, NEW m, Agree(n, p, l, m)
  PROVE  Extends(n, p, l, m)
<1>0. n \in Nat /\ p \in SUBSET (1 .. n) /\ \A i \in p : m[i] = l[i]
  BY DEF Agree
<1> USE <1>0
<1> DEFINE q == p \cup {n + 1}
           c == Cardinality(p)
           at(places, k) == CHOOSE i \in places : Cardinality({j \in places : j <= i}) = k
<1>1. /\ IsFiniteSet(p) /\ c \in Nat /\ n + 1 \notin p /\ Cardinality(q) = c + 1
      /\ \A i \in p : i \in Int /\ i <= n
  <2>1. IsFiniteSet(1 .. n)
    <3>1. 1 \in Int /\ n \in Int
      OBVIOUS
    <3> QED
      BY <3>1, FS_Interval
  <2>2. IsFiniteSet(p)
    BY <2>1, FS_Subset
  <2>3. n + 1 \notin p
    OBVIOUS
  <2> QED
    BY <2>2, <2>3, FS_CardinalityType, FS_AddElement
<1>2. ASSUME NEW i \in p PROVE {j \in q : j <= i} = {j \in p : j <= i}
  <2>1. ~(n + 1 <= i)
    BY <1>1
  <2> QED
    BY <2>1
<1>3. {j \in q : j <= n + 1} = q
  <2>1. \A j \in q : j <= n + 1
    <3>1. \A j \in p : j \in Int /\ j <= n
      BY <1>1
    <3> QED
      BY <3>1
  <2> QED
    BY <2>1
<1>4. ASSUME NEW i \in p PROVE Cardinality({j \in p : j <= i}) <= c
  BY <1>1, FS_Subset
<1>5. ASSUME NEW i \in p
      PROVE  Cardinality({j \in p : j <= i}) \in Nat
  <2>1. IsFiniteSet({j \in p : j <= i})
    BY <1>1, FS_Subset
  <2> QED
    BY <2>1, FS_CardinalityType
<1>6. ASSUME NEW i \in p PROVE Cardinality({j \in p : j <= i}) > 0
  <2>1. IsFiniteSet({j \in p : j <= i}) /\ i \in {j \in p : j <= i}
    BY <1>1, FS_Subset
  <2>2. Cardinality({j \in p : j <= i}) # 0
    BY <2>1, FS_EmptySet
  <2> QED
    BY <1>5, <2>2
<1>7. ASSUME NEW k \in 1 .. c PROVE at(q, k) = at(p, k)
  <2>1. \A i : (i \in q /\ Cardinality({j \in q : j <= i}) = k)
                 <=> (i \in p /\ Cardinality({j \in p : j <= i}) = k)
    <3>1. c + 1 # k
      BY <1>1
    <3> HIDE DEF c
    <3>2. Cardinality({j \in q : j <= n + 1}) # k
      BY <1>1, <1>3, <3>1
    <3> QED
      BY <1>2, <3>2
  <2> QED
    BY <2>1
<1>8. ASSUME NEW k \in 1 .. c PROVE at(p, k) \in p /\ at(p, k) # n + 1
  <2> DEFINE rank == [i \in p |-> Cardinality({j \in p : j <= i})]
  <2>1. rank \in [p -> 1 .. c]
    <3>1. \A i \in p : Cardinality({j \in p : j <= i}) \in 1 .. c
      <4> HIDE DEF c
      <4> QED
        BY <1>1, <1>4, <1>5, <1>6
    <3> QED
      BY <3>1
  <2>2. ASSUME NEW a \in p, NEW b \in p, a < b PROVE rank[a] # rank[b]
    <3> DEFINE A == {j \in p : j <= a}
               B == {j \in p : j <= b}
    <3>1. A \subseteq B /\ b \in B /\ b \notin A /\ B \subseteq p
      <4>1. a \in Int /\ b \in Int /\ \A j \in p : j \in Int
        BY <1>1
      <4>2. \A j \in p : j <= a => j <= b
        BY <2>2, <4>1
      <4>3. b <= b /\ ~(b <= a)
        BY <2>2, <4>1
      <4> QED
        BY <4>2, <4>3
    <3>2. rank[a] = Cardinality(A) /\ rank[b] = Cardinality(B)
      OBVIOUS
    <3> HIDE DEF A, B, rank
    <3>3. IsFiniteSet(B)
      BY <1>1, <3>1, FS_Subset
    <3> QED
      BY <3>1, <3>2, <3>3, FS_Subset
  <2>3. rank \in Injection(p, 1 .. c)
    <3>1. ASSUME NEW a \in p, NEW b \in p, rank[a] = rank[b] PROVE a = b
      <4>1. a \in Int /\ b \in Int
        BY <1>1
      <4> HIDE DEF rank
      <4> QED
        BY <2>2, <3>1, <4>1
    <3> HIDE DEF rank
    <3> QED
      BY <2>1, <3>1 DEF Injection, IsInjective
  <2>4. rank \in Surjection(p, 1 .. c)
    <3>1. IsFiniteSet(1 .. c) /\ Cardinality(1 .. c) = c
      BY <1>1, FS_Interval
    <3> HIDE DEF rank
    <3> QED
      BY <2>3, <3>1, FS_Injection
  <2>5. \E i \in p : Cardinality({j \in p : j <= i}) = k
    <3>1. \E i \in p : rank[i] = k
      <4> HIDE DEF rank
      <4> QED
        BY <2>4 DEF Surjection, Range
    <3> QED
      BY <3>1
  <2> QED
    BY <1>1, <2>5
<1>9. at(q, c + 1) = n + 1
  <2>1. ASSUME NEW i \in q, Cardinality({j \in q : j <= i}) = c + 1 PROVE i = n + 1
    <3> HIDE DEF c
    <3> QED
      BY <1>1, <1>2, <1>4, <2>1
  <2>2. n + 1 \in q /\ Cardinality({j \in q : j <= n + 1}) = c + 1
    BY <1>1, <1>3
  <2> QED
    BY <2>1, <2>2
<1> DEFINE f == Picked(m, q)
           g == Picked(l, p)
           e == m[n + 1]
           S == {g[k] : k \in 1 .. c} \cup {e}
<1>10. /\ g = [k \in 1 .. c |-> l[at(p, k)]]
       /\ Picked(m, p) = [k \in 1 .. c |-> m[at(p, k)]]
       /\ f = [k \in 1 .. Cardinality(q) |-> m[at(q, k)]]
  BY DEF Picked
<1> HIDE DEF at, f, g, c
<1>11. Picked(m, p) = g
  <2>1. \A k \in 1 .. c : m[at(p, k)] = l[at(p, k)]
    BY <1>8
  <2> QED
    BY <1>10, <2>1
<1>12. g \in Seq(S) /\ Len(g) = c /\ e \in S
  <2>1. g \in [1 .. c -> S]
    BY <1>10
  <2> HIDE DEF S
  <2>2. g \in Seq(S)
    BY <1>1, <2>1, SeqDef
  <2>3. Len(g) = c
    BY <1>1, <2>1, <2>2, LenProperties
  <2>4. e \in S
    BY DEF S
  <2> QED
    BY <2>2, <2>3, <2>4
<1> HIDE DEF S
<1>13. /\ Append(g, e) \in Seq(S) /\ Len(Append(g, e)) = c + 1
       /\ \A k \in 1 .. c : Append(g, e)[k] = g[k]
       /\ Append(g, e)[c + 1] = e
  BY <1>12, AppendProperties
<1>14. \A k \in 1 .. c : f[k] = g[k]
  <2> SUFFICES ASSUME NEW k \in 1 .. c PROVE f[k] = g[k]
    OBVIOUS
  <2>1. k \in 1 .. Cardinality(q)
    BY <1>1
  <2>2. f[k] = m[at(q, k)]
    BY <1>10, <2>1
  <2>3. g[k] = l[at(p, k)]
    BY <1>10
  <2> QED
    BY <1>7, <1>8, <2>2, <2>3
<1>15. f[c + 1] = e
  <2>1. c + 1 \in 1 .. Cardinality(q)
    BY <1>1
  <2> QED
    BY <1>9, <1>10, <2>1
<1>16. f = Append(g, e)
  <2>1. f \in [1 .. c + 1 -> S]
    <3>1. \A k \in 1 .. c + 1 : f[k] \in S
      <4> SUFFICES ASSUME NEW k \in 1 .. c + 1 PROVE f[k] \in S
        OBVIOUS
      <4>1. CASE k = c + 1
        BY <1>12, <1>15, <4>1
      <4>2. CASE k # c + 1
        <5>1. k \in 1 .. c
          BY <1>1, <4>2
        <5> QED
          BY <1>10, <1>14, <5>1 DEF S
      <4> QED
        BY <4>1, <4>2
    <3>2. f = [k \in 1 .. c + 1 |-> f[k]]
      BY <1>1, <1>10
    <3> QED
      BY <3>1, <3>2
  <2>2. f \in Seq(S) /\ Len(f) = c + 1
    <3>1. f \in Seq(S)
      BY <1>1, <2>1, SeqDef
    <3> QED
      BY <1>1, <2>1, <3>1, LenProperties
  <2>3. \A k \in 1 .. c + 1 : f[k] = Append(g, e)[k]
    <3> SUFFICES ASSUME NEW k \in 1 .. c + 1 PROVE f[k] = Append(g, e)[k]
      OBVIOUS
    <3>1. k = c + 1 \/ k \in 1 .. c
      BY <1>1
    <3> QED
      BY <1>13, <1>14, <1>15, <3>1
  <2> QED
    BY <1>13, <2>2, <2>3, SeqEqual
<1> QED
  BY <1>11, <1>16 DEF f, g, Extends

\* Where session k begins in the list it was cut from.
Offset(l, k) == IF l = <<>> THEN 0 ELSE Opens(l, k) - 1

\* Sessions p are the list l, cut behind its drops.
CutFrom(p, l) ==
    p # <<>> =>
      /\ l \in Seq(Plannable) /\ Len(p) \in Nat \ {0} /\ DOMAIN p = 1 .. Len(p)
      /\ Offset(l, 1) = 0
      /\ \A k \in 1 .. Len(p) :
           /\ Offset(l, k) \in Nat /\ Len(p[k].messages) \in Nat
           /\ Offset(l, k) + Len(p[k].messages) <= Len(l)
           /\ \A j \in 1 .. Len(p[k].messages) : p[k].messages[j] = l[Offset(l, k) + j]
           /\ \A j \in 1 .. Len(p[k].messages) - 1 : p[k].messages[j].kind # "drop"
      /\ \A k \in 1 .. Len(p) - 1 :
           /\ Len(p[k].messages) > 0
           /\ p[k].messages[Len(p[k].messages)].kind = "drop"
           /\ Offset(l, k + 1) = Offset(l, k) + Len(p[k].messages)
      /\ Offset(l, Len(p)) + Len(p[Len(p)].messages) = Len(l)

LEMMA PlanIsLaid ==
    ASSUME PublisherInit
    PROVE  CutFrom(plan, All)
<1> SUFFICES ASSUME plan # <<>> PROVE CutFrom(plan, All)
  BY DEF CutFrom
<1>1. /\ invoked.names \in Seq(STRING) /\ invoked.count \in Int /\ ~(invoked.count < 1)
      /\ plan = Sessions(All)
  BY PublisherAssumption DEF PublisherInit, All
<1>2. Booted(All, FirstBoot)
  BY <1>1, MessagesBooted DEF All
<1>3. All \in Seq(Plannable) /\ Len(All) \in Nat
  BY <1>2, LenProperties DEF Booted
<1>4. CASE All = <<>>
  <2>1. plan = <<[boot |-> FirstBoot, messages |-> <<>>]>>
    BY <1>1, <1>4 DEF Sessions
  <2>2. Len(plan) = 1 /\ DOMAIN plan = 1 .. Len(plan) /\ plan[1].messages = <<>> /\ Len(plan[1].messages) = 0 /\ Len(All) = 0
    BY <1>4, <2>1
  <2>3. \A k : Offset(All, k) = 0
    BY <1>4 DEF Offset
  <2> QED
    BY <1>3, <2>2, <2>3 DEF CutFrom
<1>5. CASE All # <<>>
  <2>1. Len(All) > 0
    BY <1>3, <1>5, EmptySeq
  <2> DEFINE c == Cuts(All)
  <2>2. /\ plan \in Seq([boot : Nat \ {0}, messages : Seq(Plannable)]) /\ Len(plan) = c
        /\ \A k \in 1 .. c :
            /\ Len(plan[k].messages) = Closes(All, k) - Opens(All, k) + 1
            /\ \A j \in 1 .. Closes(All, k) - Opens(All, k) + 1 :
                  plan[k].messages[j] = All[Opens(All, k) + j - 1]
    BY <1>1, <1>2, <1>3, <2>1, SessionsCut
  <2>3. DOMAIN plan = 1 .. c
    BY <2>2, LenProperties
  <2>4. /\ c \in Nat \ {0} /\ Opens(All, 1) = 1 /\ Closes(All, c) = Len(All)
        /\ \A k \in 2 .. c : Opens(All, k) = Closes(All, k - 1) + 1 /\ All[Closes(All, k - 1)].kind = "drop"
    BY <1>3, <2>1, SessionsFollow
  <2>5. \A k \in 1 .. c :
          /\ Opens(All, k) \in 1 .. Len(All) /\ Closes(All, k) \in 1 .. Len(All)
          /\ Opens(All, k) <= Closes(All, k)
          /\ \A i \in Opens(All, k) .. Closes(All, k) - 1 : All[i].kind # "drop"
    BY <1>3, <2>1, SessionStretch
  <2>6. \A k : Offset(All, k) = Opens(All, k) - 1
    BY <1>5 DEF Offset
  <2> HIDE DEF c
  <2>7. ASSUME NEW k \in 1 .. c
        PROVE  /\ Offset(All, k) \in Nat /\ Len(plan[k].messages) \in Nat \ {0}
               /\ Offset(All, k) + Len(plan[k].messages) = Closes(All, k)
               /\ Closes(All, k) \in Nat /\ Closes(All, k) <= Len(All)
               /\ \A j \in 1 .. Len(plan[k].messages) : plan[k].messages[j] = All[Offset(All, k) + j]
    <3>1. /\ Opens(All, k) \in 1 .. Len(All) /\ Closes(All, k) \in 1 .. Len(All)
          /\ Opens(All, k) <= Closes(All, k)
          /\ Len(plan[k].messages) = Closes(All, k) - Opens(All, k) + 1
          /\ Offset(All, k) = Opens(All, k) - 1
      BY <2>2, <2>5, <2>6
    <3>2. \A j \in 1 .. Len(plan[k].messages) : Opens(All, k) + j - 1 = Offset(All, k) + j
      BY <1>3, <3>1
    <3>3. \A j \in 1 .. Len(plan[k].messages) : plan[k].messages[j] = All[Opens(All, k) + j - 1]
      BY <2>2, <3>1
    <3> QED
      BY <1>3, <3>1, <3>2, <3>3
  <2>8. ASSUME NEW k \in 1 .. c, NEW j \in 1 .. Len(plan[k].messages) - 1
        PROVE  plan[k].messages[j].kind # "drop"
    <3>1. plan[k].messages[j] = All[Offset(All, k) + j]
      BY <2>7
    <3>2. Offset(All, k) + j \in Opens(All, k) .. Closes(All, k) - 1
      <4>1. /\ Opens(All, k) \in 1 .. Len(All) /\ Closes(All, k) \in 1 .. Len(All)
            /\ Len(plan[k].messages) = Closes(All, k) - Opens(All, k) + 1
            /\ Offset(All, k) = Opens(All, k) - 1
        BY <2>2, <2>5, <2>6
      <4> QED
        BY <1>3, <4>1
    <3> QED
      BY <2>5, <3>1, <3>2
  <2>9. ASSUME NEW k \in 1 .. c - 1
        PROVE  /\ Len(plan[k].messages) > 0
               /\ plan[k].messages[Len(plan[k].messages)].kind = "drop"
               /\ Offset(All, k + 1) = Offset(All, k) + Len(plan[k].messages)
    <3>1. k \in 1 .. c /\ k + 1 \in 2 .. c /\ k + 1 - 1 = k
      <4>1. c \in Nat
        BY <2>4
      <4> QED
        BY <4>1
    <3>2. Opens(All, k + 1) = Closes(All, k) + 1 /\ All[Closes(All, k)].kind = "drop"
      <4>1. \A m \in 2 .. c : Opens(All, m) = Closes(All, m - 1) + 1 /\ All[Closes(All, m - 1)].kind = "drop"
        BY <2>4
      <4>2. Opens(All, k + 1) = Closes(All, k + 1 - 1) + 1 /\ All[Closes(All, k + 1 - 1)].kind = "drop"
        BY <3>1, <4>1
      <4> QED
        BY <3>1, <4>2
    <3>3. /\ Offset(All, k) \in Nat /\ Len(plan[k].messages) \in Nat \ {0}
          /\ Offset(All, k) + Len(plan[k].messages) = Closes(All, k) /\ Closes(All, k) \in Nat
          /\ \A j \in 1 .. Len(plan[k].messages) : plan[k].messages[j] = All[Offset(All, k) + j]
      BY <2>7, <3>1
    <3>4. Len(plan[k].messages) \in 1 .. Len(plan[k].messages)
      BY <3>3
    <3>5. Offset(All, k + 1) = Opens(All, k + 1) - 1
      BY <2>6
    <3>6. plan[k].messages[Len(plan[k].messages)] = All[Offset(All, k) + Len(plan[k].messages)]
      BY <3>3, <3>4
    <3>7. plan[k].messages[Len(plan[k].messages)] = All[Closes(All, k)]
      BY <3>3, <3>6
    <3>8. Offset(All, k + 1) = Closes(All, k)
      BY <3>2, <3>3, <3>5
    <3> QED
      BY <3>2, <3>3, <3>7, <3>8
  <2>10. Offset(All, 1) = 0 /\ Offset(All, c) + Len(plan[c].messages) = Len(All)
    BY <2>4, <2>6, <2>7
  <2> QED
    BY <1>3, <2>2, <2>3, <2>4, <2>7, <2>8, <2>9, <2>10 DEF CutFrom
<1> QED
  BY <1>4, <1>5

\* What of the list is for the broker, up to place n.
Due(l, n) == Picked(l, {i \in 1 .. n : l[i].kind # "drop"})

LEMMA DueGrows ==
    ASSUME NEW l, NEW n \in Nat
    PROVE  /\ l[n + 1].kind = "drop" => Due(l, n + 1) = Due(l, n)
           /\ l[n + 1].kind # "drop" => Due(l, n + 1) = Append(Due(l, n), l[n + 1])
<1> DEFINE p == {i \in 1 .. n : l[i].kind # "drop"}
           q == {i \in 1 .. n + 1 : l[i].kind # "drop"}
<1>1. \A i \in 1 .. n + 1 : i = n + 1 \/ i \in 1 .. n
  OBVIOUS
<1>2. 1 .. n \subseteq 1 .. n + 1 /\ n + 1 \in 1 .. n + 1
  OBVIOUS
<1>3. l[n + 1].kind = "drop" => q = p
  BY <1>1, <1>2
<1>4. l[n + 1].kind # "drop" => q = p \cup {n + 1}
  BY <1>1, <1>2
<1>5. p \in SUBSET (1 .. n)
  OBVIOUS
<1>6. Due(l, n) = Picked(l, p) /\ Due(l, n + 1) = Picked(l, q)
  BY DEF Due
<1> HIDE DEF p, q
<1>7. Picked(l, p \cup {n + 1}) = Append(Picked(l, p), l[n + 1])
  <2>1. Agree(n, p, l, l)
    BY <1>5 DEF Agree
  <2>2. Extends(n, p, l, l)
    BY <2>1, PickedGrows
  <2> QED
    BY <2>2 DEF Extends
<1> QED
  BY <1>3, <1>4, <1>6, <1>7

\* FromDevice and Quiet, of any sequence of messages.
Heard(w) ==
    Picked([i \in DOMAIN w |-> Message(w[i].kind, w[i].boot, w[i].seq)],
           {i \in DOMAIN w : w[i].kind # "will"})

Hushed(w) ==
    \E i \in DOMAIN w :
        /\ w[i].kind \in {"offline", "will"}
        /\ \A j \in i + 1 .. Len(w) : w[j].kind # "online"

LEMMA HeardGrows ==
    ASSUME NEW w \in Seq(Entry), NEW e \in Entry
    PROVE  /\ e.kind = "will" => Heard(Append(w, e)) = Heard(w)
           /\ e.kind # "will" => Heard(Append(w, e)) = Append(Heard(w), Message(e.kind, e.boot, e.seq))
           /\ e.kind \in {"offline", "will"} => Hushed(Append(w, e))
           /\ e.kind # "online" /\ Hushed(w) => Hushed(Append(w, e))
<1> DEFINE g == Append(w, e)
           n == Len(w)
           l == [i \in DOMAIN w |-> Message(w[i].kind, w[i].boot, w[i].seq)]
           m == [i \in DOMAIN g |-> Message(g[i].kind, g[i].boot, g[i].seq)]
           p == {i \in DOMAIN w : w[i].kind # "will"}
           q == {i \in DOMAIN g : g[i].kind # "will"}
<1>1. /\ g \in Seq(Entry) /\ n \in Nat /\ Len(g) = n + 1
      /\ DOMAIN w = 1 .. n /\ DOMAIN g = 1 .. n + 1
      /\ \A i \in 1 .. n : g[i] = w[i]
      /\ g[n + 1] = e
  BY AppendProperties, LenProperties
<1>2. /\ \A i \in 1 .. n + 1 : i = n + 1 \/ i \in 1 .. n
      /\ 1 .. n \subseteq 1 .. n + 1 /\ n + 1 \in 1 .. n + 1
  BY <1>1
<1>3. Heard(w) = Picked(l, p) /\ Heard(g) = Picked(m, q)
  BY DEF Heard
<1> HIDE DEF g, n
<1>4. \A i \in p : m[i] = l[i]
  BY <1>1, <1>2
<1>5. m[n + 1] = Message(e.kind, e.boot, e.seq)
  BY <1>1, <1>2
<1>6. /\ e.kind = "will" => q = p
      /\ e.kind # "will" => q = p \cup {n + 1}
  BY <1>1, <1>2
<1>7. p \in SUBSET (1 .. n)
  BY <1>1
<1> HIDE DEF l, m, p, q
<1>8. Picked(m, p) = Picked(l, p) /\ Picked(m, p \cup {n + 1}) = Append(Picked(l, p), m[n + 1])
  <2>1. Agree(n, p, l, m)
    BY <1>1, <1>4, <1>7 DEF Agree
  <2>2. Extends(n, p, l, m)
    BY <2>1, PickedGrows
  <2> QED
    BY <2>2 DEF Extends
<1>9. /\ e.kind = "will" => Heard(g) = Heard(w)
      /\ e.kind # "will" => Heard(g) = Append(Heard(w), Message(e.kind, e.boot, e.seq))
  BY <1>3, <1>5, <1>6, <1>8
<1>10. ASSUME e.kind \in {"offline", "will"} PROVE Hushed(g)
  <2>1. n + 1 \in DOMAIN g /\ n + 1 + 1 .. Len(g) = {}
    BY <1>1
  <2> QED
    BY <1>1, <1>10, <2>1 DEF Hushed
<1>11. ASSUME e.kind # "online", Hushed(w) PROVE Hushed(g)
  <2>1. PICK i \in DOMAIN w : w[i].kind \in {"offline", "will"} /\ \A j \in i + 1 .. n : w[j].kind # "online"
    BY <1>11 DEF Hushed, n
  <2>2. i \in DOMAIN g /\ g[i] = w[i]
    BY <1>1, <2>1
  <2>3. \A j \in i + 1 .. Len(g) : g[j].kind # "online"
    <3> SUFFICES ASSUME NEW j \in i + 1 .. Len(g) PROVE g[j].kind # "online"
      OBVIOUS
    <3>1. j = n + 1 \/ (j \in i + 1 .. n /\ j \in 1 .. n)
      BY <1>1
    <3> QED
      BY <1>1, <1>11, <2>1, <3>1
  <2> QED
    BY <2>1, <2>2, <2>3 DEF Hushed
<1> QED
  BY <1>9, <1>10, <1>11 DEF g

Walking == pc \notin {"connect", "done"}

TruthInv ==
    /\ CutFrom(plan, All)
    /\ pc = "connect" => sent = 0
    /\ Walking => sent <= Len(Here.messages)
    /\ pc \in {"start", "send"} /\ sent > 0 => Here.messages[sent].kind # "drop"
    /\ pc \in {"dropped", "stopped", "set", "reconnected", "looped", "moved"} =>
          sent = Len(Here.messages)
    /\ Walking /\ interrupt = "none" => Heard(wire) = Due(All, Offset(All, session) + sent)
    /\ pc = "goodbye" /\ interrupt = "none" => session = Len(plan) /\ sent = Len(Here.messages)
    /\ Walking /\ link = 0 => Hushed(wire)
    /\ pc = "done" => ~loop
    /\ pc = "done" /\ rc = 0 =>
          /\ plan # <<>>
          /\ link = 0 => Hushed(wire)
          /\ interrupt = "none" =>
                Heard(wire) = Append(Due(All, Len(All)), Offline(plan[Len(plan)].boot))

LEMMA TruthStarts ==
    ASSUME PublisherInit
    PROVE  TruthInv
<1>1. CutFrom(plan, All)
  BY PlanIsLaid
<1> QED
  BY <1>1 DEF PublisherInit, TruthInv, Walking

\* The session walked, and where in the list it lies.
LEMMA HereLaid ==
    ASSUME CutFrom(plan, All), session \in DOMAIN plan
    PROVE  /\ plan # <<>> /\ Len(plan) \in Nat \ {0} /\ session \in 1 .. Len(plan)
           /\ Len(Here.messages) \in Nat /\ Offset(All, session) \in Nat
           /\ \A j \in 1 .. Len(Here.messages) : Here.messages[j] = All[Offset(All, session) + j]
           /\ \A j \in 1 .. Len(Here.messages) - 1 : Here.messages[j].kind # "drop"
           /\ session < Len(plan) =>
                /\ Len(Here.messages) > 0
                /\ Here.messages[Len(Here.messages)].kind = "drop"
                /\ Offset(All, session + 1) = Offset(All, session) + Len(Here.messages)
           /\ session = Len(plan) => Offset(All, session) + Len(Here.messages) = Len(All)
<1>1. plan # <<>>
  <2>1. DOMAIN <<>> = {}
    OBVIOUS
  <2> QED
    BY <2>1
<1>2. Len(plan) \in Nat \ {0} /\ session \in 1 .. Len(plan)
  BY <1>1 DEF CutFrom
<1>3. session < Len(plan) => session \in 1 .. Len(plan) - 1
  BY <1>2
<1> QED
  BY <1>1, <1>2, <1>3 DEF CutFrom, Here

LEMMA NothingYet ==
    ASSUME NEW l
    PROVE  Heard(<<>>) = Due(l, 0)
<1> DEFINE m == [i \in DOMAIN <<>> |-> Message(<<>>[i].kind, <<>>[i].boot, <<>>[i].seq)]
<1>1. {i \in DOMAIN <<>> : <<>>[i].kind # "will"} = {} /\ {i \in 1 .. 0 : l[i].kind # "drop"} = {}
  OBVIOUS
<1>2. Heard(<<>>) = Picked(m, {}) /\ Due(l, 0) = Picked(l, {})
  BY <1>1 DEF Heard, Due
<1> HIDE DEF m
<1>3. Agree(0, {}, l, m)
  BY DEF Agree
<1>4. Extends(0, {}, l, m)
  BY <1>3, PickedGrows
<1> QED
  BY <1>2, <1>4 DEF Extends

\* What no step of the walk touches.
LEMMA ListStays ==
    ASSUME UNCHANGED run
    PROVE  plan' = plan /\ All' = All /\ (CutFrom(plan, All) => CutFrom(plan, All)')
<1>1. plan' = plan /\ All' = All
  BY DEF run, All
<1> QED
  BY <1>1

LEMMA WalkTellsTruth ==
    ASSUME PublisherInv, TruthInv, UNCHANGED <<run, wire>>,
           \/ Refuse \/ Connect \/ StartLoop \/ PublishRaises
           \/ StopLoop \/ SetWill \/ Reconnect \/ RestartLoop
           \/ Reconnected \/ NextSession \/ Finish \/ Interrupt \/ Abort
    PROVE  TruthInv'
<1>1. plan' = plan /\ All' = All /\ CutFrom(plan, All)' /\ CutFrom(plan, All) /\ wire' = wire
  BY ListStays DEF TruthInv
<1>2. /\ session \in Nat \ {0} /\ sent \in Nat /\ will \in Nat
      /\ pc = "connect" => session = 1 /\ link = 0 /\ wire = <<>> /\ will = FirstBoot
      /\ pc \notin {"connect", "done"} => session \in DOMAIN plan
      /\ pc \in {"dropped", "stopped", "set", "reconnected", "looped", "moved"} =>
            session + 1 \in DOMAIN plan
      /\ pc = "set" => will = plan[session + 1].boot
      /\ pc \notin {"goodbye", "done"} => interrupt = "none"
  BY DEF PublisherInv, LinkInv
<1>3. /\ \A i \in DOMAIN plan : plan[i].boot \in Nat \ {0}
      /\ plan # <<>> => 1 \in DOMAIN plan
      /\ DOMAIN plan = 1 .. Len(plan) /\ Len(plan) \in Nat
  BY SessionsPlanned
<1>4. session \in DOMAIN plan =>
        /\ plan # <<>> /\ Len(plan) \in Nat \ {0} /\ session \in 1 .. Len(plan)
        /\ Len(Here.messages) \in Nat /\ Offset(All, session) \in Nat
        /\ session < Len(plan) =>
             /\ Len(Here.messages) > 0
             /\ Here.messages[Len(Here.messages)].kind = "drop"
             /\ Offset(All, session + 1) = Offset(All, session) + Len(Here.messages)
  BY <1>1, HereLaid
<1>5. CASE Refuse \/ PublishRaises \/ Abort
  BY <1>1, <1>5 DEF Refuse, PublishRaises, Abort, Ends, TruthInv, Walking, Here
<1>6. CASE Connect
  <2>1. /\ pc = "connect" /\ plan # <<>> /\ session = 1 /\ session' = 1 /\ sent = 0 /\ sent' = 0
        /\ wire = <<>> /\ interrupt' = interrupt /\ will = FirstBoot
    BY <1>2, <1>6 DEF Connect, walk, TruthInv
  <2>2. CASE pc' = "done" /\ loop' = FALSE /\ rc' = 1
    BY <1>1, <2>1, <2>2 DEF TruthInv, Walking
  <2>3. CASE link' = will /\ pc' = "start"
    <3>1. link' # 0
      BY <2>1, <2>3 DEF FirstBoot
    <3>2. Offset(All, 1) = 0 /\ Len(plan[1].messages) \in Nat
      <4>1. 1 \in 1 .. Len(plan)
        BY <1>3, <2>1
      <4> QED
        BY <1>1, <2>1, <4>1 DEF CutFrom
    <3>3. Heard(wire) = Due(All, Offset(All, 1) + 0)
      BY <2>1, <3>2, NothingYet
    <3> QED
      BY <1>1, <2>1, <2>3, <3>1, <3>2, <3>3 DEF TruthInv, Walking, Here
  <2> QED
    BY <1>6, <2>2, <2>3 DEF Connect, Ends
<1>7. CASE StartLoop \/ StopLoop \/ SetWill \/ RestartLoop \/ Reconnected
  <2>1. CASE StartLoop
    BY <1>1, <1>2, <2>1 DEF StartLoop, Ends, TruthInv, Walking, Here, walk
  <2>2. CASE StopLoop
    BY <1>1, <1>2, <2>2 DEF StopLoop, TruthInv, Walking, Here, walk
  <2>3. CASE SetWill
    BY <1>1, <1>2, <2>3 DEF SetWill, TruthInv, Walking, Here, walk
  <2>4. CASE RestartLoop
    BY <1>1, <1>2, <2>4 DEF RestartLoop, Ends, TruthInv, Walking, Here, walk
  <2>5. CASE Reconnected
    BY <1>1, <1>2, <2>5 DEF Reconnected, TruthInv, Walking, Here, walk
  <2> QED
    BY <1>7, <2>1, <2>2, <2>3, <2>4, <2>5
<1>8. CASE Reconnect
  <2>1. will # 0
    BY <1>2, <1>3, <1>8 DEF Reconnect
  <2> QED
    BY <1>1, <1>2, <1>8, <2>1 DEF Reconnect, Ends, TruthInv, Walking, Here, walk
<1>9. CASE NextSession
  <2>1. /\ pc = "moved" /\ pc' = "send" /\ session' = session + 1 /\ sent' = 0
        /\ UNCHANGED <<link, interrupt, rc>>
    BY <1>9 DEF NextSession
  <2>2. /\ session + 1 \in DOMAIN plan /\ session < Len(plan) /\ sent = Len(Here.messages)
        /\ session \in DOMAIN plan
    BY <1>2, <1>3, <2>1 DEF TruthInv
  <2>3. Len(plan[session + 1].messages) \in Nat /\ Offset(All, session + 1) \in Nat
    BY <1>1, <1>3, <1>4, <2>2 DEF CutFrom
  <2>4. Offset(All, session + 1) + 0 = Offset(All, session) + sent
    BY <1>4, <2>2, <2>3
  <2> QED
    BY <1>1, <2>1, <2>2, <2>3, <2>4 DEF TruthInv, Walking, Here
<1>10. CASE Finish
  <2>1. /\ pc = "send" /\ pc' = "goodbye" /\ session' = session /\ sent' = sent
        /\ UNCHANGED <<link, interrupt, rc>> /\ Len(Here.messages) - sent = 0
    BY <1>10 DEF Finish, walk, Remaining
  <2>2. session \in DOMAIN plan /\ sent = Len(Here.messages)
    BY <1>2, <1>4, <2>1
  <2>3. session = Len(plan)
    <3>1. ~(session < Len(plan))
      BY <1>2, <1>4, <2>1, <2>2 DEF TruthInv
    <3> QED
      BY <1>3, <2>2, <3>1
  <2> QED
    BY <1>1, <2>1, <2>2, <2>3 DEF TruthInv, Walking, Here
<1>11. CASE Interrupt
  <2>1. interrupt' # "none"
    BY <1>11 DEF Interrupt
  <2> QED
    BY <1>1, <1>2, <1>4, <1>11, <2>1 DEF Interrupt, Ends, TruthInv, Walking, Here, walk
<1> QED
  BY <1>5, <1>6, <1>7, <1>8, <1>9, <1>10, <1>11

\* A message as it was planned is the message as it is heard.
LEMMA PlannedHeard ==
    ASSUME NEW m \in Plannable, link \in Nat
    PROVE  Message(Received(m).kind, Received(m).boot, Received(m).seq) = m
BY DEF Message, Received, Plannable

LEMMA SendTellsTruth ==
    ASSUME PublisherInv, TruthInv, Send
    PROVE  TruthInv'
<1>1. plan' = plan /\ All' = All /\ CutFrom(plan, All)' /\ CutFrom(plan, All)
  BY ListStays DEF TruthInv, Send
<1>2. /\ pc = "send" /\ pc' = pc /\ link # 0 /\ sent' = sent + 1
      /\ wire' = Append(wire, Received(Next1)) /\ Next1.kind # "drop"
      /\ Len(Here.messages) - sent > 0 /\ Next1 = Here.messages[sent + 1]
      /\ UNCHANGED <<session, link, interrupt, rc>>
  BY DEF Send, Reaching, Remaining, Next1
<1>3. session \in DOMAIN plan /\ sent \in Nat /\ link \in Nat
  BY <1>2 DEF PublisherInv, LinkInv
<1>4. /\ Len(Here.messages) \in Nat /\ Offset(All, session) \in Nat
      /\ \A j \in 1 .. Len(Here.messages) : Here.messages[j] = All[Offset(All, session) + j]
  BY <1>1, <1>3, HereLaid
<1>5. sent + 1 \in 1 .. Len(Here.messages)
  BY <1>2, <1>3, <1>4
<1>6. Next1 \in Plannable
  <2>1. plan[session].messages \in Seq(Plannable)
    BY <1>3, SessionsPlanned
  <2> QED
    BY <1>2, <1>5, <2>1, ElementOfSeq DEF Here
<1>7. Received(Next1) \in Entry /\ Received(Next1).kind # "will" /\ wire \in Seq(Entry)
  BY <1>2, OwnMayReach DEF PublisherInv, Remaining
<1>8. Heard(wire') = Append(Heard(wire), Next1)
  BY <1>2, <1>3, <1>6, <1>7, HeardGrows, PlannedHeard
<1> DEFINE n == Offset(All, session) + sent
<1>9. n \in Nat /\ n + 1 = Offset(All, session) + sent' /\ Next1 = All[n + 1]
  <2>1. Offset(All, session) + (sent + 1) = n + 1
    BY <1>3, <1>4
  <2>2. Next1 = All[Offset(All, session) + (sent + 1)]
    BY <1>2, <1>4, <1>5
  <2> QED
    BY <1>2, <1>3, <1>4, <2>1, <2>2
<1>10. interrupt = "none" => Heard(wire) = Due(All, n)
  BY <1>2 DEF TruthInv, Walking
<1> HIDE DEF n
<1>11. Due(All, n + 1) = Append(Due(All, n), Next1)
  BY <1>2, <1>9, DueGrows
<1>12. interrupt = "none" => Heard(wire') = Due(All, Offset(All, session) + sent')
  BY <1>8, <1>9, <1>10, <1>11
<1>13. Here' = Here
  BY <1>1, <1>2 DEF Here
<1>14. sent' <= Len(Here.messages) /\ Here.messages[sent'].kind # "drop"
  BY <1>2, <1>3, <1>4
<1> QED
  BY <1>1, <1>2, <1>12, <1>13, <1>14 DEF TruthInv, Walking

\* The will that ends a connection is nothing the device says, and it says that
\* the device is gone.
LEMMA WithWillSays ==
    ASSUME PublisherInv, wire' = WithWill
    PROVE  /\ Heard(wire') = Heard(wire)
           /\ link # 0 \/ Hushed(wire) => Hushed(wire')
<1> DEFINE e == Received(Message("will", link, 0))
<1>1. CASE link = 0
  BY <1>1 DEF WithWill
<1>2. CASE link # 0
  <2>1. wire \in Seq(Entry) /\ Unmourned(wire, link)
    BY <1>2 DEF PublisherInv, WillInv
  <2>2. e \in Entry /\ e.kind = "will"
    BY <1>2, <2>1, WillMayReach
  <2>3. wire' = Append(wire, e)
    BY <1>2 DEF WithWill, Reaching
  <2> HIDE DEF e
  <2> QED
    BY <1>2, <2>1, <2>2, <2>3, HeardGrows
<1> QED
  BY <1>1, <1>2

LEMMA LossTellsTruth ==
    ASSUME PublisherInv, TruthInv, LinkLost
    PROVE  TruthInv'
<1>1. plan' = plan /\ All' = All /\ CutFrom(plan, All)' /\ CutFrom(plan, All)
  BY ListStays DEF TruthInv, LinkLost
<1>2. /\ wire' = WithWill /\ link # 0
      /\ UNCHANGED <<session, sent, pc, loop, interrupt, rc>>
  BY DEF LinkLost, walk
<1>3. Heard(wire') = Heard(wire) /\ Hushed(wire')
  BY <1>2, WithWillSays
<1>4. Here' = Here
  BY <1>1, <1>2 DEF Here
<1> QED
  BY <1>1, <1>2, <1>3, <1>4 DEF TruthInv, Walking

LEMMA DropTellsTruth ==
    ASSUME PublisherInv, TruthInv, DropConnection
    PROVE  TruthInv'
<1>1. plan' = plan /\ All' = All /\ CutFrom(plan, All)' /\ CutFrom(plan, All)
  BY ListStays DEF TruthInv, DropConnection
<1>2. /\ pc = "send" /\ wire' = WithWill /\ link' = 0 /\ Next1.kind = "drop"
      /\ Len(Here.messages) - sent > 0 /\ Next1 = Here.messages[sent + 1]
      /\ UNCHANGED <<session, interrupt>>
      /\ IF session < Len(plan)
           THEN pc' = "dropped" /\ sent' = sent + 1 /\ UNCHANGED <<loop, rc>>
           ELSE pc' = "done" /\ rc' = 1 /\ loop' = FALSE /\ UNCHANGED sent
  BY DEF DropConnection, Remaining, Next1, Ends
<1>3. session \in DOMAIN plan /\ sent \in Nat /\ link \in Nat
  BY <1>2 DEF PublisherInv, LinkInv
<1>4. /\ Len(Here.messages) \in Nat /\ Offset(All, session) \in Nat
      /\ \A j \in 1 .. Len(Here.messages) : Here.messages[j] = All[Offset(All, session) + j]
      /\ \A j \in 1 .. Len(Here.messages) - 1 : Here.messages[j].kind # "drop"
  BY <1>1, <1>3, HereLaid
<1>5. Heard(wire') = Heard(wire) /\ Hushed(wire')
  BY <1>2, WithWillSays DEF TruthInv, Walking
<1>6. Here' = Here
  BY <1>1, <1>2 DEF Here
<1>7. CASE ~(session < Len(plan))
  BY <1>1, <1>2, <1>7 DEF TruthInv, Walking
<1>8. CASE session < Len(plan)
  <2>1. sent + 1 = Len(Here.messages)
    <3>1. ~(sent + 1 \in 1 .. Len(Here.messages) - 1)
      BY <1>2, <1>4
    <3> QED
      BY <1>2, <1>3, <1>4, <3>1
  <2> DEFINE n == Offset(All, session) + sent
  <2>2. n \in Nat /\ n + 1 = Offset(All, session) + (sent + 1) /\ Next1 = All[n + 1]
    <3>1. Next1 = All[Offset(All, session) + (sent + 1)]
      <4>1. sent + 1 \in 1 .. Len(Here.messages)
        BY <1>3, <1>4, <2>1
      <4> QED
        BY <1>2, <1>4, <4>1
    <3>2. n \in Nat /\ n + 1 = Offset(All, session) + (sent + 1)
      BY <1>3, <1>4
    <3> QED
      BY <3>1, <3>2
  <2>3. interrupt = "none" => Heard(wire) = Due(All, n)
    BY <1>2 DEF TruthInv, Walking
  <2> HIDE DEF n
  <2>4. Due(All, n + 1) = Due(All, n)
    BY <1>2, <2>2, DueGrows
  <2>5. interrupt = "none" => Heard(wire') = Due(All, Offset(All, session) + sent')
    BY <1>2, <1>5, <1>8, <2>2, <2>3, <2>4
  <2> QED
    BY <1>1, <1>2, <1>4, <1>5, <1>6, <1>8, <2>1, <2>5 DEF TruthInv, Walking
<1> QED
  BY <1>7, <1>8

LEMMA GoodbyeTellsTruth ==
    ASSUME PublisherInv, TruthInv, Goodbye
    PROVE  TruthInv'
<1>1. plan' = plan /\ All' = All /\ CutFrom(plan, All)' /\ CutFrom(plan, All)
  BY ListStays DEF TruthInv, Goodbye
<1> DEFINE m == Offline(Here.boot)
           e == Received(m)
<1>2. /\ pc = "goodbye" /\ link # 0 /\ pc' = "done" /\ rc' = 0 /\ loop' = FALSE /\ link' = 0
      /\ wire' = Append(wire, e)
      /\ UNCHANGED <<session, sent, interrupt>>
  BY DEF Goodbye, Reaching, Leaves, Ends, walk
<1>3. session \in DOMAIN plan /\ link \in Nat /\ wire \in Seq(Entry)
  BY <1>2 DEF PublisherInv, LinkInv
<1>4. e \in Entry /\ e.kind # "will"
  BY <1>2, GoodbyeMayReach
<1>5. m \in Plannable /\ m.kind = "offline"
  <2>1. Here.boot \in Nat
    BY <1>3, SessionsPlanned DEF Here
  <2> QED
    BY <2>1 DEF Offline, Message, Plannable, Kinds
<1>6. e.kind = "offline"
  BY <1>5 DEF Received
<1> HIDE DEF m
<1>7. Message(e.kind, e.boot, e.seq) = m
  BY <1>3, <1>5, PlannedHeard
<1> HIDE DEF e
<1>8. Heard(wire') = Append(Heard(wire), m) /\ Hushed(wire')
  BY <1>2, <1>3, <1>4, <1>6, <1>7, HeardGrows
<1>9. ASSUME interrupt = "none"
      PROVE  Heard(wire') = Append(Due(All, Len(All)), Offline(plan[Len(plan)].boot))
  <2>1. /\ session = Len(plan) /\ sent = Len(Here.messages)
        /\ Heard(wire) = Due(All, Offset(All, session) + sent)
    BY <1>2, <1>9 DEF TruthInv, Walking
  <2>2. Offset(All, session) + sent = Len(All)
    BY <1>1, <1>3, <2>1, HereLaid
  <2>3. m = Offline(plan[Len(plan)].boot)
    BY <2>1 DEF m, Here
  <2> QED
    BY <1>8, <2>1, <2>2, <2>3
<1>10. plan # <<>>
  BY <1>1, <1>3, HereLaid
<1> QED
  BY <1>1, <1>2, <1>8, <1>9, <1>10 DEF TruthInv, Walking

LEMMA UnconfirmedTellsTruth ==
    ASSUME PublisherInv, TruthInv, SendUnconfirmed \/ GoodbyeUnconfirmed
    PROVE  TruthInv'
<1>1. plan' = plan /\ All' = All /\ CutFrom(plan, All)'
  BY ListStays DEF TruthInv, SendUnconfirmed, GoodbyeUnconfirmed
<1>2. pc' = "done" /\ rc' = 1 /\ loop' = FALSE
  BY DEF SendUnconfirmed, GoodbyeUnconfirmed, Unconfirmed, Leaves, Ends
<1> QED
  BY <1>1, <1>2 DEF TruthInv, Walking

LEMMA TruthStuttering ==
    ASSUME TruthInv, UNCHANGED publisherVars
    PROVE  TruthInv'
<1>1. /\ UNCHANGED run
      /\ UNCHANGED <<pc, session, sent, link, loop, wire, interrupt, rc>>
  BY DEF publisherVars, run
<1>2. plan' = plan /\ All' = All /\ CutFrom(plan, All)'
  BY <1>1, ListStays DEF TruthInv
<1> QED
  BY <1>1, <1>2 DEF TruthInv, Walking, Here

LEMMA TruthTold ==
    ASSUME PublisherInv, TruthInv
    PROVE  ExitTellsTruth
<1> SUFFICES ASSUME pc = "done", rc = 0, link = 0
             PROVE  /\ Quiet
                    /\ interrupt = "none" =>
                         FromDevice = Append(Planned, Offline(Last(plan).boot))
  BY DEF TruthInv, ExitTellsTruth
<1>1. Hushed(wire)
  BY DEF TruthInv
<1>2. Quiet
  BY <1>1 DEF Hushed, Quiet
<1>3. ASSUME interrupt = "none" PROVE FromDevice = Append(Planned, Offline(Last(plan).boot))
  <2>1. Heard(wire) = Append(Due(All, Len(All)), Offline(plan[Len(plan)].boot))
    BY <1>3 DEF TruthInv
  <2>2. FromDevice = Heard(wire)
    BY DEF FromDevice, Heard
  <2>3. Planned = Due(All, Len(All))
    <3>1. DOMAIN All = 1 .. Len(All)
      <4>1. All \in Seq(Plannable)
        BY DEF TruthInv, CutFrom
      <4> QED
        BY <4>1, LenProperties
    <3> QED
      BY <3>1 DEF Planned, Due, All
  <2>4. Last(plan) = plan[Len(plan)]
    BY DEF Last
  <2> QED
    BY <2>1, <2>2, <2>3, <2>4
<1> QED
  BY <1>2, <1>3

\* What else each variable can be.
OtherTypes ==
    /\ invoked \in Invocations
    /\ loop \in BOOLEAN
    /\ interrupt \in {"none", "send", "dropped", "stopped", "set", "reconnected",
                      "looped", "moved"}
    /\ rc \in {Running, 0, 1, 2}

LEMMA OtherTypesKept ==
    ASSUME OtherTypes, [PublisherNext]_publisherVars
    PROVE  OtherTypes'
<1>1. invoked' = invoked
  BY DEF publisherVars, PublisherNext, Refuse, Connect, StartLoop, Send, SendUnconfirmed, PublishRaises,
         DropConnection, StopLoop, SetWill, Reconnect, RestartLoop, Reconnected, NextSession, Finish,
         Interrupt, Abort, Goodbye, GoodbyeUnconfirmed, LinkLost, run
<1>2. loop' \in {loop, TRUE, FALSE}
  BY DEF publisherVars, PublisherNext, Refuse, Connect, StartLoop, Send, SendUnconfirmed, PublishRaises,
         DropConnection, StopLoop, SetWill, Reconnect, RestartLoop, Reconnected, NextSession, Finish,
         Interrupt, Abort, Goodbye, GoodbyeUnconfirmed, LinkLost, Unconfirmed, Leaves, Ends
<1>3. interrupt' \in {interrupt, "send", "dropped", "stopped", "set", "reconnected", "looped", "moved"}
  BY DEF publisherVars, PublisherNext, Refuse, Connect, StartLoop, Send, SendUnconfirmed, PublishRaises,
         DropConnection, StopLoop, SetWill, Reconnect, RestartLoop, Reconnected, NextSession, Finish,
         Interrupt, Abort, Goodbye, GoodbyeUnconfirmed, LinkLost
<1>4. rc' \in {rc, 0, 1, 2}
  BY DEF publisherVars, PublisherNext, Refuse, Connect, StartLoop, Send, SendUnconfirmed, PublishRaises,
         DropConnection, StopLoop, SetWill, Reconnect, RestartLoop, Reconnected, NextSession, Finish,
         Interrupt, Abort, Goodbye, GoodbyeUnconfirmed, LinkLost, Unconfirmed, Leaves, Ends
<1> QED
  BY <1>1, <1>2, <1>3, <1>4 DEF OtherTypes

LEMMA PublisherWellTyped ==
    ASSUME PublisherInv, OtherTypes
    PROVE  PublisherTypeOK
<1>1. \A i \in DOMAIN wire : wire[i].kind \in Kinds /\ wire[i].under \in Nat
  <2>1. wire \in Seq(Entry)
    BY DEF PublisherInv
  <2>2. \A i \in DOMAIN wire : wire[i] \in Entry
    BY <2>1, LenProperties, ElementOfSeq
  <2> QED
    BY <2>2 DEF Entry
<1>2. /\ WellPlanned
      /\ session \in Nat /\ sent \in Nat /\ will \in Nat /\ link \in Nat
      /\ pc \in {"connect", "start", "send", "dropped", "stopped", "set", "reconnected",
                 "looped", "moved", "goodbye", "done"}
  BY DEF PublisherInv, LinkInv
<1> QED
  BY <1>1, <1>2 DEF OtherTypes, PublisherTypeOK

LEMMA TruthKept ==
    ASSUME PublisherInv, TruthInv, [PublisherNext]_publisherVars
    PROVE  TruthInv'
<1>1. CASE \/ Refuse \/ Connect \/ StartLoop \/ PublishRaises
           \/ StopLoop \/ SetWill \/ Reconnect \/ RestartLoop
           \/ Reconnected \/ NextSession \/ Finish \/ Interrupt \/ Abort
  <2>1. UNCHANGED <<run, wire>>
    BY <1>1 DEF Refuse, Connect, StartLoop, PublishRaises, StopLoop, SetWill, Reconnect, RestartLoop,
                Reconnected, NextSession, Finish, Interrupt, Abort, run
  <2> QED
    BY <1>1, <2>1, WalkTellsTruth
<1>2. CASE UNCHANGED publisherVars
  BY <1>2, TruthStuttering
<1> QED
  BY <1>1, <1>2, SendTellsTruth, UnconfirmedTellsTruth, DropTellsTruth, GoodbyeTellsTruth, LossTellsTruth
     DEF PublisherNext

\* What the planner makes and the walk keeps has its type, the plan included:
\* sessions with boot ids of their own, for every command line.
THEOREM PublisherTyped == PublisherSpec => []PublisherTypeOK
<1>1. PublisherInit => PublisherInv
  BY PlansWell, PublisherStarts
<1>2. PublisherInit => OtherTypes
  BY DEF PublisherInit, OtherTypes
<1>3. PublisherInv /\ [PublisherNext]_publisherVars => PublisherInv'
  BY PublisherSteps
<1>4. OtherTypes /\ [PublisherNext]_publisherVars => OtherTypes'
  BY OtherTypesKept
<1>5. PublisherInv /\ OtherTypes => PublisherTypeOK
  BY PublisherWellTyped
<1> QED
  BY <1>1, <1>2, <1>3, <1>4, <1>5, PTL DEF PublisherSpec

\* publish_synthetic.py:598, 740: an exit code of 0 means that the whole plan
\* arrived in order (unless Ctrl-C came), that the retained status is offline,
\* and that no network loop is left.
THEOREM ExitNeverLies == PublisherSpec => []ExitTellsTruth
<1>1. PublisherInit => PublisherInv /\ TruthInv
  BY PlansWell, PublisherStarts, TruthStarts
<1>2. PublisherInv /\ [PublisherNext]_publisherVars => PublisherInv'
  BY PublisherSteps
<1>3. PublisherInv /\ TruthInv /\ [PublisherNext]_publisherVars => TruthInv'
  BY TruthKept
<1>4. PublisherInv /\ TruthInv => ExitTellsTruth
  BY TruthTold
<1> QED
  BY <1>1, <1>2, <1>3, <1>4, PTL DEF PublisherSpec

-------------------------------------------------------------------------------
(* What the backend counts of a list of messages *)

\* The readings among the first n messages, and those a gap is counted before.
Said(l, n) == {<<l[i].boot, l[i].seq>> : i \in {k \in 1 .. n : l[k].kind = "telemetry"}}

Ahead(l, i) ==
    /\ l[i].kind = "telemetry" /\ SameBoot(l, i) # {}
    /\ \A j \in SameBoot(l, i) : l[j].seq + 1 < l[i].seq

Skipped(l, n) == {<<l[i].boot, l[i].seq>> : i \in {k \in 1 .. n : Ahead(l, k)}}

\* The same, one message at a time.
Tally(l, n) == [known |-> Said(l, n), gaps |-> Skipped(l, n)]

Skips(known, m) ==
    /\ \E r \in known : r[1] = m.boot
    /\ \A r \in known : r[1] = m.boot => r[2] + 1 < m.seq

Counting(tally, m) ==
    IF m.kind # "telemetry" THEN tally
    ELSE [known |-> tally.known \cup {<<m.boot, m.seq>>},
          gaps |-> tally.gaps \cup (IF Skips(tally.known, m) THEN {<<m.boot, m.seq>>} ELSE {})]

\* A message is counted against the readings before it.
LEMMA AheadSkips ==
  ASSUME NEW l, NEW n \in Nat, l[n + 1].kind = "telemetry"
  PROVE  Ahead(l, n + 1) <=> Skips(Said(l, n), l[n + 1])
<1> DEFINE m == l[n + 1]
           J == SameBoot(l, n + 1)
           K == Said(l, n)
<1>1. J = {j \in 1 .. n : l[j].kind = "telemetry" /\ l[j].boot = m.boot}
  <2>1. 1 .. n + 1 - 1 = 1 .. n
    OBVIOUS
  <2> QED
    BY <2>1 DEF SameBoot
<1>2. \A j \in J : <<l[j].boot, l[j].seq>> \in K /\ <<l[j].boot, l[j].seq>>[1] = m.boot
                   /\ <<l[j].boot, l[j].seq>>[2] = l[j].seq
  BY <1>1 DEF Said
<1>3. ASSUME NEW r \in K, r[1] = m.boot PROVE \E j \in J : l[j].seq = r[2]
  <2>1. PICK j \in {k \in 1 .. n : l[k].kind = "telemetry"} : r = <<l[j].boot, l[j].seq>>
    BY DEF Said
  <2>2. j \in J
    BY <1>1, <1>3, <2>1
  <2> QED
    BY <2>1, <2>2
<1>4. (\E r \in K : r[1] = m.boot) <=> J # {}
  <2> HIDE DEF J, K, m
  <2> QED
    BY <1>2, <1>3
<1>5. (\A r \in K : r[1] = m.boot => r[2] + 1 < m.seq) <=> (\A j \in J : l[j].seq + 1 < m.seq)
  <2> HIDE DEF J, K, m
  <2> QED
    BY <1>2, <1>3
<1> QED
  BY <1>4, <1>5 DEF Ahead, Skips

LEMMA TallyGrows ==
  ASSUME NEW l, NEW n \in Nat
  PROVE  Tally(l, n + 1) = Counting(Tally(l, n), l[n + 1])
<1> DEFINE m == l[n + 1]
           r == <<m.boot, m.seq>>
<1>1. \A k \in 1 .. n + 1 : k = n + 1 \/ k \in 1 .. n
  OBVIOUS
<1>2. 1 .. n \subseteq 1 .. n + 1 /\ n + 1 \in 1 .. n + 1
  OBVIOUS
<1>3. Said(l, n + 1) = Said(l, n) \cup (IF m.kind = "telemetry" THEN {r} ELSE {})
  BY <1>1, <1>2 DEF Said
<1>4. Skipped(l, n + 1) = Skipped(l, n) \cup (IF Ahead(l, n + 1) THEN {r} ELSE {})
  BY <1>1, <1>2 DEF Skipped
<1>5. m.kind # "telemetry" => ~Ahead(l, n + 1)
  BY DEF Ahead
<1>6. m.kind = "telemetry" => (Ahead(l, n + 1) <=> Skips(Said(l, n), m))
  BY AheadSkips
<1> HIDE DEF m, r
<1>7. CASE m.kind # "telemetry"
  <2>1. Said(l, n + 1) = Said(l, n) /\ Skipped(l, n + 1) = Skipped(l, n)
    BY <1>3, <1>4, <1>5, <1>7
  <2> QED
    BY <1>7, <2>1 DEF Tally, Counting, m
<1>8. CASE m.kind = "telemetry"
  <2>1. /\ Said(l, n + 1) = Said(l, n) \cup {r}
        /\ Skipped(l, n + 1) = Skipped(l, n) \cup (IF Skips(Said(l, n), m) THEN {r} ELSE {})
    BY <1>3, <1>4, <1>6, <1>8
  <2> QED
    BY <1>8, <2>1 DEF Tally, Counting, m, r
<1> QED
  BY <1>7, <1>8

\* Only what kind of message it is, its boot and its number count.
Alike(l, m, n) ==
    \A i \in 1 .. n : l[i].kind = m[i].kind /\ l[i].boot = m[i].boot /\ l[i].seq = m[i].seq

LEMMA TallyAlike ==
  ASSUME NEW l, NEW m, NEW n \in Nat, Alike(l, m, n)
  PROVE  Tally(l, n) = Tally(m, n)
<1>1. ASSUME NEW i \in 1 .. n PROVE SameBoot(l, i) = SameBoot(m, i)
  <2>1. \A j \in 1 .. i - 1 : j \in 1 .. n
    OBVIOUS
  <2> QED
    BY <2>1 DEF SameBoot, Alike
<1>2. ASSUME NEW i \in 1 .. n PROVE Ahead(l, i) <=> Ahead(m, i)
  <2>1. \A j \in SameBoot(l, i) : j \in 1 .. n
    BY DEF SameBoot
  <2> QED
    BY <1>1, <2>1 DEF Ahead, Alike
<1>3. Said(l, n) = Said(m, n)
  BY DEF Said, Alike
<1>4. Skipped(l, n) = Skipped(m, n)
  BY <1>2 DEF Skipped, Alike
<1> QED
  BY <1>3, <1>4 DEF Tally

\* Of a whole list.
Sum(l) == Tally(l, Len(l))

LEMMA NothingCounted == Sum(<<>>) = [known |-> {}, gaps |-> {}]
<1>1. Len(<<>>) = 0 /\ 1 .. 0 = {}
  OBVIOUS
<1> QED
  BY <1>1 DEF Sum, Tally, Said, Skipped

\* One message more is one more counted.
LEMMA TallyAppend ==
  ASSUME NEW S, NEW l \in Seq(S), NEW e \in S
  PROVE  Sum(Append(l, e)) = Counting(Sum(l), e)
<1> DEFINE g == Append(l, e)
           n == Len(l)
<1>1. n \in Nat /\ Len(g) = n + 1 /\ g[n + 1] = e /\ \A i \in 1 .. n : g[i] = l[i]
  BY AppendProperties, LenProperties
<1> HIDE DEF g, n
<1>2. Tally(g, n + 1) = Counting(Tally(g, n), e)
  BY <1>1, TallyGrows
<1>3. Alike(g, l, n)
  BY <1>1 DEF Alike
<1>4. Tally(g, n) = Tally(l, n)
  BY <1>1, <1>3, TallyAlike
<1> QED
  BY <1>1, <1>2, <1>4 DEF Sum, g, n

LEMMA GapsCounted ==
  ASSUME NEW S, NEW l \in Seq(S)
  PROVE  Skipping(l) = Sum(l).gaps
<1>1. DOMAIN l = 1 .. Len(l)
  BY LenProperties
<1>2. Skipping(l) = Skipped(l, Len(l))
  BY <1>1 DEF Skipping, Skipped, Ahead
<1> QED
  BY <1>2 DEF Sum, Tally

\* What a device says.
Saying == [kind : Kinds \cup {"drop"}, boot : Int, seq : Int]

\* What is not said counts for nothing: of the list ...
LEMMA DueCounted ==
  ASSUME NEW l \in Seq(Plannable)
  PROVE  \A n \in 0 .. Len(l) : Due(l, n) \in Seq(Plannable) /\ Sum(Due(l, n)) = Tally(l, n)
<1> DEFINE P(n) == Due(l, n) \in Seq(Plannable) /\ Sum(Due(l, n)) = Tally(l, n)
           T == {n \in 0 .. Len(l) : ~P(n)}
<1>1. Len(l) \in Nat
  BY LenProperties
<1>2. P(0)
  <2>1. 1 .. 0 = {}
    OBVIOUS
  <2>2. Due(l, 0) = <<>>
    <3>1. {i \in 1 .. 0 : l[i].kind # "drop"} = {}
      BY <2>1
    <3>2. 1 .. Cardinality({}) = {}
      BY FS_EmptySet
    <3> QED
      BY <3>1, <3>2 DEF Due, Picked
  <2>3. Tally(l, 0) = [known |-> {}, gaps |-> {}]
    BY <2>1 DEF Tally, Said, Skipped
  <2> QED
    BY <2>2, <2>3, NothingCounted, EmptySeq
<1>3. ASSUME NEW n \in Nat, n + 1 <= Len(l), P(n) PROVE P(n + 1)
  <2> DEFINE m == l[n + 1]
  <2>1. m \in Plannable
    <3>1. n + 1 \in 1 .. Len(l)
      BY <1>1, <1>3
    <3> QED
      BY <3>1, ElementOfSeq
  <2>2. Tally(l, n + 1) = Counting(Tally(l, n), m)
    BY TallyGrows
  <2>3. CASE m.kind = "drop"
    <3>1. Due(l, n + 1) = Due(l, n)
      BY <2>3, DueGrows
    <3>2. Counting(Tally(l, n), m) = Tally(l, n)
      BY <2>3 DEF Counting
    <3> QED
      BY <1>3, <2>2, <3>1, <3>2
  <2>4. CASE m.kind # "drop"
    <3>1. Due(l, n + 1) = Append(Due(l, n), m)
      BY <2>4, DueGrows
    <3>2. Sum(Append(Due(l, n), m)) = Counting(Sum(Due(l, n)), m)
      BY <1>3, <2>1, TallyAppend
    <3>3. Append(Due(l, n), m) \in Seq(Plannable)
      BY <1>3, <2>1, AppendProperties
    <3> HIDE DEF m
    <3> QED
      BY <1>3, <2>2, <3>1, <3>2, <3>3
  <2> QED
    BY <2>3, <2>4
<1> HIDE DEF P
<1>4. ASSUME T # {} PROVE FALSE
  <2>1. T \in SUBSET Nat
    OBVIOUS
  <2>2. PICK m \in T : \A k \in T : m <= k
    <3> HIDE DEF T
    <3> QED
      BY <1>4, <2>1, LeastNat
  <2>3. m \in 0 .. Len(l) /\ ~P(m)
    OBVIOUS
  <2>4. m # 0
    BY <1>2, <2>3
  <2>5. m - 1 \in Nat /\ (m - 1) + 1 = m /\ m <= Len(l) /\ m - 1 \in 0 .. Len(l) /\ ~(m <= m - 1)
    BY <1>1, <2>3, <2>4
  <2>6. m - 1 \notin T
    <3> HIDE DEF T
    <3> QED
      BY <2>2, <2>5
  <2>7. P(m - 1)
    BY <2>5, <2>6
  <2> QED
    BY <1>3, <2>3, <2>5, <2>7
<1> QED
  BY <1>4 DEF P

\* ... and of what reaches the broker.
LEMMA HeardCounted ==
  ASSUME NEW w \in Seq(Entry)
  PROVE  Heard(w) \in Seq(Saying) /\ Sum(Heard(w)) = Sum(w)
<1> DEFINE Off(n) == \E s \in Seq(Entry) : Len(s) = n /\ ~(Heard(s) \in Seq(Saying) /\ Sum(Heard(s)) = Sum(s))
           T == {n \in Nat : Off(n)}
<1>1. ASSUME T # {} PROVE FALSE
  <2>1. T \in SUBSET Nat
    OBVIOUS
  <2>2. PICK n \in T : \A k \in T : n <= k
    <3> HIDE DEF T
    <3> QED
      BY <1>1, <2>1, LeastNat
  <2>3. PICK s \in Seq(Entry) : Len(s) = n /\ ~(Heard(s) \in Seq(Saying) /\ Sum(Heard(s)) = Sum(s))
    OBVIOUS
  <2>4. CASE n = 0
    <3>1. s = <<>>
      BY <2>3, <2>4, EmptySeq
    <3>2. DOMAIN s = {}
      BY <2>3, <2>4, LenProperties
    <3>3. Heard(s) = <<>>
      <4>1. {i \in DOMAIN s : s[i].kind # "will"} = {}
        BY <3>2
      <4>2. 1 .. Cardinality({}) = {}
        BY FS_EmptySet
      <4>3. ASSUME NEW list PROVE Picked(list, {}) = <<>>
        BY <4>2 DEF Picked
      <4> QED
        BY <4>1, <4>3 DEF Heard
    <3> QED
      BY <2>3, <3>1, <3>3, EmptySeq
  <2>5. CASE n # 0
    <3> DEFINE r == SubSeq(s, 1, n - 1)
               e == s[n]
               m == Message(e.kind, e.boot, e.seq)
    <3>1. n \in Nat /\ n - 1 \in Nat /\ ~(n <= n - 1) /\ n \in 1 .. Len(s)
      BY <2>3, <2>5
    <3>2. e \in Entry
      BY <3>1, ElementOfSeq
    <3>3. r \in Seq(Entry) /\ Len(r) = n - 1 /\ s = Append(r, e)
      <4>1. \A i \in 1 .. n - 1 : s[i] \in Entry
        <5>1. \A i \in 1 .. n - 1 : i \in 1 .. Len(s)
          BY <2>3, <3>1
        <5> QED
          BY <5>1, ElementOfSeq
      <4>2. /\ r \in Seq(Entry) /\ Len(r) = n - 1
            /\ \A i \in 1 .. n - 1 : r[i] = s[i]
        BY <3>1, <4>1, SubSeqProperties
      <4> HIDE DEF r
      <4>3. /\ Append(r, e) \in Seq(Entry) /\ Len(Append(r, e)) = n
            /\ \A i \in 1 .. n - 1 : Append(r, e)[i] = r[i]
            /\ Append(r, e)[n] = e
        BY <3>1, <3>2, <4>2, AppendProperties
      <4>4. \A i \in 1 .. n : Append(r, e)[i] = s[i]
        BY <3>1, <4>2, <4>3
      <4> QED
        BY <2>3, <4>2, <4>3, <4>4, SeqEqual
    <3>4. Heard(r) \in Seq(Saying) /\ Sum(Heard(r)) = Sum(r)
      <4>1. n - 1 \notin T
        <5> HIDE DEF T
        <5> QED
          BY <2>2, <3>1
      <4> HIDE DEF r
      <4> QED
        BY <3>1, <3>3, <4>1
    <3> HIDE DEF r
    <3>5. Sum(s) = Counting(Sum(r), e)
      BY <3>2, <3>3, TallyAppend
    <3>6. /\ m \in Saying /\ m.kind = e.kind /\ m.boot = e.boot /\ m.seq = e.seq
      BY <3>2 DEF Entry, Saying, Message
    <3>7. /\ e.kind = "will" => Heard(s) = Heard(r)
          /\ e.kind # "will" => Heard(s) = Append(Heard(r), m)
      BY <3>2, <3>3, HeardGrows
    <3> HIDE DEF m, e
    <3>8. CASE e.kind = "will"
      <4>1. Counting(Sum(r), e) = Sum(r)
        BY <3>8 DEF Counting
      <4> QED
        BY <2>3, <3>4, <3>5, <3>7, <3>8, <4>1
    <3>9. CASE e.kind # "will"
      <4>1. Sum(Append(Heard(r), m)) = Counting(Sum(Heard(r)), m) /\ Append(Heard(r), m) \in Seq(Saying)
        BY <3>4, <3>6, TallyAppend, AppendProperties
      <4>2. Counting(Sum(r), m) = Counting(Sum(r), e)
        BY <3>6 DEF Counting, Skips
      <4> QED
        BY <2>3, <3>4, <3>5, <3>7, <3>9, <4>1, <4>2
    <3> QED
      BY <3>8, <3>9
  <2> QED
    BY <2>4, <2>5
<1>2. Len(w) \in Nat
  BY LenProperties
<1>3. ~Off(Len(w))
  <2>1. Len(w) \notin T
    BY <1>1
  <2> HIDE DEF Off
  <2> QED
    BY <1>2, <2>1
<1> QED
  BY <1>3

\* A run that nobody interrupted and that exits with 0 has the gaps of its list.
LEMMA GapsOfRun ==
  ASSUME PublisherInv, TruthInv, pc = "done", rc = 0, interrupt = "none"
  PROVE  /\ plan # <<>> /\ All \in Seq(Plannable)
         /\ Skipping(wire) = Skipping(All)
<1>1. plan # <<>> /\ All \in Seq(Plannable) /\ wire \in Seq(Entry)
  BY DEF TruthInv, CutFrom, PublisherInv
<1> DEFINE last == Offline(plan[Len(plan)].boot)
           due == Due(All, Len(All))
<1>2. Heard(wire) = Append(due, last)
  BY DEF TruthInv
<1>3. due \in Seq(Plannable) /\ Sum(due) = Sum(All)
  <2>1. Len(All) \in 0 .. Len(All)
    BY <1>1, LenProperties
  <2> QED
    BY <1>1, <2>1, DueCounted DEF Sum
<1>4. last.kind = "offline"
  BY DEF Offline, Message
<1> HIDE DEF last, due
<1>5. Sum(Append(due, last)) = Counting(Sum(due), last)
  <2>1. due \in Seq(Plannable \cup {last})
    BY <1>3, SeqMonotonic
  <2> QED
    BY <2>1, TallyAppend
<1>6. Counting(Sum(due), last) = Sum(due)
  BY <1>4 DEF Counting
<1>7. Sum(wire) = Sum(All)
  BY <1>1, <1>2, <1>3, <1>5, <1>6, HeardCounted
<1> QED
  BY <1>1, <1>7, GapsCounted

-------------------------------------------------------------------------------
(* Lists that miss nothing *)

\* Each reading but the first of its boot follows one that is not far behind.
Steady(l) ==
    \A i \in 1 .. Len(l) : l[i].kind = "telemetry" =>
        SameBoot(l, i) = {} \/ \E j \in SameBoot(l, i) : l[i].seq <= l[j].seq + 1

LEMMA Elements ==
  ASSUME NEW l \in Seq(Plannable)
  PROVE  /\ Len(l) \in Nat
         /\ \A i \in 1 .. Len(l) : l[i] \in Plannable /\ l[i].boot \in Int /\ l[i].seq \in Int
<1>1. Len(l) \in Nat /\ \A i \in 1 .. Len(l) : l[i] \in Plannable
  BY LenProperties, ElementOfSeq
<1> QED
  BY <1>1 DEF Plannable

\* Nothing is counted of such a list, ...
LEMMA SteadyUncounted ==
  ASSUME NEW l \in Seq(Plannable), Steady(l)
  PROVE  Skipping(l) = {}
<1>1. ASSUME NEW i \in 1 .. Len(l), Ahead(l, i) PROVE FALSE
  <2>1. PICK j \in SameBoot(l, i) : l[i].seq <= l[j].seq + 1
    BY <1>1 DEF Steady, Ahead
  <2>2. l[j].seq + 1 < l[i].seq
    BY <1>1 DEF Ahead
  <2>3. j \in 1 .. Len(l)
    BY Elements DEF SameBoot
  <2> QED
    BY <2>1, <2>2, <2>3, Elements
<1>2. Skipped(l, Len(l)) = {}
  BY <1>1 DEF Skipped
<1> QED
  BY <1>2, GapsCounted DEF Sum, Tally

\* ... two of them with different boots are one, ...
LEMMA SteadyConcat ==
  ASSUME NEW a \in Seq(Plannable), NEW b \in Seq(Plannable), Steady(a), Steady(b),
         \A i \in 1 .. Len(a), j \in 1 .. Len(b) :
            a[i].kind = "telemetry" /\ b[j].kind = "telemetry" => a[i].boot # b[j].boot
  PROVE  a \o b \in Seq(Plannable) /\ Steady(a \o b)
<1> DEFINE g == a \o b
           m == Len(a)
           n == Len(b)
<1>1. /\ m \in Nat /\ n \in Nat /\ g \in Seq(Plannable) /\ Len(g) = m + n
      /\ \A i \in 1 .. m + n : g[i] = IF i <= m THEN a[i] ELSE b[i - m]
  BY LenProperties, ConcatProperties
<1> HIDE DEF g, m, n
<1>2. /\ \A i \in 1 .. m : g[i] = a[i]
      /\ \A i \in 1 .. n : g[m + i] = b[i]
  <2>1. ASSUME NEW i \in 1 .. m PROVE g[i] = a[i]
    BY <1>1
  <2>2. ASSUME NEW i \in 1 .. n PROVE g[m + i] = b[i]
    <3>1. m + i \in 1 .. m + n /\ ~(m + i <= m) /\ m + i - m = i
      BY <1>1
    <3> QED
      BY <1>1, <3>1
  <2> QED
    BY <2>1, <2>2
<1>3. ASSUME NEW i \in 1 .. m + n, g[i].kind = "telemetry"
      PROVE  SameBoot(g, i) = {} \/ \E j \in SameBoot(g, i) : g[i].seq <= g[j].seq + 1
  <2>1. CASE i \in 1 .. m
    <3>1. SameBoot(g, i) = SameBoot(a, i) /\ \A j \in SameBoot(a, i) : j \in 1 .. m
      <4>1. \A j \in 1 .. i - 1 : j \in 1 .. m
        BY <1>1, <2>1
      <4> QED
        BY <1>2, <2>1, <4>1 DEF SameBoot
    <3> QED
      BY <1>2, <1>3, <2>1, <3>1 DEF Steady, m
  <2>2. CASE i \in m + 1 .. m + n
    <3> DEFINE k == i - m
    <3>1. k \in 1 .. n /\ i = m + k
      BY <1>1, <2>2
    <3> HIDE DEF k
    <3>2. g[i] = b[k]
      BY <1>2, <3>1
    <3>3. ASSUME NEW j \in SameBoot(g, i) PROVE j - m \in SameBoot(b, k)
      <4>1. j \in 1 .. i - 1 /\ g[j].kind = "telemetry" /\ g[j].boot = g[i].boot
        BY DEF SameBoot
      <4>2. j \notin 1 .. m
        <5> SUFFICES ASSUME j \in 1 .. m PROVE FALSE
          OBVIOUS
        <5>1. a[j].kind = "telemetry" /\ a[j].boot = b[k].boot
          BY <1>2, <3>2, <4>1
        <5> QED
          BY <1>3, <3>1, <3>2, <5>1 DEF m, n
      <4>3. j - m \in 1 .. k - 1 /\ j = m + (j - m) /\ j - m \in 1 .. n
        BY <1>1, <3>1, <4>1, <4>2
      <4>4. g[j] = b[j - m]
        BY <1>2, <4>3
      <4> QED
        BY <3>2, <4>1, <4>3, <4>4 DEF SameBoot
    <3>4. ASSUME NEW j \in SameBoot(b, k) PROVE m + j \in SameBoot(g, i) /\ g[m + j] = b[j]
      <4>1. j \in 1 .. k - 1 /\ b[j].kind = "telemetry" /\ b[j].boot = b[k].boot
        BY DEF SameBoot
      <4>2. m + j \in 1 .. i - 1 /\ j \in 1 .. n
        BY <1>1, <3>1, <4>1
      <4>3. g[m + j] = b[j]
        BY <1>2, <4>2
      <4> QED
        BY <3>2, <4>1, <4>2, <4>3 DEF SameBoot
    <3>5. SameBoot(b, k) = {} \/ \E j \in SameBoot(b, k) : b[k].seq <= b[j].seq + 1
      BY <1>3, <3>1, <3>2 DEF Steady, n
    <3>6. SameBoot(b, k) = {} => SameBoot(g, i) = {}
      BY <3>3
    <3> QED
      BY <3>2, <3>4, <3>5, <3>6
  <2> QED
    BY <1>1, <2>1, <2>2
<1>4. Steady(g)
  BY <1>1, <1>3 DEF Steady
<1> QED
  BY <1>1, <1>4 DEF g

\* ... and so is one with a message more that follows closely.
LEMMA SteadyAppend ==
  ASSUME NEW l \in Seq(Plannable), NEW e \in Plannable, Steady(l),
         \/ e.kind # "telemetry"
         \/ \E i \in 1 .. Len(l) : l[i].kind = "telemetry" /\ l[i].boot = e.boot /\ e.seq <= l[i].seq + 1
  PROVE  Append(l, e) \in Seq(Plannable) /\ Steady(Append(l, e))
<1> DEFINE g == Append(l, e)
           n == Len(l)
<1>1. /\ g \in Seq(Plannable) /\ Len(g) = n + 1 /\ n \in Nat /\ g[n + 1] = e
      /\ \A i \in 1 .. n : g[i] = l[i]
  BY AppendProperties, LenProperties
<1> HIDE DEF g
<1>2. ASSUME NEW i \in 1 .. n, g[i].kind = "telemetry"
      PROVE  SameBoot(g, i) = {} \/ \E j \in SameBoot(g, i) : g[i].seq <= g[j].seq + 1
  <2>1. \A j \in 1 .. i - 1 : j \in 1 .. n
    BY <1>1
  <2>2. SameBoot(g, i) = SameBoot(l, i)
    BY <1>1, <2>1 DEF SameBoot
  <2>3. \A j \in SameBoot(l, i) : g[j] = l[j]
    BY <1>1, <2>1 DEF SameBoot
  <2> QED
    BY <1>1, <1>2, <2>2, <2>3 DEF Steady
<1>3. ASSUME e.kind = "telemetry"
      PROVE  \E j \in SameBoot(g, n + 1) : g[n + 1].seq <= g[j].seq + 1
  <2>1. PICK i \in 1 .. n : l[i].kind = "telemetry" /\ l[i].boot = e.boot /\ e.seq <= l[i].seq + 1
    BY <1>3
  <2>2. i \in SameBoot(g, n + 1)
    <3>1. i \in 1 .. n + 1 - 1
      BY <1>1
    <3> QED
      BY <1>1, <2>1, <3>1 DEF SameBoot
  <2> QED
    BY <1>1, <2>1, <2>2
<1>4. Steady(g)
  <2>1. \A i \in 1 .. n + 1 : i = n + 1 \/ i \in 1 .. n
    BY <1>1
  <2> HIDE DEF n
  <2> QED
    BY <1>1, <1>2, <1>3, <2>1 DEF Steady
<1> QED
  BY <1>1, <1>4 DEF g

\* The cap leaves what it does not cut off as it was.
LEMMA SteadyCut ==
  ASSUME NEW l \in Seq(Plannable), Steady(l)
  PROVE  Truncated(l) \in Seq(Plannable) /\ Steady(Truncated(l))
<1> DEFINE g == SubSeq(l, 1, Cap)
<1>1. Cap \in Nat /\ Len(l) \in Nat
  BY PublisherAssumption, LenProperties
<1>2. ASSUME Len(l) > Cap PROVE g \in Seq(Plannable) /\ Steady(g)
  <2>1. /\ g \in Seq(Plannable) /\ Len(g) = Cap
        /\ \A i \in 1 .. Cap : g[i] = l[i] /\ i \in 1 .. Len(l)
    <3>1. \A i \in 1 .. Cap : i \in 1 .. Len(l)
      BY <1>1, <1>2
    <3>2. \A i \in 1 .. Cap : l[i] \in Plannable
      BY <3>1, ElementOfSeq
    <3>3. g \in Seq(Plannable) /\ Len(g) = Cap /\ \A i \in 1 .. Cap : g[i] = l[i]
      BY <1>1, <3>2, SubSeqProperties
    <3> QED
      BY <3>1, <3>3
  <2> HIDE DEF g
  <2>2. ASSUME NEW i \in 1 .. Cap, g[i].kind = "telemetry"
        PROVE  SameBoot(g, i) = {} \/ \E j \in SameBoot(g, i) : g[i].seq <= g[j].seq + 1
    <3>1. \A j \in 1 .. i - 1 : j \in 1 .. Cap
      BY <1>1
    <3>2. SameBoot(g, i) = SameBoot(l, i) /\ \A j \in SameBoot(l, i) : g[j] = l[j]
      BY <2>1, <3>1 DEF SameBoot
    <3> QED
      BY <2>1, <2>2, <3>2 DEF Steady
  <2> QED
    BY <2>1, <2>2 DEF Steady
<1> QED
  BY <1>2 DEF Truncated

\* A plain run.
LEMMA RunSteady ==
  ASSUME NEW boot \in Nat, NEW from \in Int, NEW n \in Nat
  PROVE  /\ Run(boot, from, n) \in Seq(Plannable) /\ Len(Run(boot, from, n)) = n
         /\ \A i \in 1 .. n : Run(boot, from, n)[i] = Telemetry(boot, from + i - 1)
         /\ Steady(Run(boot, from, n))
<1> DEFINE g == Run(boot, from, n)
<1>1. g \in Seq(Plannable)
  <2>1. Plain(boot) \subseteq Plannable
    BY DEF Plain
  <2> QED
    BY <2>1, RunPlain, SeqMonotonic
<1>2. g = [i \in 1 .. n |-> Telemetry(boot, from + i - 1)]
  BY DEF Run
<1>3. Len(g) = n /\ \A i \in 1 .. n : g[i] = Telemetry(boot, from + i - 1)
  <2>1. DOMAIN g = 1 .. n /\ \A i \in 1 .. n : g[i] = Telemetry(boot, from + i - 1)
    BY <1>2
  <2> HIDE DEF g
  <2> QED
    BY <1>1, <2>1, LenProperties
<1> HIDE DEF g
<1>4. \A i \in 1 .. n : g[i].kind = "telemetry" /\ g[i].boot = boot /\ g[i].seq = from + i - 1
  BY <1>3 DEF Telemetry, Message
<1>5. ASSUME NEW i \in 1 .. n, SameBoot(g, i) # {}
      PROVE  \E j \in SameBoot(g, i) : g[i].seq <= g[j].seq + 1
  <2>1. i # 1
    BY <1>5 DEF SameBoot
  <2>2. i - 1 \in 1 .. n /\ i - 1 \in 1 .. i - 1
    BY <2>1
  <2>3. i - 1 \in SameBoot(g, i)
    BY <1>4, <2>2 DEF SameBoot
  <2>4. g[i].seq <= g[i - 1].seq + 1
    BY <1>4, <2>2
  <2> QED
    BY <2>3, <2>4
<1>6. Steady(g)
  BY <1>3, <1>5 DEF Steady
<1> QED
  BY <1>1, <1>3, <1>6 DEF g

\* One or two messages more.
LEMMA ConcatOne ==
  ASSUME NEW S, NEW l \in Seq(S), NEW e \in S, NEW f \in S
  PROVE  /\ l \o <<e>> = Append(l, e)
         /\ l \o <<e, f>> = Append(Append(l, e), f)
<1>1. Len(l) \in Nat /\ <<e>> \in Seq(S) /\ <<e, f>> \in Seq(S) /\ Len(<<e>>) = 1 /\ Len(<<e, f>>) = 2
      /\ <<e>>[1] = e /\ <<e, f>>[1] = e /\ <<e, f>>[2] = f
  BY LenProperties
<1> DEFINE n == Len(l)
           a == Append(l, e)
           b == Append(a, f)
           c == l \o <<e>>
           d == l \o <<e, f>>
<1>2. a \in Seq(S) /\ Len(a) = n + 1 /\ a[n + 1] = e /\ \A i \in 1 .. n : a[i] = l[i]
  BY AppendProperties
<1>3. b \in Seq(S) /\ Len(b) = n + 2 /\ b[n + 2] = f /\ \A i \in 1 .. n + 1 : b[i] = a[i]
  <2> HIDE DEF a
  <2>1. n + 1 + 1 = n + 2
    BY <1>1
  <2> QED
    BY <1>2, <2>1, AppendProperties
<1>4. c \in Seq(S) /\ Len(c) = n + 1
      /\ \A i \in 1 .. n + 1 : c[i] = IF i <= n THEN l[i] ELSE <<e>>[i - n]
  BY <1>1, ConcatProperties
<1>5. d \in Seq(S) /\ Len(d) = n + 2
      /\ \A i \in 1 .. n + 2 : d[i] = IF i <= n THEN l[i] ELSE <<e, f>>[i - n]
  BY <1>1, ConcatProperties
<1> HIDE DEF a, b, c, d
<1>6. \A i \in 1 .. n + 1 : c[i] = a[i]
  <2> SUFFICES ASSUME NEW i \in 1 .. n + 1 PROVE c[i] = a[i]
    OBVIOUS
  <2>1. CASE i = n + 1
    <3>1. i - n = 1 /\ ~(i <= n)
      BY <1>1, <2>1
    <3> QED
      BY <1>1, <1>2, <1>4, <2>1, <3>1
  <2>2. CASE i # n + 1
    <3>1. i \in 1 .. n /\ i <= n
      BY <1>1, <2>2
    <3> QED
      BY <1>2, <1>4, <3>1
  <2> QED
    BY <2>1, <2>2
<1>7. \A i \in 1 .. n + 2 : d[i] = b[i]
  <2> SUFFICES ASSUME NEW i \in 1 .. n + 2 PROVE d[i] = b[i]
    OBVIOUS
  <2>1. CASE i = n + 1
    <3>1. i - n = 1 /\ ~(i <= n) /\ i \in 1 .. n + 1
      BY <1>1, <2>1
    <3> QED
      BY <1>1, <1>2, <1>3, <1>5, <2>1, <3>1
  <2>2. CASE i = n + 2
    <3>1. i - n = 2 /\ ~(i <= n)
      BY <1>1, <2>2
    <3> QED
      BY <1>1, <1>3, <1>5, <2>2, <3>1
  <2>3. CASE i # n + 1 /\ i # n + 2
    <3>1. i \in 1 .. n /\ i <= n /\ i \in 1 .. n + 1
      BY <1>1, <2>3
    <3> QED
      BY <1>2, <1>3, <1>5, <3>1
  <2> QED
    BY <2>1, <2>2, <2>3
<1>8. c = a
  BY <1>2, <1>4, <1>6, SeqEqual
<1>9. d = b
  BY <1>3, <1>5, <1>7, SeqEqual
<1> QED
  BY <1>8, <1>9 DEF a, b, c, d

\* A list that misses nothing, with readings of some boots only.
Told(l, boots) ==
    /\ l \in Seq(Plannable) /\ Steady(l)
    /\ \A i \in 1 .. Len(l) : l[i].kind = "telemetry" => l[i].boot \in boots

\* Two such lists of different boots, one after the other.
LEMMA ToldConcat ==
  ASSUME NEW a, NEW b, NEW A, NEW B, Told(a, A), Told(b, B), A \cap B = {}
  PROVE  Told(a \o b, A \cup B)
<1>1. a \in Seq(Plannable) /\ b \in Seq(Plannable) /\ Steady(a) /\ Steady(b)
  BY DEF Told
<1>2. \A i \in 1 .. Len(a), j \in 1 .. Len(b) :
         a[i].kind = "telemetry" /\ b[j].kind = "telemetry" => a[i].boot # b[j].boot
  BY DEF Told
<1>3. a \o b \in Seq(Plannable) /\ Steady(a \o b)
  BY <1>1, <1>2, SteadyConcat
<1> DEFINE g == a \o b
           m == Len(a)
           n == Len(b)
<1>4. /\ m \in Nat /\ n \in Nat /\ Len(g) = m + n
      /\ \A i \in 1 .. m + n : g[i] = IF i <= m THEN a[i] ELSE b[i - m]
  BY <1>1, LenProperties, ConcatProperties
<1> HIDE DEF g
<1>5. ASSUME NEW i \in 1 .. m + n, g[i].kind = "telemetry" PROVE g[i].boot \in A \cup B
  <2>1. CASE i <= m
    <3>1. i \in 1 .. m /\ g[i] = a[i]
      BY <1>4, <2>1
    <3> QED
      BY <1>5, <3>1 DEF Told
  <2>2. CASE ~(i <= m)
    <3>1. i - m \in 1 .. n /\ g[i] = b[i - m]
      BY <1>4, <2>2
    <3> QED
      BY <1>5, <3>1 DEF Told
  <2> QED
    BY <2>1, <2>2
<1> QED
  BY <1>3, <1>4, <1>5 DEF Told, g

\* A list without readings.
LEMMA NothingTold ==
  ASSUME NEW l \in Seq(Plannable), \A i \in 1 .. Len(l) : l[i].kind # "telemetry"
  PROVE  Told(l, {})
BY DEF Told, Steady

\* A status, and what the scenarios put around it.
LEMMA StatusTold ==
  ASSUME NEW boot \in Nat
  PROVE  /\ Told(<<Online(boot)>>, {}) /\ Told(<<Offline(boot)>>, {})
         /\ Told(<<Drop(boot), Online(boot + 1)>>, {})
<1> DEFINE cut == <<Drop(boot), Online(boot + 1)>>
<1>1. /\ Online(boot) \in Plannable /\ Online(boot).kind # "telemetry"
      /\ Offline(boot) \in Plannable /\ Offline(boot).kind # "telemetry"
      /\ Drop(boot) \in Plannable /\ Drop(boot).kind # "telemetry"
      /\ Online(boot + 1) \in Plannable /\ Online(boot + 1).kind # "telemetry"
  BY DEF Online, Offline, Drop, Message, Plannable, Kinds
<1>2. ASSUME NEW e \in Plannable, e.kind # "telemetry" PROVE Told(<<e>>, {})
  <2>1. <<e>> \in Seq(Plannable) /\ Len(<<e>>) = 1 /\ <<e>>[1] = e
    OBVIOUS
  <2>2. \A i \in 1 .. Len(<<e>>) : i = 1
    BY <2>1
  <2> QED
    BY <1>2, <2>1, <2>2, NothingTold
<1>3. Told(cut, {})
  <2>1. cut \in Seq(Plannable) /\ Len(cut) = 2 /\ cut[1] = Drop(boot) /\ cut[2] = Online(boot + 1)
    BY <1>1
  <2>2. \A i \in 1 .. Len(cut) : i = 1 \/ i = 2
    BY <2>1
  <2> HIDE DEF cut
  <2> QED
    BY <1>1, <2>1, <2>2, NothingTold
<1> QED
  BY <1>1, <1>2, <1>3

LEMMA RunTold ==
  ASSUME NEW boot \in Nat, NEW from \in Int, NEW n \in Nat
  PROVE  Told(Run(boot, from, n), {boot})
<1>1. /\ Run(boot, from, n) \in Seq(Plannable) /\ Len(Run(boot, from, n)) = n
      /\ \A i \in 1 .. n : Run(boot, from, n)[i] = Telemetry(boot, from + i - 1)
      /\ Steady(Run(boot, from, n))
  BY RunSteady
<1> QED
  BY <1>1 DEF Told, Telemetry, Message

LEMMA MalformedTold ==
  ASSUME NEW boot \in Nat, NEW n \in Nat
  PROVE  Told(SubSeq(Malformed(boot), 1, IF n < 5 THEN n ELSE 5), {})
<1> DEFINE all == Malformed(boot)
           last == IF n < 5 THEN n ELSE 5
           g == SubSeq(all, 1, last)
           S == {m \in Plannable : m.kind = "malformed"}
<1>1. \A of \in Int : Message("malformed", of, 0) \in S
  BY DEF Message, Plannable, Kinds
<1>2. \A i \in 1 .. 5 : all[i] \in S
  <2>1. Message("malformed", 0, 0) \in S /\ Message("malformed", -1, 0) \in S /\ Message("malformed", boot, 0) \in S
    BY <1>1
  <2> HIDE DEF S
  <2> QED
    BY <2>1 DEF Malformed
<1>3. last \in Int /\ \A i \in 1 .. last : i \in 1 .. 5
  OBVIOUS
<1>4. g \in Seq(S)
  <2> HIDE DEF all, last, S
  <2> QED
    BY <1>2, <1>3, SubSeqProperties
<1> HIDE DEF g
<1>5. g \in Seq(Plannable) /\ \A i \in 1 .. Len(g) : g[i] \in S
  <2>1. S \subseteq Plannable
    OBVIOUS
  <2> HIDE DEF S
  <2> QED
    BY <1>4, <2>1, SeqMonotonic, ElementOfSeq
<1>6. \A i \in 1 .. Len(g) : g[i].kind # "telemetry"
  BY <1>5
<1>7. Told(g, {})
  BY <1>5, <1>6, NothingTold
<1> QED
  BY <1>7 DEF g

LEMMA StatusScenarioTold ==
  ASSUME NEW boot \in Nat, NEW n \in Nat
  PROVE  Told(<<Online(boot)>> \o Run(boot, FirstSeq, n) \o <<Offline(boot)>>, {boot})
<1>1. Told(Run(boot, FirstSeq, n), {boot})
  BY RunTold DEF FirstSeq
<1>2. Told(<<Online(boot)>> \o Run(boot, FirstSeq, n), {} \cup {boot})
  BY <1>1, StatusTold, ToldConcat
<1>3. Told((<<Online(boot)>> \o Run(boot, FirstSeq, n)) \o <<Offline(boot)>>, {} \cup {boot} \cup {})
  BY <1>2, StatusTold, ToldConcat
<1>4. {} \cup {boot} \cup {} = {boot}
  OBVIOUS
<1> QED
  BY <1>3, <1>4

LEMMA ReconnectingTold ==
  ASSUME NEW boot \in Nat, NEW n \in Nat \ {0}
  PROVE  Told(Reconnecting(boot, n), {boot, boot + 1})
<1> DEFINE half == IF n > 1 THEN n \div 2 ELSE 1
           first == Run(boot, FirstSeq, half)
           cut == <<Drop(boot), Online(boot + 1)>>
           second == Run(boot + 1, 1, n - half)
<1>1. half \in Nat /\ n - half \in Nat /\ boot + 1 \in Nat /\ 1 \in Int /\ FirstSeq \in Int
  BY DEF FirstSeq
<1>2. Reconnecting(boot, n) = <<Online(boot)>> \o first \o cut \o second
  BY DEF Reconnecting
<1> HIDE DEF half
<1>3. Told(first, {boot}) /\ Told(second, {boot + 1})
  BY <1>1, RunTold
<1>4. Told(<<Online(boot)>>, {}) /\ Told(cut, {})
  BY StatusTold
<1> HIDE DEF first, cut, second
<1>5. Told(<<Online(boot)>> \o first, {} \cup {boot})
  BY <1>3, <1>4, ToldConcat
<1>6. Told(<<Online(boot)>> \o first \o cut, {} \cup {boot} \cup {})
  BY <1>4, <1>5, ToldConcat
<1>7. {} \cup {boot} \cup {} = {boot} /\ {boot} \cap {boot + 1} = {}
      /\ {boot} \cup {boot + 1} = {boot, boot + 1}
  OBVIOUS
<1>8. Told(<<Online(boot)>> \o first \o cut, {boot})
  BY <1>6, <1>7
<1>9. Told(<<Online(boot)>> \o first \o cut \o second, {boot} \cup {boot + 1})
  BY <1>3, <1>7, <1>8, ToldConcat
<1> QED
  BY <1>2, <1>7, <1>9

\* A list that misses nothing and has just said e.
Upto(e) == {l \in Seq(Plannable) : Steady(l) /\ Len(l) > 0 /\ l[Len(l)] = e}

\* Its next reading may be the same one, or the next.
LEMMA UptoNext ==
  ASSUME NEW boot \in Nat, NEW s \in Int, NEW t \in Int, t = s \/ t = s + 1,
         NEW l \in Upto(Telemetry(boot, s))
  PROVE  Append(l, Telemetry(boot, t)) \in Upto(Telemetry(boot, t))
<1> DEFINE d == Telemetry(boot, s)
           e == Telemetry(boot, t)
           g == Append(l, e)
<1>1. l \in Seq(Plannable) /\ Steady(l) /\ Len(l) \in Nat /\ Len(l) > 0 /\ l[Len(l)] = d
  BY LenProperties DEF Upto
<1>2. /\ e \in Plannable /\ e.kind = "telemetry" /\ e.boot = boot /\ e.seq = t
      /\ d.kind = "telemetry" /\ d.boot = boot /\ d.seq = s
  BY DEF Telemetry, Message, Plannable, Kinds
<1> HIDE DEF d, e
<1>3. \E i \in 1 .. Len(l) : l[i].kind = "telemetry" /\ l[i].boot = e.boot /\ e.seq <= l[i].seq + 1
  <2>1. Len(l) \in 1 .. Len(l)
    BY <1>1
  <2>2. l[Len(l)].kind = "telemetry" /\ l[Len(l)].boot = e.boot /\ e.seq <= l[Len(l)].seq + 1
    BY <1>1, <1>2
  <2> QED
    BY <2>1, <2>2
<1>4. g \in Seq(Plannable) /\ Steady(g)
  BY <1>1, <1>2, <1>3, SteadyAppend
<1>5. Len(g) = Len(l) + 1 /\ g[Len(l) + 1] = e
  BY <1>1, <1>2, AppendProperties
<1> HIDE DEF g
<1>6. Len(g) > 0 /\ g[Len(g)] = e
  BY <1>1, <1>5
<1> QED
  BY <1>4, <1>6 DEF Upto, g, e

LEMMA UptoFirst ==
  ASSUME NEW boot \in Nat, NEW s \in Int
  PROVE  <<Telemetry(boot, s)>> \in Upto(Telemetry(boot, s))
<1> DEFINE e == Telemetry(boot, s)
           g == <<e>>
<1>1. e \in Plannable
  BY DEF Telemetry, Message, Plannable, Kinds
<1> HIDE DEF e
<1>2. g \in Seq(Plannable) /\ Len(g) = 1 /\ g[1] = e
  BY <1>1
<1> HIDE DEF g
<1>3. \A i \in 1 .. Len(g) : SameBoot(g, i) = {}
  BY <1>2 DEF SameBoot
<1> QED
  BY <1>2, <1>3 DEF Upto, Steady, g, e

\* Said twice, a reading is not far behind itself.
LEMMA DuplicatesTold ==
  ASSUME NEW boot \in Nat, NEW n \in Nat \ {0}
  PROVE  Duplicates(boot, n) \in Seq(Plannable) /\ Steady(Duplicates(boot, n))
<1> DEFINE reading(i) == Telemetry(boot, FirstSeq + i - 1)
           parts == [i \in 1 .. n |-> IF i % 2 = 0 THEN <<reading(i), reading(i)>> ELSE <<reading(i)>>]
           G == [k \in 1 .. n |-> Upto(reading(k))]
<1>1. \A i \in Int : reading(i) = Telemetry(boot, i) /\ reading(i) \in Plannable
  BY DEF FirstSeq, Telemetry, Message, Plannable, Kinds
<1> HIDE DEF reading
<1>2. \A i \in 1 .. n : /\ i % 2 = 0 => parts[i] = <<reading(i), reading(i)>>
                        /\ i % 2 # 0 => parts[i] = <<reading(i)>>
                        /\ i \in Int
  OBVIOUS
<1>3. parts \in Seq(Seq(Plannable)) /\ Len(parts) = n
  <2>1. \A i \in 1 .. n : parts[i] \in Seq(Plannable)
    <3> SUFFICES ASSUME NEW i \in 1 .. n PROVE parts[i] \in Seq(Plannable)
      OBVIOUS
    <3>1. reading(i) \in Plannable
      BY <1>1
    <3>2. <<reading(i)>> \in Seq(Plannable) /\ <<reading(i), reading(i)>> \in Seq(Plannable)
      BY <3>1
    <3> HIDE DEF parts
    <3> QED
      BY <1>2, <3>2
  <2>2. parts = [i \in 1 .. n |-> parts[i]] /\ n \in Nat
    OBVIOUS
  <2> HIDE DEF parts
  <2>3. parts \in [1 .. n -> Seq(Plannable)]
    BY <2>1, <2>2
  <2>4. parts \in Seq(Seq(Plannable))
    BY <2>2, <2>3, SeqDef
  <2> QED
    BY <2>2, <2>3, <2>4, LenProperties
<1>4. Duplicates(boot, n) = FlattenSeq(parts)
  BY DEF Duplicates, reading
<1>5. parts[1] \in G[1]
  <2>1. 1 \in 1 .. n /\ 1 % 2 # 0
    OBVIOUS
  <2>2. parts[1] = <<Telemetry(boot, 1)>> /\ G[1] = Upto(Telemetry(boot, 1))
    BY <1>1, <2>1
  <2> HIDE DEF parts, G
  <2> QED
    BY <2>2, UptoFirst
<1>6. ASSUME NEW k \in 2 .. n, NEW v \in G[k - 1] PROVE v \o parts[k] \in G[k]
  <2>1. k - 1 \in 1 .. n /\ k \in 1 .. n /\ k \in Int /\ k - 1 \in Int /\ k = (k - 1) + 1
    OBVIOUS
  <2>2. G[k - 1] = Upto(Telemetry(boot, k - 1)) /\ G[k] = Upto(Telemetry(boot, k))
    BY <1>1, <2>1
  <2> DEFINE e == Telemetry(boot, k)
  <2>3. e = reading(k) /\ e \in Plannable
    BY <1>1, <2>1
  <2> HIDE DEF G
  <2>4. v \in Seq(Plannable)
    BY <2>2 DEF Upto
  <2>5. Append(v, e) \in Upto(e)
    BY <2>1, <2>2, UptoNext
  <2>6. Append(Append(v, e), e) \in Upto(e)
    BY <2>1, <2>5, UptoNext
  <2> HIDE DEF e, parts
  <2>7. v \o <<e>> = Append(v, e) /\ v \o <<e, e>> = Append(Append(v, e), e)
    BY <2>3, <2>4, ConcatOne
  <2>8. parts[k] = <<e>> \/ parts[k] = <<e, e>>
    BY <1>2, <2>1, <2>3
  <2>9. v \o parts[k] \in Upto(e)
    BY <2>5, <2>6, <2>7, <2>8
  <2> QED
    BY <2>2, <2>9 DEF e
<1>7. FlattenSeq(parts) \in G[n]
  <2> HIDE DEF parts, G
  <2> QED
    BY <1>3, <1>5, <1>6, FlattenLed
<1>8. G[n] = Upto(reading(n))
  OBVIOUS
<1> HIDE DEF parts, G
<1> QED
  BY <1>4, <1>7, <1>8 DEF Upto

-------------------------------------------------------------------------------
(* A gap counted in every round of four *)

\* The readings of a boot up to the s-th.
Through(boot, s) == {<<boot, x>> : x \in 1 .. s}

\* The next reading counts nothing; a later one before it counts once.
LEMMA CountNext ==
  ASSUME NEW boot \in Nat, NEW s \in Nat, NEW gaps
  PROVE  Counting([known |-> Through(boot, s), gaps |-> gaps], Telemetry(boot, s + 1))
           = [known |-> Through(boot, s + 1), gaps |-> gaps]
<1> DEFINE e == Telemetry(boot, s + 1)
           K == Through(boot, s)
<1>1. e.kind = "telemetry" /\ e.boot = boot /\ e.seq = s + 1
  BY DEF Telemetry, Message
<1>2. K \cup {<<boot, s + 1>>} = Through(boot, s + 1)
  <2>1. \A x : x \in 1 .. s + 1 <=> x \in 1 .. s \/ x = s + 1
    OBVIOUS
  <2> QED
    BY <2>1 DEF Through
<1>3. ~Skips(K, e)
  <2> SUFFICES ASSUME \E r \in K : r[1] = boot, \A r \in K : r[1] = boot => r[2] + 1 < s + 1
               PROVE  FALSE
    BY <1>1 DEF Skips
  <2>1. s # 0
    BY DEF Through
  <2>2. <<boot, s>> \in K
    BY <2>1 DEF Through
  <2>3. s + 1 < s + 1
    BY <2>2
  <2> QED
    BY <2>3
<1> HIDE DEF e, K
<1>4. Counting([known |-> K, gaps |-> gaps], e) = [known |-> K \cup {<<boot, s + 1>>}, gaps |-> gaps]
  BY <1>1, <1>3 DEF Counting
<1> QED
  BY <1>2, <1>4 DEF e, K

LEMMA CountPair ==
  ASSUME NEW boot \in Nat, NEW s \in Nat \ {0}, NEW gaps
  PROVE  Counting(Counting([known |-> Through(boot, s), gaps |-> gaps], Telemetry(boot, s + 2)),
                  Telemetry(boot, s + 1))
           = [known |-> Through(boot, s + 2), gaps |-> gaps \cup {<<boot, s + 2>>}]
<1> DEFINE d == Telemetry(boot, s + 2)
           e == Telemetry(boot, s + 1)
           K == Through(boot, s)
           L == K \cup {<<boot, s + 2>>}
           more == gaps \cup {<<boot, s + 2>>}
<1>1. /\ d.kind = "telemetry" /\ d.boot = boot /\ d.seq = s + 2
      /\ e.kind = "telemetry" /\ e.boot = boot /\ e.seq = s + 1
  BY DEF Telemetry, Message
<1>2. Skips(K, d)
  <2>1. <<boot, s>> \in K
    BY DEF Through
  <2>2. \A r \in K : r[2] \in 1 .. s /\ r[2] + 1 < s + 2
    BY DEF Through
  <2> HIDE DEF K, d
  <2> QED
    BY <1>1, <2>1, <2>2 DEF Skips
<1>3. ~Skips(L, e)
  <2>1. <<boot, s + 2>> \in L
    OBVIOUS
  <2>2. ~(s + 2 + 1 < s + 1)
    OBVIOUS
  <2> HIDE DEF L, e
  <2> QED
    BY <1>1, <2>1, <2>2 DEF Skips
<1>4. L \cup {<<boot, s + 1>>} = Through(boot, s + 2)
  <2>1. \A x : x \in 1 .. s + 2 <=> x \in 1 .. s \/ x = s + 1 \/ x = s + 2
    OBVIOUS
  <2> QED
    BY <2>1 DEF Through
<1> HIDE DEF d, e, K
<1>5. Counting([known |-> K, gaps |-> gaps], d) = [known |-> L, gaps |-> more]
  BY <1>1, <1>2 DEF Counting
<1> HIDE DEF L, more
<1>6. Counting([known |-> L, gaps |-> more], e) = [known |-> L \cup {<<boot, s + 1>>}, gaps |-> more]
  BY <1>1, <1>3 DEF Counting
<1> QED
  BY <1>4, <1>5, <1>6 DEF d, e, K, more

\* The fourth reading of each round of four.
Fourths(boot, m) == {<<boot, 4 * j>> : j \in 1 .. m}

\* A list of n indices, every third a pair, and what is counted of it.
Paired(boot, n) ==
    {l \in Seq(Plannable) : /\ Len(l) = n + n \div 3
                            /\ Sum(l) = [known |-> Through(boot, n + n \div 3), gaps |-> Fourths(boot, n \div 3)]}

LEMMA PairedFirst ==
  ASSUME NEW boot \in Nat
  PROVE  <<Telemetry(boot, 1)>> \in Paired(boot, 1)
<1> DEFINE e == Telemetry(boot, 1)
           g == <<e>>
<1>1. e \in Plannable
  BY DEF Telemetry, Message, Plannable, Kinds
<1>2. g = Append(<<>>, e) /\ <<>> \in Seq(Plannable) /\ g \in Seq(Plannable) /\ Len(g) = 1
  BY <1>1
<1>3. Sum(g) = Counting(Sum(<<>>), e)
  <2> HIDE DEF e
  <2> QED
    BY <1>1, <1>2, TallyAppend
<1>4. Counting([known |-> Through(boot, 0), gaps |-> {}], Telemetry(boot, 0 + 1))
        = [known |-> Through(boot, 0 + 1), gaps |-> {}]
  BY CountNext
<1>5. Through(boot, 0) = {} /\ Fourths(boot, 0) = {}
  BY DEF Through, Fourths
<1>6. 0 + 1 = 1 /\ 1 \div 3 = 0 /\ 1 + 1 \div 3 = 1
  OBVIOUS
<1>7. Sum(g) = [known |-> Through(boot, 1), gaps |-> {}]
  BY <1>3, <1>4, <1>5, <1>6, NothingCounted
<1> HIDE DEF g
<1>8. g \in Paired(boot, 1)
  BY <1>2, <1>5, <1>6, <1>7 DEF Paired
<1> QED
  BY <1>8 DEF g

LEMMA PairedNext ==
  ASSUME NEW boot \in Nat, NEW k \in Nat, k > 1, NEW l \in Paired(boot, k - 1)
  PROVE  LET s == k + (k - 1) \div 3
         IN  /\ k % 3 # 0 => Append(l, Telemetry(boot, s)) \in Paired(boot, k)
             /\ k % 3 = 0 => Append(Append(l, Telemetry(boot, s + 1)), Telemetry(boot, s)) \in Paired(boot, k)
<1> DEFINE h == k - 1 + (k - 1) \div 3
           q == (k - 1) \div 3
<1>1. /\ l \in Seq(Plannable) /\ Len(l) = h
      /\ Sum(l) = [known |-> Through(boot, h), gaps |-> Fourths(boot, q)]
  BY DEF Paired
<1>2. /\ h \in Nat \ {0} /\ q \in Nat /\ k + (k - 1) \div 3 = h + 1
      /\ k % 3 # 0 => k \div 3 = q /\ k + k \div 3 = h + 1
      /\ k % 3 = 0 => k \div 3 = q + 1 /\ k + k \div 3 = h + 2 /\ h + 2 = 4 * (q + 1)
  <2> PICK c \in Int, r \in 0 .. 2 : k = 3 * c + r
    <3>1. k \div 3 \in Int /\ k % 3 \in 0 .. 2
      OBVIOUS
    <3>2. k = (3 * (k \div 3)) + (k % 3)
      OBVIOUS
    <3> QED
      BY <3>1, <3>2
  <2> QED
    OBVIOUS
<1>3. \A x \in Int : Telemetry(boot, x) \in Plannable
  BY DEF Telemetry, Message, Plannable, Kinds
<1> HIDE DEF h, q
<1>4. ASSUME k % 3 # 0 PROVE Append(l, Telemetry(boot, h + 1)) \in Paired(boot, k)
  <2> DEFINE e == Telemetry(boot, h + 1)
             g == Append(l, e)
  <2>1. e \in Plannable
    BY <1>2, <1>3
  <2>2. Counting(Sum(l), e) = [known |-> Through(boot, h + 1), gaps |-> Fourths(boot, q)]
    BY <1>1, <1>2, CountNext
  <2> HIDE DEF e
  <2>3. g \in Seq(Plannable) /\ Len(g) = h + 1 /\ Sum(g) = Counting(Sum(l), e)
    BY <1>1, <2>1, AppendProperties, TallyAppend
  <2> HIDE DEF g
  <2>4. g \in Paired(boot, k)
    BY <1>2, <1>4, <2>2, <2>3 DEF Paired
  <2> QED
    BY <2>4 DEF g, e
<1>5. ASSUME k % 3 = 0
      PROVE  Append(Append(l, Telemetry(boot, h + 2)), Telemetry(boot, h + 1)) \in Paired(boot, k)
  <2> DEFINE d == Telemetry(boot, h + 2)
             e == Telemetry(boot, h + 1)
             a == Append(l, d)
             g == Append(a, e)
  <2>1. d \in Plannable /\ e \in Plannable
    BY <1>2, <1>3
  <2>2. Counting(Counting(Sum(l), d), e)
          = [known |-> Through(boot, h + 2), gaps |-> Fourths(boot, q) \cup {<<boot, h + 2>>}]
    BY <1>1, <1>2, CountPair
  <2> HIDE DEF d, e
  <2>3. a \in Seq(Plannable) /\ Len(a) = h + 1 /\ Sum(a) = Counting(Sum(l), d)
    BY <1>1, <2>1, AppendProperties, TallyAppend
  <2> HIDE DEF a
  <2>4. g \in Seq(Plannable) /\ Len(g) = h + 1 + 1 /\ Sum(g) = Counting(Sum(a), e)
    BY <2>1, <2>3, AppendProperties, TallyAppend
  <2>5. h + 1 + 1 = h + 2
    BY <1>2
  <2>6. Fourths(boot, q) \cup {<<boot, h + 2>>} = Fourths(boot, q + 1)
    <3>1. \A x : x \in 1 .. q + 1 <=> x \in 1 .. q \/ x = q + 1
      BY <1>2
    <3>2. h + 2 = 4 * (q + 1)
      BY <1>2, <1>5
    <3> QED
      BY <3>1, <3>2 DEF Fourths
  <2> HIDE DEF g
  <2>7. g \in Paired(boot, k)
    BY <1>2, <1>5, <2>2, <2>3, <2>4, <2>5, <2>6 DEF Paired
  <2> QED
    BY <2>7 DEF g, a, d, e
<1>6. h + 1 + 1 = h + 2
  BY <1>2
<1> QED
  BY <1>2, <1>4, <1>5, <1>6

\* At the end of the scenario a gap has been counted for every third index.
LEMMA OutOfOrderPaired ==
  ASSUME NEW boot \in Nat, NEW n \in Nat \ {0}
  PROVE  OutOfOrder(boot, n) \in Paired(boot, n)
<1> DEFINE seq(i) == FirstSeq + (i - 1) + (i - 1) \div 3
           parts == [i \in 1 .. n |->
                       IF i % 3 = 0 THEN <<Telemetry(boot, seq(i) + 1), Telemetry(boot, seq(i))>>
                                    ELSE <<Telemetry(boot, seq(i))>>]
           G == [k \in 1 .. n |-> Paired(boot, k)]
<1>1. ASSUME NEW i \in 1 .. n
      PROVE  seq(i) = i + (i - 1) \div 3 /\ seq(i) \in Int /\ seq(i) + 1 \in Int
  BY DEF FirstSeq
<1> HIDE DEF seq
<1>2. \A x \in Int : Telemetry(boot, x) \in Plannable
  BY DEF Telemetry, Message, Plannable, Kinds
<1>3. \A i \in 1 .. n : /\ i % 3 = 0 => parts[i] = <<Telemetry(boot, seq(i) + 1), Telemetry(boot, seq(i))>>
                        /\ i % 3 # 0 => parts[i] = <<Telemetry(boot, seq(i))>>
  OBVIOUS
<1>4. parts \in Seq(Seq(Plannable)) /\ Len(parts) = n
  <2>1. \A i \in 1 .. n : parts[i] \in Seq(Plannable)
    <3> SUFFICES ASSUME NEW i \in 1 .. n PROVE parts[i] \in Seq(Plannable)
      OBVIOUS
    <3>1. Telemetry(boot, seq(i)) \in Plannable /\ Telemetry(boot, seq(i) + 1) \in Plannable
      BY <1>1, <1>2
    <3>2. /\ <<Telemetry(boot, seq(i))>> \in Seq(Plannable)
          /\ <<Telemetry(boot, seq(i) + 1), Telemetry(boot, seq(i))>> \in Seq(Plannable)
      BY <3>1
    <3> HIDE DEF parts
    <3> QED
      BY <1>3, <3>2
  <2>2. parts = [i \in 1 .. n |-> parts[i]] /\ n \in Nat
    OBVIOUS
  <2> HIDE DEF parts
  <2>3. parts \in [1 .. n -> Seq(Plannable)]
    BY <2>1, <2>2
  <2>4. parts \in Seq(Seq(Plannable))
    BY <2>2, <2>3, SeqDef
  <2> QED
    BY <2>2, <2>3, <2>4, LenProperties
<1>5. OutOfOrder(boot, n) = FlattenSeq(parts)
  BY DEF OutOfOrder, seq
<1>6. parts[1] \in G[1]
  <2>1. 1 \in 1 .. n /\ 1 % 3 # 0 /\ 1 + (1 - 1) \div 3 = 1
    OBVIOUS
  <2>2. parts[1] = <<Telemetry(boot, 1)>> /\ G[1] = Paired(boot, 1)
    BY <1>1, <1>3, <2>1
  <2> HIDE DEF parts, G
  <2> QED
    BY <2>2, PairedFirst
<1>7. ASSUME NEW k \in 2 .. n, NEW v \in G[k - 1] PROVE v \o parts[k] \in G[k]
  <2>1. k - 1 \in 1 .. n /\ k \in 1 .. n /\ k \in Nat /\ k > 1
    OBVIOUS
  <2>2. G[k - 1] = Paired(boot, k - 1) /\ G[k] = Paired(boot, k)
    BY <2>1
  <2> HIDE DEF G, parts
  <2> DEFINE e == Telemetry(boot, seq(k))
             d == Telemetry(boot, seq(k) + 1)
  <2>3. seq(k) = k + (k - 1) \div 3 /\ d \in Plannable /\ e \in Plannable
    BY <1>1, <1>2, <2>1
  <2>4. v \in Seq(Plannable)
    BY <2>2 DEF Paired
  <2>5. /\ k % 3 # 0 => Append(v, e) \in Paired(boot, k)
        /\ k % 3 = 0 => Append(Append(v, d), e) \in Paired(boot, k)
    BY <2>1, <2>2, <2>3, PairedNext
  <2>6. /\ k % 3 = 0 => parts[k] = <<d, e>>
        /\ k % 3 # 0 => parts[k] = <<e>>
    BY <1>3, <2>1
  <2> HIDE DEF d, e
  <2>7. v \o <<e>> = Append(v, e) /\ v \o <<d, e>> = Append(Append(v, d), e)
    BY <2>3, <2>4, ConcatOne
  <2> QED
    BY <2>2, <2>5, <2>6, <2>7
<1>8. FlattenSeq(parts) \in G[n]
  <2> HIDE DEF parts, G
  <2> QED
    BY <1>4, <1>6, <1>7, FlattenLed
<1>9. G[n] = Paired(boot, n)
  OBVIOUS
<1> HIDE DEF parts, G
<1> QED
  BY <1>5, <1>8, <1>9

-------------------------------------------------------------------------------
(* The gap a run is made to have *)

\* What the n-th sample of a run with a gap is numbered.
Jumped(n, i) == i + IF i - 1 > n \div 2 THEN 4 ELSE 0

\* Four more from behind the middle on, if there are that many.
LEMMA JumpedOnce ==
  ASSUME NEW n \in Nat \ {0}
  PROVE  /\ n \div 2 \in Nat /\ (n \div 2 + 2 <= n <=> n >= 3)
         /\ \A i \in 1 .. n : /\ Jumped(n, i) \in Int
                              /\ i < n \div 2 + 2 => Jumped(n, i) = i
                              /\ i >= n \div 2 + 2 => Jumped(n, i) = i + 4
BY DEF Jumped

Reads(m, boot, seq) == m.kind = "telemetry" /\ m.boot = boot /\ m.seq = seq

\* The jump, behind a run of m readings of the same boot.
Jumping(l, boot, m, n) ==
    /\ l \in Seq(Plannable) /\ Len(l) = m + n
    /\ \A i \in 1 .. m : Reads(l[i], boot, i)
    /\ \A i \in 1 .. n : Reads(l[m + i], boot, Jumped(n, i))

\* When a reading is counted, and when it is not.
LEMMA SameBootReads ==
  ASSUME NEW l, NEW boot, NEW i, NEW s, Reads(l[i], boot, s)
  PROVE  SameBoot(l, i) = {j \in 1 .. i - 1 : l[j].kind = "telemetry" /\ l[j].boot = boot}
BY DEF SameBoot, Reads

LEMMA AheadLater ==
  ASSUME NEW l, NEW i \in Nat \ {0}, Ahead(l, i)
  PROVE  i > 1
<1>1. i = 1 => SameBoot(l, i) = {}
  BY DEF SameBoot
<1> QED
  BY <1>1 DEF Ahead

LEMMA AheadOf ==
  ASSUME NEW l, NEW boot, NEW i, NEW s, Reads(l[i], boot, s), Ahead(l, i),
         NEW j \in 1 .. i - 1, NEW r, Reads(l[j], boot, r)
  PROVE  r + 1 < s
<1>1. j \in SameBoot(l, i) /\ l[j].seq = r /\ l[i].seq = s
  BY SameBootReads DEF Reads
<1> QED
  BY <1>1 DEF Ahead

LEMMA AheadOfAll ==
  ASSUME NEW l, NEW boot, NEW i \in Nat, i > 1, NEW s, Reads(l[i], boot, s)
  PROVE  (\A j \in 1 .. i - 1 : \E r : Reads(l[j], boot, r) /\ r + 1 < s) => Ahead(l, i)
<1>1. SameBoot(l, i) = {j \in 1 .. i - 1 : l[j].kind = "telemetry" /\ l[j].boot = boot}
  BY DEF SameBoot, Reads
<1> SUFFICES ASSUME \A j \in 1 .. i - 1 : \E r : Reads(l[j], boot, r) /\ r + 1 < s PROVE Ahead(l, i)
  OBVIOUS
<1>2. \A j \in 1 .. i - 1 : l[j].kind = "telemetry" /\ l[j].boot = boot /\ l[j].seq + 1 < s
  BY DEF Reads
<1>3. 1 \in 1 .. i - 1
  OBVIOUS
<1>4. SameBoot(l, i) # {} /\ \A j \in SameBoot(l, i) : j \in 1 .. i - 1
  BY <1>1, <1>2, <1>3
<1>5. l[i].kind = "telemetry" /\ l[i].seq = s
  BY DEF Reads
<1>6. \A j \in SameBoot(l, i) : l[j].seq + 1 < l[i].seq
  BY <1>2, <1>4, <1>5
<1> QED
  BY <1>4, <1>5, <1>6 DEF Ahead

\* It shows if it comes before the end and clears the readings before it.
LEMMA JumpCounted ==
  ASSUME NEW boot \in Nat, NEW n \in Nat \ {0}, NEW m \in Nat, NEW l, Jumping(l, boot, m, n)
  PROVE  Skipping(l) = IF n >= 3 /\ m < n \div 2 + 5 THEN {<<boot, n \div 2 + 6>>} ELSE {}
<1> DEFINE h == n \div 2
           f(i) == Jumped(n, i)
           shows == n >= 3 /\ m < h + 5
<1>1. /\ h \in Nat /\ (h + 2 <= n <=> n >= 3)
      /\ \A i \in 1 .. n : /\ f(i) \in Int /\ (i < h + 2 => f(i) = i) /\ (i >= h + 2 => f(i) = i + 4)
  BY JumpedOnce
<1> HIDE DEF f
<1>2. /\ l \in Seq(Plannable) /\ Len(l) = m + n
      /\ \A i \in 1 .. m : Reads(l[i], boot, i)
      /\ \A i \in 1 .. n : Reads(l[m + i], boot, f(i))
  BY DEF Jumping, f
<1> HIDE DEF h
<1>3. ASSUME NEW i \in 1 .. m PROVE ~Ahead(l, i)
  <2> SUFFICES ASSUME Ahead(l, i) PROVE FALSE
    OBVIOUS
  <2>1. Reads(l[i], boot, i)
    BY <1>2
  <2>2. i > 1
    BY AheadLater
  <2>3. i - 1 \in 1 .. m /\ i - 1 \in 1 .. i - 1
    BY <2>2
  <2>4. Reads(l[i - 1], boot, i - 1)
    BY <1>2, <2>3
  <2>5. i - 1 + 1 < i
    BY <2>1, <2>3, <2>4, AheadOf
  <2> QED
    BY <2>5
<1>4. ASSUME NEW k \in 1 .. n, Ahead(l, m + k) PROVE k = h + 2 /\ shows
  <2>1. m + k \in Int /\ k \in Int /\ m + k >= 1
    OBVIOUS
  <2>2. Reads(l[m + k], boot, f(k))
    BY <1>2
  <2>3. m + k > 1
    <3>1. m + k \in Nat \ {0}
      OBVIOUS
    <3> QED
      BY <1>4, <3>1, AheadLater
  <2>4. ASSUME NEW j \in 1 .. m + k - 1, NEW r, Reads(l[j], boot, r) PROVE r + 1 < f(k)
    <3>1. j \in 1 .. (m + k) - 1
      OBVIOUS
    <3> QED
      BY <1>4, <2>2, <2>4, <3>1, AheadOf
  <2>5. m > 0 => m + 1 < f(k)
    <3> SUFFICES ASSUME m > 0 PROVE m + 1 < f(k)
      OBVIOUS
    <3>1. m \in 1 .. m /\ m \in 1 .. m + k - 1
      OBVIOUS
    <3>2. Reads(l[m], boot, m)
      BY <1>2, <3>1
    <3> QED
      BY <2>4, <3>1, <3>2
  <2>6. k > 1 => f(k - 1) + 1 < f(k)
    <3> SUFFICES ASSUME k > 1 PROVE f(k - 1) + 1 < f(k)
      OBVIOUS
    <3>1. k - 1 \in 1 .. n /\ m + (k - 1) \in 1 .. m + k - 1
      OBVIOUS
    <3>2. Reads(l[m + (k - 1)], boot, f(k - 1))
      BY <1>2, <3>1
    <3> QED
      BY <2>4, <3>1, <3>2
  <2>7. k > 1
    <3>1. k = 1 => f(k) = 1
      BY <1>1
    <3> QED
      BY <2>3, <2>5, <3>1
  <2>8. k = h + 2
    <3>1. k < h + 2 => f(k) = k
      BY <1>1
    <3>2. k - 1 \in 1 .. n /\ (k - 1 < h + 2 => f(k - 1) = k - 1)
          /\ (k - 1 >= h + 2 => f(k - 1) = k - 1 + 4)
      <4>1. k - 1 \in 1 .. n
        BY <2>7
      <4> QED
        BY <1>1, <4>1
    <3>3. k >= h + 2 => f(k) = k + 4
      BY <1>1
    <3> QED
      BY <1>1, <2>1, <2>6, <2>7, <3>1, <3>2, <3>3
  <2>9. n >= 3 /\ f(k) = h + 6
    <3>1. f(k) = k + 4
      BY <1>1, <2>8
    <3> QED
      BY <1>1, <2>8, <3>1
  <2> QED
    BY <1>1, <2>5, <2>8, <2>9
<1>5. ASSUME shows PROVE h + 2 \in 1 .. n /\ Ahead(l, m + (h + 2)) /\ Reads(l[m + (h + 2)], boot, h + 6)
  <2> DEFINE k == h + 2
             i == m + k
  <2>1. k \in 1 .. n /\ f(k) = h + 6 /\ i \in Nat /\ i > 1
    <3>1. k \in 1 .. n /\ k >= h + 2 /\ i \in Nat /\ i > 1
      BY <1>1, <1>5
    <3>2. f(k) = k + 4
      BY <1>1, <3>1
    <3> QED
      BY <1>1, <3>1, <3>2
  <2>2. Reads(l[i], boot, h + 6)
    BY <1>2, <2>1
  <2>3. ASSUME NEW j \in 1 .. i - 1 PROVE \E r : Reads(l[j], boot, r) /\ r + 1 < h + 6
    <3>1. CASE j <= m
      <4>1. j \in 1 .. m /\ j + 1 < h + 6
        BY <1>1, <1>5, <3>1
      <4> QED
        BY <1>2, <4>1
    <3>2. CASE ~(j <= m)
      <4>1. j - m \in 1 .. n /\ j = m + (j - m) /\ j - m < h + 2
        BY <1>1, <2>1, <3>2
      <4>2. f(j - m) = j - m /\ j - m + 1 < h + 6
        BY <1>1, <4>1
      <4>3. Reads(l[j], boot, j - m)
        BY <1>2, <4>1, <4>2
      <4> QED
        BY <4>2, <4>3
    <3> QED
      BY <3>1, <3>2
  <2> HIDE DEF i
  <2>4. Ahead(l, i)
    BY <2>1, <2>2, <2>3, AheadOfAll
  <2> QED
    BY <2>1, <2>2, <2>4 DEF i
<1>6. \A i \in 1 .. m + n : i \in 1 .. m \/ (i - m \in 1 .. n /\ i = m + (i - m))
  OBVIOUS
<1>7. Skipped(l, m + n) = IF shows THEN {<<boot, h + 6>>} ELSE {}
  <2>1. \A i \in 1 .. m + n : Ahead(l, i) => i = m + (h + 2) /\ shows
    BY <1>3, <1>4, <1>6
  <2>2. CASE ~shows
    BY <2>1, <2>2 DEF Skipped
  <2>3. CASE shows
    <3> DEFINE i == m + (h + 2)
    <3>1. i \in 1 .. m + n
      BY <1>1, <1>5, <2>3
    <3>2. Ahead(l, i) /\ l[i].boot = boot /\ l[i].seq = h + 6
      BY <1>5, <2>3 DEF Reads
    <3> HIDE DEF i
    <3>3. {k \in 1 .. m + n : Ahead(l, k)} = {i}
      BY <2>1, <3>1, <3>2 DEF i
    <3>4. Skipped(l, m + n) = {<<l[i].boot, l[i].seq>>}
      BY <3>3 DEF Skipped
    <3> QED
      BY <2>3, <3>2, <3>4
  <2> QED
    BY <2>2, <2>3
<1>8. Skipping(l) = Skipped(l, m + n)
  BY <1>2, GapsCounted DEF Sum, Tally
<1> QED
  BY <1>7, <1>8 DEF h

\* What the scenario makes.
LEMMA GapElements ==
  ASSUME NEW boot \in Nat, NEW n \in Nat
  PROVE  /\ WithGap(boot, n) \in Seq(Plannable) /\ Len(WithGap(boot, n)) = n
         /\ \A i \in 1 .. n : Reads(WithGap(boot, n)[i], boot, Jumped(n, i))
<1> DEFINE g == WithGap(boot, n)
<1>1. g \in Seq(Plannable)
  <2>1. Plain(boot) \subseteq Plannable
    BY DEF Plain
  <2> QED
    BY <2>1, WithGapPlain, SeqMonotonic
<1>2. g = [i \in 1 .. n |-> Telemetry(boot, FirstSeq + i - 1 + IF i - 1 > n \div 2 THEN 4 ELSE 0)]
  BY DEF WithGap
<1>3. \A i \in 1 .. n : FirstSeq + i - 1 + (IF i - 1 > n \div 2 THEN 4 ELSE 0) = Jumped(n, i)
  BY DEF FirstSeq, Jumped
<1>4. DOMAIN g = 1 .. n /\ \A i \in 1 .. n : g[i] = Telemetry(boot, Jumped(n, i))
  BY <1>2, <1>3
<1> HIDE DEF g
<1>5. \A i \in 1 .. n : Reads(g[i], boot, Jumped(n, i))
  BY <1>4 DEF Reads, Telemetry, Message
<1>6. Len(g) = n
  BY <1>1, <1>4, LenProperties
<1> QED
  BY <1>1, <1>5, <1>6 DEF g

\* Alone, and behind a normal run of as many.
LEMMA GapJumps ==
  ASSUME NEW boot \in Nat, NEW n \in Nat \ {0}
  PROVE  /\ Jumping(WithGap(boot, n), boot, 0, n)
         /\ Jumping(Run(boot, FirstSeq, n) \o WithGap(boot, n), boot, n, n)
<1> DEFINE a == Run(boot, FirstSeq, n)
           b == WithGap(boot, n)
           g == a \o b
<1>1. b \in Seq(Plannable) /\ Len(b) = n /\ \A i \in 1 .. n : Reads(b[i], boot, Jumped(n, i))
  BY GapElements
<1>2. a \in Seq(Plannable) /\ Len(a) = n /\ \A i \in 1 .. n : Reads(a[i], boot, i)
  <2>1. FirstSeq = 1 /\ \A i \in 1 .. n : FirstSeq + i - 1 = i
    BY DEF FirstSeq
  <2>2. /\ a \in Seq(Plannable) /\ Len(a) = n
        /\ \A i \in 1 .. n : a[i] = Telemetry(boot, FirstSeq + i - 1)
    <3>1. FirstSeq \in Int /\ n \in Nat
      BY <2>1
    <3> HIDE DEF a
    <3> QED
      BY <3>1, RunSteady DEF a
  <2> HIDE DEF a
  <2>3. \A i \in 1 .. n : a[i] = Telemetry(boot, i)
    BY <2>1, <2>2
  <2> QED
    BY <2>2, <2>3 DEF Reads, Telemetry, Message
<1> HIDE DEF a, b
<1>3. g \in Seq(Plannable) /\ Len(g) = n + n
      /\ \A i \in 1 .. n + n : g[i] = IF i <= n THEN a[i] ELSE b[i - n]
  <2>1. n \in Nat
    OBVIOUS
  <2>2. /\ g \in Seq(Plannable) /\ Len(g) = Len(a) + Len(b)
        /\ \A i \in 1 .. Len(a) + Len(b) : g[i] = IF i <= Len(a) THEN a[i] ELSE b[i - Len(a)]
    BY <1>1, <1>2, ConcatProperties
  <2> HIDE DEF g
  <2> QED
    BY <1>1, <1>2, <2>2
<1> HIDE DEF g
<1>4. ASSUME NEW i \in 1 .. n PROVE Reads(g[i], boot, i)
  <2>1. i \in 1 .. n + n /\ i <= n
    OBVIOUS
  <2> QED
    BY <1>2, <1>3, <2>1
<1>5. ASSUME NEW i \in 1 .. n PROVE Reads(g[n + i], boot, Jumped(n, i))
  <2>1. n + i \in 1 .. n + n /\ ~(n + i <= n) /\ n + i - n = i
    OBVIOUS
  <2>2. g[n + i] = b[i]
    BY <1>3, <2>1
  <2> QED
    BY <1>1, <2>2
<1>6. Jumping(b, boot, 0, n)
  <2>1. 0 + n = n /\ 1 .. 0 = {} /\ \A i \in 1 .. n : 0 + i = i
    OBVIOUS
  <2> QED
    BY <1>1, <2>1 DEF Jumping
<1>7. Jumping(g, boot, n, n)
  BY <1>3, <1>4, <1>5 DEF Jumping
<1> QED
  BY <1>6, <1>7 DEF a, b, g

-------------------------------------------------------------------------------
(* What is counted of each command line *)

\* The first scenario of a command line.
LEMMA ContinuedBegun ==
  ASSUME NEW names, NEW n, NEW name, NEW u, NEW w, names[1] = name,
         u = Begun, w = Continued(names, n, 1, u)
  PROVE  /\ w.messages = <<>> \o Truncated(Scenario(name, FirstBoot, n))
         /\ w.boot = BootAfter(name, FirstBoot)
<1>1. u.messages = <<>> /\ u.boot = FirstBoot
  BY DEF Begun
<1>2. w.messages = u.messages \o Truncated(Scenario(names[1], u.boot, n))
  BY DEF Continued
<1>3. w.boot = BootAfter(names[1], u.boot)
  BY DEF Continued
<1> QED
  BY <1>1, <1>2, <1>3

Starting(names, n, upTo) == upTo[0] = Begun /\ upTo[1] = Continued(names, n, 1, upTo[0])

Started(name, n, upTo) ==
    /\ upTo[1].messages = <<>> \o Truncated(Scenario(name, FirstBoot, n))
    /\ upTo[1].boot = BootAfter(name, FirstBoot)

LEMMA StartedFirst ==
  ASSUME NEW names, NEW n, NEW name, NEW upTo, names[1] = name, Starting(names, n, upTo)
  PROVE  Started(name, n, upTo)
BY ContinuedBegun DEF Starting, Started

\* A scenario alone, and a run with a gap behind a normal one.
LEMMA MessagesOfOne ==
  ASSUME NEW names \in Seq(STRING), NEW name, Len(names) = 1, names[1] = name, NEW n \in Nat \ {0},
         Scenario(name, FirstBoot, n) \in Seq(Plannable)
  PROVE  Messages(names, n) = Truncated(Truncated(Scenario(name, FirstBoot, n)))
<1> DEFINE t == Scenario(name, FirstBoot, n)
<1>1. Len(names) = 1 /\ names[1] = name
  OBVIOUS
<1>2. PICK upTo : /\ Messages(names, n) = Truncated(upTo[Len(names)].messages)
                  /\ \A k \in 0 .. Len(names) :
                        upTo[k] = IF k = 0 THEN Begun ELSE Continued(names, n, k, upTo[k - 1])
  BY <1>1, MessagesMade
<1>3. upTo[0] = Begun /\ upTo[1] = Continued(names, n, 1, upTo[0])
  BY <1>1, <1>2
<1>4. upTo[1].messages = <<>> \o Truncated(t)
  <2>1. Starting(names, n, upTo)
    BY <1>3 DEF Starting
  <2>2. Started(name, n, upTo)
    BY <1>1, <2>1, StartedFirst
  <2> QED
    BY <2>2 DEF Started
<1> HIDE DEF t
<1>5. Truncated(t) \in Seq(Plannable)
  <2>1. SubSeq(t, 1, Cap) \in Seq(Plannable) \/ ~(Len(t) > Cap)
    <3> SUFFICES ASSUME Len(t) > Cap PROVE SubSeq(t, 1, Cap) \in Seq(Plannable)
      OBVIOUS
    <3>1. t \in Seq(Plannable) /\ Len(t) \in Nat /\ Cap \in Nat
      BY LenProperties, PublisherAssumption DEF t
    <3>2. \A i \in 1 .. Cap : t[i] \in Plannable
      BY <3>1, ElementOfSeq
    <3> QED
      BY <3>1, <3>2, SubSeqProperties
  <2> QED
    BY <2>1 DEF Truncated, t
<1>6. <<>> \o Truncated(t) = Truncated(t)
  BY <1>5, ConcatEmptySeq
<1> QED
  BY <1>1, <1>2, <1>4, <1>6 DEF t

LEMMA MessagesOfGap ==
  ASSUME NEW names \in Seq(STRING), names = <<"normal", "gap">>, NEW n \in Nat \ {0}, 2 * n <= Cap
  PROVE  Messages(names, n) = Run(FirstBoot, FirstSeq, n) \o WithGap(FirstBoot, n)
<1> DEFINE a == Run(FirstBoot, FirstSeq, n)
           b == WithGap(FirstBoot, n)
<1>1. Len(names) = 2 /\ names[1] = "normal" /\ names[2] = "gap"
  OBVIOUS
<1>2. PICK upTo : /\ Messages(names, n) = Truncated(upTo[Len(names)].messages)
                  /\ \A k \in 0 .. Len(names) :
                        upTo[k] = IF k = 0 THEN Begun ELSE Continued(names, n, k, upTo[k - 1])
  BY <1>1, MessagesMade
<1>3. upTo[0] = Begun /\ upTo[1] = Continued(names, n, 1, upTo[0])
      /\ upTo[2] = Continued(names, n, 2, upTo[1])
  BY <1>1, <1>2
<1>4. /\ upTo[1].messages = <<>> \o Truncated(a) /\ upTo[1].boot = FirstBoot
      /\ upTo[2].messages = upTo[1].messages \o Truncated(b)
  <2>1. Scenario("normal", FirstBoot, n) = a /\ Scenario("gap", FirstBoot, n) = b
        /\ BootAfter("normal", FirstBoot) = FirstBoot
    BY DEF Scenario, BootAfter
  <2> HIDE DEF a, b
  <2>2. upTo[1].messages = <<>> \o Truncated(a) /\ upTo[1].boot = FirstBoot
    <3>1. Starting(names, n, upTo)
      BY <1>3 DEF Starting
    <3>2. Started("normal", n, upTo)
      BY <1>1, <3>1, StartedFirst
    <3> QED
      BY <2>1, <3>2 DEF Started
  <2>3. upTo[2].messages = upTo[1].messages \o Truncated(b)
    <3>1. upTo[2].messages = upTo[1].messages \o Truncated(Scenario("gap", FirstBoot, n))
      BY <1>1, <1>3, <2>2, ContinuedBy
    <3> QED
      BY <2>1, <3>1
  <2> QED
    BY <2>2, <2>3
<1>5. a \in Seq(Plannable) /\ Len(a) = n /\ b \in Seq(Plannable) /\ Len(b) = n
  <2>1. FirstBoot \in Nat /\ FirstSeq \in Int /\ n \in Nat
    BY DEF FirstBoot, FirstSeq
  <2>2. a \in Seq(Plannable) /\ Len(a) = n
    BY <2>1, RunSteady
  <2>3. b \in Seq(Plannable) /\ Len(b) = n
    BY <2>1, GapElements
  <2> HIDE DEF a, b
  <2> QED
    BY <2>2, <2>3
<1>6. n \in Nat /\ Cap \in Nat /\ n <= Cap /\ n + n <= Cap
  BY PublisherAssumption
<1> HIDE DEF a, b
<1>7. Truncated(a) = a /\ Truncated(b) = b
  BY <1>5, <1>6 DEF Truncated
<1>8. <<>> \o a = a
  BY <1>5, ConcatEmptySeq
<1>9. Len(a \o b) = n + n
  BY <1>5, ConcatProperties
<1>10. Truncated(a \o b) = a \o b
  BY <1>6, <1>9 DEF Truncated
<1> QED
  BY <1>1, <1>2, <1>4, <1>7, <1>8, <1>10 DEF a, b

\* As many as there are rounds.
LEMMA FourthsCounted ==
  ASSUME NEW boot, NEW m \in Nat
  PROVE  Cardinality(Fourths(boot, m)) = m
<1> DEFINE f == [j \in 1 .. m |-> <<boot, 4 * j>>]
           S == Fourths(boot, m)
<1>1. IsFiniteSet(1 .. m) /\ Cardinality(1 .. m) = m
  BY FS_Interval
<1>2. f \in Bijection(1 .. m, S)
  <2>1. f \in [1 .. m -> S]
    BY DEF Fourths
  <2>2. \A i, j \in 1 .. m : f[i] = f[j] => i = j
    OBVIOUS
  <2>3. \A s \in S : \E j \in 1 .. m : f[j] = s
    BY DEF Fourths
  <2> HIDE DEF f, S
  <2> QED
    BY <2>1, <2>2, <2>3 DEF Bijection, Injection, Surjection, IsInjective
<1>3. Cardinality(S) = Cardinality(1 .. m)
  <2> HIDE DEF f, S
  <2> QED
    BY <1>1, <1>2, FS_Bijection DEF ExistsBijection
<1> QED
  BY <1>1, <1>3

\* A command line that is made into a plan sends at least one of each.
PlannedInv ==
    /\ rc # Running => pc = "done"
    /\ invoked \in Invocations
    /\ plan # <<>> => invoked.count >= 1

\* It holds at first, and from each step to the next.
LEMMA PlannedStarts ==
    ASSUME PublisherInit
    PROVE  PlannedInv
BY PublisherAssumption DEF PublisherInit, PlannedInv

LEMMA PlannedKept ==
    ASSUME PlannedInv, [PublisherNext]_publisherVars
    PROVE  PlannedInv'
<1>1. invoked' = invoked /\ plan' = plan
  BY DEF publisherVars, PublisherNext, Refuse, Connect, StartLoop, Send, SendUnconfirmed, PublishRaises,
         DropConnection, StopLoop, SetWill, Reconnect, RestartLoop, Reconnected, NextSession, Finish,
         Interrupt, Abort, Goodbye, GoodbyeUnconfirmed, LinkLost, run
<1>2. rc' # Running => pc' = "done"
  <2>1. CASE UNCHANGED <<pc, rc>>
    BY <2>1 DEF PlannedInv
  <2>2. CASE UNCHANGED rc /\ pc # "done"
    BY <2>2 DEF PlannedInv
  <2>3. CASE pc' = "done"
    BY <2>3
  <2>4. UNCHANGED <<pc, rc>> \/ (UNCHANGED rc /\ pc # "done") \/ pc' = "done"
    BY DEF publisherVars, PublisherNext, Refuse, Connect, StartLoop, Send, SendUnconfirmed, PublishRaises,
           DropConnection, StopLoop, SetWill, Reconnect, RestartLoop, Reconnected, NextSession, Finish,
           Interrupt, Abort, Goodbye, GoodbyeUnconfirmed, LinkLost, Unconfirmed, Leaves, Ends
  <2> QED
    BY <2>1, <2>2, <2>3, <2>4
<1> QED
  BY <1>1, <1>2 DEF PlannedInv

\* What is counted of the list of each command line.
LEMMA GapsOfList ==
  ASSUME NEW names \in Seq(STRING), NEW n \in Nat \ {0}
  PROVE  LET gaps == Cardinality(Skipping(Messages(names, n)))
         IN  /\ names = <<"gap">> /\ n <= Cap => gaps <= 1 /\ (n >= 3 => gaps = 1)
             /\ names = <<"out-of-order">> /\ n + n \div 3 <= Cap => gaps = n \div 3
             /\ names \in {<<s>> : s \in {"normal", "duplicate", "status", "reconnect", "malformed"}}
                  => gaps = 0
             /\ names = <<"normal", "gap">> /\ 2 * n <= Cap =>
                  gaps <= 1 /\ (n \in 3 .. 8 => gaps = 1)
<1> DEFINE gaps == Cardinality(Skipping(Messages(names, n)))
<1>0. n \in Nat /\ FirstBoot \in Nat /\ FirstSeq \in Int /\ Cap \in Nat
  BY PublisherAssumption DEF FirstBoot, FirstSeq
<1>1. Cardinality({}) = 0 /\ \A x : Cardinality({x}) = 1
  BY FS_EmptySet, FS_Singleton
<1>2. ASSUME NEW name, names = <<name>>,
             Scenario(name, FirstBoot, n) \in Seq(Plannable), Steady(Scenario(name, FirstBoot, n))
      PROVE  gaps = 0
  <2> DEFINE t == Scenario(name, FirstBoot, n)
  <2>1. Messages(names, n) = Truncated(Truncated(t))
    BY <1>2, MessagesOfOne
  <2> HIDE DEF t
  <2>2. Truncated(t) \in Seq(Plannable) /\ Steady(Truncated(t))
    BY <1>2, SteadyCut DEF t
  <2>3. Truncated(Truncated(t)) \in Seq(Plannable) /\ Steady(Truncated(Truncated(t)))
    BY <2>2, SteadyCut
  <2>4. Skipping(Truncated(Truncated(t))) = {}
    BY <2>3, SteadyUncounted
  <2> QED
    BY <1>1, <2>1, <2>4
<1>3. ASSUME NEW name, names = <<name>>,
             Scenario(name, FirstBoot, n) \in Seq(Plannable), Len(Scenario(name, FirstBoot, n)) <= Cap
      PROVE  Messages(names, n) = Scenario(name, FirstBoot, n)
  <2> DEFINE t == Scenario(name, FirstBoot, n)
  <2>1. Messages(names, n) = Truncated(Truncated(t))
    BY <1>3, MessagesOfOne
  <2>2. Len(t) \in Nat
    BY <1>3, LenProperties
  <2> HIDE DEF t
  <2>3. Len(t) <= Cap
    BY <1>3 DEF t
  <2>4. Truncated(t) = t
    BY <1>0, <2>2, <2>3 DEF Truncated
  <2> QED
    BY <2>1, <2>4 DEF t
<1>4. ASSUME names = <<"normal">> PROVE gaps = 0
  <2>1. Scenario("normal", FirstBoot, n) = Run(FirstBoot, FirstSeq, n)
    BY DEF Scenario
  <2>2. Told(Run(FirstBoot, FirstSeq, n), {FirstBoot})
    BY <1>0, RunTold
  <2>3. Scenario("normal", FirstBoot, n) \in Seq(Plannable) /\ Steady(Scenario("normal", FirstBoot, n))
    BY <2>1, <2>2 DEF Told
  <2> QED
    BY <1>2, <1>4, <2>3
<1>5. ASSUME names = <<"duplicate">> PROVE gaps = 0
  <2>1. Scenario("duplicate", FirstBoot, n) = Duplicates(FirstBoot, n)
    BY DEF Scenario
  <2>2. Scenario("duplicate", FirstBoot, n) \in Seq(Plannable) /\ Steady(Scenario("duplicate", FirstBoot, n))
    BY <1>0, <2>1, DuplicatesTold
  <2> QED
    BY <1>2, <1>5, <2>2
<1>6. ASSUME names = <<"status">> PROVE gaps = 0
  <2>1. Scenario("status", FirstBoot, n)
          = <<Online(FirstBoot)>> \o Run(FirstBoot, FirstSeq, n) \o <<Offline(FirstBoot)>>
    BY DEF Scenario
  <2>2. Told(Scenario("status", FirstBoot, n), {FirstBoot})
    BY <1>0, <2>1, StatusScenarioTold
  <2>3. Scenario("status", FirstBoot, n) \in Seq(Plannable) /\ Steady(Scenario("status", FirstBoot, n))
    BY <2>2 DEF Told
  <2> QED
    BY <1>2, <1>6, <2>3
<1>7. ASSUME names = <<"reconnect">> PROVE gaps = 0
  <2>1. Scenario("reconnect", FirstBoot, n) = Reconnecting(FirstBoot, n)
    BY DEF Scenario
  <2>2. Told(Reconnecting(FirstBoot, n), {FirstBoot, FirstBoot + 1})
    BY <1>0, ReconnectingTold
  <2>3. Scenario("reconnect", FirstBoot, n) \in Seq(Plannable) /\ Steady(Scenario("reconnect", FirstBoot, n))
    BY <2>1, <2>2 DEF Told
  <2> QED
    BY <1>2, <1>7, <2>3
<1>8. ASSUME names = <<"malformed">> PROVE gaps = 0
  <2>1. Scenario("malformed", FirstBoot, n) = SubSeq(Malformed(FirstBoot), 1, IF n < 5 THEN n ELSE 5)
    BY DEF Scenario
  <2>2. Told(Scenario("malformed", FirstBoot, n), {})
    BY <1>0, <2>1, MalformedTold
  <2>3. Scenario("malformed", FirstBoot, n) \in Seq(Plannable) /\ Steady(Scenario("malformed", FirstBoot, n))
    BY <2>2 DEF Told
  <2> QED
    BY <1>2, <1>8, <2>3
<1>9. ASSUME names = <<"gap">>, n <= Cap PROVE gaps = IF n >= 3 THEN 1 ELSE 0
  <2>1. Scenario("gap", FirstBoot, n) = WithGap(FirstBoot, n)
    BY DEF Scenario
  <2> DEFINE g == WithGap(FirstBoot, n)
  <2>2. Jumping(g, FirstBoot, 0, n)
    BY <1>0, GapJumps
  <2>3. g \in Seq(Plannable) /\ Len(g) = n
    BY <1>0, GapElements
  <2>4. Messages(names, n) = g
    BY <1>3, <1>9, <2>1, <2>3
  <2> HIDE DEF g
  <2>5. Skipping(g) = IF n >= 3 /\ 0 < n \div 2 + 5 THEN {<<FirstBoot, n \div 2 + 6>>} ELSE {}
    BY <1>0, <2>2, JumpCounted
  <2>6. 0 < n \div 2 + 5
    OBVIOUS
  <2> QED
    BY <1>1, <2>4, <2>5, <2>6
<1>10. ASSUME names = <<"out-of-order">>, n + n \div 3 <= Cap PROVE gaps = n \div 3
  <2>1. Scenario("out-of-order", FirstBoot, n) = OutOfOrder(FirstBoot, n)
    BY DEF Scenario
  <2> DEFINE g == OutOfOrder(FirstBoot, n)
  <2>2. g \in Paired(FirstBoot, n)
    BY <1>0, OutOfOrderPaired
  <2>3. g \in Seq(Plannable) /\ Len(g) = n + n \div 3 /\ Sum(g).gaps = Fourths(FirstBoot, n \div 3)
    BY <2>2 DEF Paired
  <2>4. Messages(names, n) = g
    BY <1>3, <1>10, <2>1, <2>3
  <2> HIDE DEF g
  <2>5. Skipping(g) = Fourths(FirstBoot, n \div 3)
    BY <2>3, GapsCounted
  <2>6. n \div 3 \in Nat
    OBVIOUS
  <2> QED
    BY <2>4, <2>5, <2>6, FourthsCounted
<1>11. ASSUME names = <<"normal", "gap">>, 2 * n <= Cap PROVE gaps = IF n \in 3 .. 8 THEN 1 ELSE 0
  <2> DEFINE g == Run(FirstBoot, FirstSeq, n) \o WithGap(FirstBoot, n)
  <2>1. Messages(names, n) = g
    BY <1>11, MessagesOfGap
  <2>2. Jumping(g, FirstBoot, n, n)
    BY <1>0, GapJumps
  <2> HIDE DEF g
  <2>3. Skipping(g) = IF n >= 3 /\ n < n \div 2 + 5 THEN {<<FirstBoot, n \div 2 + 6>>} ELSE {}
    BY <1>0, <2>2, JumpCounted
  <2>4. n >= 3 /\ n < n \div 2 + 5 <=> n \in 3 .. 8
    OBVIOUS
  <2> QED
    BY <1>1, <2>1, <2>3, <2>4
<1> HIDE DEF gaps
<1>12. names \in {<<s>> : s \in {"normal", "duplicate", "status", "reconnect", "malformed"}} => gaps = 0
  BY <1>4, <1>5, <1>6, <1>7, <1>8
<1>13. names = <<"gap">> /\ n <= Cap => gaps <= 1 /\ (n >= 3 => gaps = 1)
  BY <1>0, <1>9
<1>14. names = <<"normal", "gap">> /\ 2 * n <= Cap => gaps <= 1 /\ (n \in 3 .. 8 => gaps = 1)
  BY <1>0, <1>11
<1> QED
  BY <1>10, <1>12, <1>13, <1>14 DEF gaps

\* So it is of what the backend has heard of a run that exits with 0.
LEMMA GapsAsSaid ==
  ASSUME PublisherInv, TruthInv, PlannedInv
  PROVE  ScenarioGaps
<1> SUFFICES ASSUME rc = 0, interrupt = "none"
             PROVE  LET n == invoked.count
                        gaps == Cardinality(Skipping(wire))
                    IN  /\ Lone("gap") /\ n <= Cap => gaps <= 1 /\ (n >= 3 => gaps = 1)
                        /\ Lone("out-of-order") /\ n + n \div 3 <= Cap => gaps = n \div 3
                        /\ invoked.names \in {<<s>> : s \in {"normal", "duplicate", "status", "reconnect", "malformed"}}
                             => gaps = 0
                        /\ invoked.names = <<"normal", "gap">> /\ 2 * n <= Cap =>
                             gaps <= 1 /\ (n \in 3 .. 8 => gaps = 1)
  BY DEF ScenarioGaps
<1>1. pc = "done"
  BY DEF PlannedInv, Running
<1>2. plan # <<>> /\ Skipping(wire) = Skipping(All)
  BY <1>1, GapsOfRun
<1> DEFINE n == invoked.count
<1>3. n \in Nat \ {0}
  BY <1>2, PublisherAssumption DEF PlannedInv
<1>4. Skipping(wire) = Skipping(Messages(invoked.names, n))
  BY <1>2 DEF All
<1> HIDE DEF n
<1>5. invoked.names \in Seq(STRING)
  BY PublisherAssumption DEF PlannedInv
<1> QED
  BY <1>3, <1>4, <1>5, GapsOfList DEF Lone, n

\* publish_synthetic.py:285-414, ingestion.py:297: of a run that exits with 0
\* the backend counts the gaps the scenario was made to show, and no other: never
\* more than one for the gap scenario, and that one from three samples on (behind
\* a normal run up to eight, where the jump clears its readings), one for every
\* third index of the out-of-order one, none for the rest.
THEOREM GapsAsPlanned == PublisherSpec => []ScenarioGaps
<1>1. PublisherInit => PublisherInv /\ TruthInv /\ PlannedInv
  BY PlansWell, PublisherStarts, TruthStarts, PlannedStarts
<1>2. PublisherInv /\ [PublisherNext]_publisherVars => PublisherInv'
  BY PublisherSteps
<1>3. PublisherInv /\ TruthInv /\ [PublisherNext]_publisherVars => TruthInv'
  BY TruthKept
<1>4. PlannedInv /\ [PublisherNext]_publisherVars => PlannedInv'
  BY PlannedKept
<1>5. PublisherInv /\ TruthInv /\ PlannedInv => ScenarioGaps
  BY GapsAsSaid
<1> QED
  BY <1>1, <1>2, <1>3, <1>4, <1>5, PTL DEF PublisherSpec

-------------------------------------------------------------------------------
(* Walking the history *)

StoredRow ==
    [device : Sources, at : Times] \cup [device : Sources, at : Times, telemetry : Nat]

PagesTyped ==
    /\ tables \in [Endpoints -> Seq(StoredRow)]
    /\ steady \in BOOLEAN
    /\ query \in Queries
    /\ cursor \in Nat
    /\ pages \in Seq(Seq(Nat))
    /\ reader = "walking" => query.limit \in 1 .. MaxLimit

\* The order of the ids is an order of times.
InTime(rows) == \A a, b \in 1 .. Len(rows) : a < b => rows[a].at <= rows[b].at

Delivered == UNION {ToSet(pages[p]) : p \in DOMAIN pages}

Descending ==
    \A p, q \in DOMAIN pages : \A i \in DOMAIN pages[p], j \in DOMAIN pages[q] :
        p < q \/ (p = q /\ i < j) => pages[p][i] > pages[q][j]

NoneEmpty == \A p \in 2 .. Len(pages) : pages[p] # <<>>

\* What matches now and did not match when the walk began is newer.
SinceNewer ==
    /\ wanted \subseteq Matching
    /\ \A a \in Matching \ wanted, b \in wanted : a > b

\* How far a walk has come.
WalkInv ==
    CASE reader \in {"idle", "refused"} -> pages = <<>> /\ cursor = 0
      [] reader = "walking" ->
            /\ SinceNewer
            /\ cursor \in wanted
            /\ Delivered = {id \in wanted : id >= cursor}
            /\ \E id \in wanted : id < cursor
      [] reader = "done" -> Delivered = wanted
      [] OTHER -> FALSE

PagesInv ==
    /\ PagesTyped
    /\ steady => /\ \A name \in Endpoints : InTime(tables[name])
                 /\ WalkInv /\ Descending /\ NoneEmpty

-------------------------------------------------------------------------------
(* What matches, and a page of it *)

LEMMA TableTyped ==
  ASSUME PagesTyped
  PROVE  /\ query.endpoint \in Endpoints /\ query.limit \in Int
         /\ Table \in Seq(StoredRow)
         /\ Len(Table) \in Nat /\ DOMAIN Table = 1 .. Len(Table)
         /\ \A id \in DOMAIN Table : Table[id].at \in Nat
<1>1. query.endpoint \in Endpoints /\ query.limit \in Int
  BY PagesAssumption DEF PagesTyped
<1>2. Table \in Seq(StoredRow)
  BY <1>1 DEF PagesTyped, Table
<1>3. Len(Table) \in Nat /\ DOMAIN Table = 1 .. Len(Table)
  BY <1>2, LenProperties
<1>4. ASSUME NEW id \in DOMAIN Table PROVE Table[id].at \in Nat
  <2>1. Table[id] \in StoredRow
    BY <1>2, <1>3, ElementOfSeq
  <2> QED
    BY <2>1, PagesAssumption DEF StoredRow
<1> QED
  BY <1>1, <1>2, <1>3, <1>4

LEMMA MatchingFinite ==
  ASSUME PagesTyped
  PROVE  /\ Matching \subseteq Nat \ {0}
         /\ \A T \in SUBSET Matching : IsFiniteSet(T) /\ Cardinality(T) \in Nat
<1>1. Len(Table) \in Nat /\ Matching \subseteq 1 .. Len(Table)
  BY TableTyped DEF Matching
<1>2. IsFiniteSet(1 .. Len(Table))
  BY <1>1, FS_Interval
<1>3. ASSUME NEW T \in SUBSET Matching PROVE IsFiniteSet(T) /\ Cardinality(T) \in Nat
  <2>1. IsFiniteSet(T)
    BY <1>1, <1>2, FS_Subset
  <2> QED
    BY <2>1, FS_CardinalityType
<1> QED
  BY <1>1, <1>3

LEMMA ListingTyped ==
  ASSUME PagesTyped, NEW ids \in SUBSET Matching, NEW found \in Listings(ids)
  PROVE  /\ found \in Seq(Nat) /\ DOMAIN found = 1 .. Len(found) /\ Len(found) \in Nat
         /\ \A i \in 1 .. Len(found) : found[i] \in Nat /\ found[i] # 0 /\ found[i] \in ids
         /\ Len(found) = Cardinality(ids)
<1> DEFINE n == Cardinality(ids)
<1>1. n \in Nat /\ ids \subseteq Nat \ {0}
  BY MatchingFinite
<1>2. found \in [1 .. n -> ids]
  BY DEF Listings
<1> HIDE DEF n
<1>3. found \in Seq(ids) /\ Len(found) = n /\ DOMAIN found = 1 .. n
  BY <1>1, <1>2, SeqDef
<1>4. found \in Seq(Nat)
  BY <1>1, <1>3, SeqMonotonic
<1>5. \A i \in 1 .. n : found[i] \in ids /\ found[i] \in Nat /\ found[i] # 0
  BY <1>1, <1>2
<1> QED
  BY <1>1, <1>3, <1>4, <1>5 DEF n

LEMMA PageTyped ==
  ASSUME PagesTyped, NEW ids \in SUBSET Matching, NEW found \in Listings(ids),
         query.limit \in 1 .. MaxLimit
  PROVE  PageOf(found).items \in Seq(Nat) /\ PageOf(found).next \in Nat
<1>1. Clamped(query.limit) = query.limit /\ query.limit \in Nat \ {0}
  BY PagesAssumption DEF Clamped
<1>2. /\ found \in Seq(Nat) /\ Len(found) \in Nat
      /\ \A i \in 1 .. Len(found) : found[i] \in Nat
  BY ListingTyped
<1> DEFINE piece == SubSeq(found, 1, query.limit)
<1>3. ASSUME Len(found) > query.limit PROVE piece \in Seq(Nat) /\ Last(piece) \in Nat
  <2>1. \A i \in 1 .. query.limit : found[i] \in Nat
    BY <1>1, <1>2, <1>3
  <2>2. piece \in Seq(Nat) /\ Len(piece) = query.limit
    BY <1>1, <2>1, SubSeqProperties
  <2>3. piece[Len(piece)] \in Nat
    BY <1>1, <2>2, ElementOfSeq
  <2> QED
    BY <2>2, <2>3 DEF Last
<1> QED
  BY <1>1, <1>2, <1>3 DEF PageOf

\* While the clock is steady, a listing is descending and complete.
LEMMA ListingDescends ==
  ASSUME PagesTyped, InTime(Table), NEW ids \in SUBSET Matching, NEW found \in Listings(ids)
  PROVE  /\ found \in Seq(Nat) /\ DOMAIN found = 1 .. Len(found)
         /\ \A i, j \in 1 .. Len(found) : i < j => found[i] > found[j]
         /\ ToSet(found) = ids
<1> DEFINE n == Cardinality(ids)
<1>1. IsFiniteSet(ids) /\ n \in Nat /\ ids \subseteq Nat /\ ids \subseteq 1 .. Len(Table)
  BY MatchingFinite, TableTyped DEF Matching
<1>2. /\ found \in [1 .. n -> ids]
      /\ \A i, j \in 1 .. n : i < j => Newer(found[i], found[j])
  BY DEF Listings
<1> HIDE DEF n
<1>3. found \in Seq(ids) /\ Len(found) = n /\ DOMAIN found = 1 .. n
  BY <1>1, <1>2, SeqDef
<1>4. found \in Seq(Nat)
  BY <1>1, <1>3, SeqMonotonic
<1>5. ASSUME NEW i \in 1 .. n, NEW j \in 1 .. n, i < j PROVE found[i] > found[j]
  <2> DEFINE a == found[i]
             b == found[j]
  <2>1. a \in 1 .. Len(Table) /\ b \in 1 .. Len(Table) /\ Newer(a, b) /\ Len(Table) \in Nat
    BY <1>1, <1>2, <1>5, TableTyped
  <2> HIDE DEF a, b
  <2>2. Table[a].at \in Nat /\ Table[b].at \in Nat
    BY <2>1, TableTyped
  <2>3. a < b => Table[a].at <= Table[b].at
    BY <2>1 DEF InTime
  <2>4. a > b
    BY <2>1, <2>2, <2>3 DEF Newer
  <2> QED
    BY <2>4 DEF a, b
<1>6. ToSet(found) = ids
  <2>1. \A i, j \in 1 .. n : found[i] = found[j] => i = j
    <3>1. SUFFICES ASSUME NEW i \in 1 .. n, NEW j \in 1 .. n, found[i] = found[j], i # j
                   PROVE  FALSE
      OBVIOUS
    <3>2. found[i] \in ids /\ found[i] \in Nat
      BY <1>1, <1>2
    <3>3. i < j \/ j < i
      BY <1>1, <3>1
    <3> QED
      BY <1>5, <3>1, <3>2, <3>3
  <2>2. found \in Injection(1 .. n, ids)
    BY <1>2, <2>1 DEF Injection, IsInjective
  <2>3. Cardinality(1 .. n) = Cardinality(ids)
    BY <1>1, FS_Interval DEF n
  <2>4. found \in Surjection(1 .. n, ids)
    BY <1>1, <2>2, <2>3, FS_Injection
  <2>5. \A id \in ids : \E i \in 1 .. n : found[i] = id
    BY <2>4 DEF Surjection
  <2>6. \A i \in 1 .. n : found[i] \in ids
    BY <1>2
  <2> QED
    BY <1>3, <2>5, <2>6 DEF ToSet
<1> QED
  BY <1>3, <1>4, <1>5, <1>6

\* A page is the newest rows of what it was cut from; it names its last row if
\* and only if an older one is left.
LEMMA PageProperties ==
  ASSUME PagesTyped, InTime(Table), NEW ids \in SUBSET Matching, NEW found \in Listings(ids),
         query.limit \in 1 .. MaxLimit
  PROVE  LET page == PageOf(found)
         IN /\ page.items \in Seq(Nat)
            /\ DOMAIN page.items = 1 .. Len(page.items)
            /\ \A i, j \in DOMAIN page.items : i < j => page.items[i] > page.items[j]
            /\ page.next \in Nat
            /\ ids # {} => page.items # <<>>
            /\ \/ page.next = 0 /\ ToSet(page.items) = ids
               \/ /\ page.next \in ids /\ \E id \in ids : id < page.next
                  /\ ToSet(page.items) = {id \in ids : id >= page.next}
<1> DEFINE limit == query.limit
           items == IF Len(found) > limit THEN SubSeq(found, 1, limit) ELSE found
           next == IF Len(found) > limit THEN Last(items) ELSE 0
<1>1. MaxLimit \in Nat /\ limit \in Nat \ {0} /\ Clamped(query.limit) = limit
  BY PagesAssumption DEF Clamped
<1>2. PageOf(found).items = items /\ PageOf(found).next = next
  BY <1>1 DEF PageOf
<1>3. /\ found \in Seq(Nat) /\ DOMAIN found = 1 .. Len(found) /\ Len(found) \in Nat
      /\ \A i, j \in 1 .. Len(found) : i < j => found[i] > found[j]
      /\ ToSet(found) = ids
      /\ \A i \in 1 .. Len(found) : found[i] \in Nat
  BY ListingDescends, LenProperties, ElementOfSeq
<1>4. \A i \in 1 .. Len(found) : found[i] \in ids /\ found[i] # 0
  BY <1>3, MatchingFinite DEF ToSet
<1> HIDE DEF limit
<1>5. CASE Len(found) > limit
  <2>1. /\ items \in Seq(Nat) /\ Len(items) = limit /\ DOMAIN items = 1 .. limit
        /\ \A i \in 1 .. limit : items[i] = found[i]
    <3>1. \A i \in 1 .. limit : found[i] \in Nat
      BY <1>1, <1>3, <1>5
    <3>2. SubSeq(found, 1, limit) \in Seq(Nat) /\ Len(SubSeq(found, 1, limit)) = limit
          /\ \A i \in 1 .. limit : SubSeq(found, 1, limit)[i] = found[i]
      BY <1>1, <3>1, SubSeqProperties
    <3> QED
      BY <1>5, <3>2, LenProperties
  <2>2. next = found[limit]
    BY <1>1, <1>5, <2>1 DEF Last
  <2> HIDE DEF items, next
  <2>3. next \in ids /\ next \in Nat /\ next # 0
    BY <1>1, <1>3, <1>4, <1>5, <2>2
  <2>4. found[limit + 1] \in ids /\ found[limit + 1] < next
    BY <1>1, <1>3, <1>4, <1>5, <2>2
  <2>5. \A i, j \in DOMAIN items : i < j => items[i] > items[j]
    BY <1>1, <1>3, <1>5, <2>1
  <2>6. ToSet(items) = {id \in ids : id >= next}
    <3>1. ASSUME NEW i \in 1 .. limit PROVE items[i] \in ids /\ items[i] >= next
      <4>1. i \in 1 .. Len(found) /\ limit \in 1 .. Len(found) /\ i <= limit /\ i \in Int
        BY <1>1, <1>3, <1>5
      <4>2. found[i] \in Nat /\ found[i] \in ids
        BY <1>3, <1>4, <4>1
      <4>3. i = limit \/ found[i] > found[limit]
        BY <1>1, <1>3, <4>1
      <4> QED
        BY <2>1, <2>2, <2>3, <4>2, <4>3
    <3>2. ASSUME NEW id \in ids, id >= next PROVE \E i \in 1 .. limit : items[i] = id
      <4>1. PICK i \in 1 .. Len(found) : found[i] = id
        BY <1>3 DEF ToSet
      <4>2. i <= limit
        <5>1. SUFFICES ASSUME i > limit PROVE FALSE
          BY <1>1, <1>3
        <5>2. limit \in 1 .. Len(found)
          BY <1>1, <1>3, <1>5
        <5>3. found[limit] > found[i]
          BY <1>3, <5>1, <5>2
        <5> QED
          BY <1>3, <2>2, <2>3, <3>2, <4>1, <5>3
      <4> QED
        BY <1>1, <1>3, <2>1, <4>1, <4>2
    <3> QED
      BY <2>1, <3>1, <3>2 DEF ToSet
  <2>7. items # <<>>
    BY <1>1, <2>1
  <2> QED
    BY <1>2, <2>1, <2>3, <2>4, <2>5, <2>6, <2>7
<1>6. CASE ~ (Len(found) > limit)
  <2>1. items = found /\ next = 0
    BY <1>6
  <2>2. ids # {} => found # <<>>
    <3>1. SUFFICES ASSUME NEW id \in ids PROVE found # <<>>
      OBVIOUS
    <3>2. PICK i \in 1 .. Len(found) : found[i] = id
      BY <1>3 DEF ToSet
    <3> QED
      BY <1>3, <3>2
  <2> HIDE DEF items, next
  <2> QED
    BY <1>2, <1>3, <2>1, <2>2
<1> QED
  BY <1>5, <1>6

LEMMA PageMoves ==
  ASSUME NEW x \in Seq(Nat), NEW list \in Seq(Seq(Nat))
  PROVE  /\ Append(list, x) \in Seq(Seq(Nat)) /\ Len(list) \in Nat
         /\ DOMAIN list = 1 .. Len(list)
         /\ DOMAIN Append(list, x) = 1 .. Len(list) + 1
         /\ Len(Append(list, x)) = Len(list) + 1
         /\ \A p \in 1 .. Len(list) : Append(list, x)[p] = list[p]
         /\ Append(list, x)[Len(list) + 1] = x
<1>1. Len(list) \in Nat /\ DOMAIN list = 1 .. Len(list)
  BY LenProperties
<1>2. /\ Append(list, x) \in Seq(Seq(Nat)) /\ Len(Append(list, x)) = Len(list) + 1
      /\ \A p \in 1 .. Len(list) : Append(list, x)[p] = list[p]
      /\ Append(list, x)[Len(list) + 1] = x
  BY AppendProperties
<1>3. DOMAIN Append(list, x) = 1 .. Len(list) + 1
  BY <1>2, LenProperties
<1> QED
  BY <1>1, <1>2, <1>3

LEMMA PagesStart == ASSUME PagesInit PROVE PagesInv
<1>1. PagesTyped
  <2>1. <<>> \in Seq(StoredRow) /\ <<>> \in Seq(Seq(Nat))
    OBVIOUS
  <2>2. tables \in [Endpoints -> Seq(StoredRow)]
    BY <2>1 DEF PagesInit
  <2> QED
    BY <2>1, <2>2 DEF PagesInit, PagesTyped
<1>2. \A name \in Endpoints : InTime(tables[name])
  BY DEF PagesInit, InTime
<1>3. WalkInv /\ Descending /\ NoneEmpty
  BY DEF PagesInit, WalkInv, Descending, NoneEmpty
<1> QED
  BY <1>1, <1>2, <1>3 DEF PagesInv

LEMMA WrittenBefore ==
  ASSUME NEW n \in Nat, NEW a \in 1 .. n + 1, NEW b \in 1 .. n + 1, a < b, b = n + 1
  PROVE  n # 0 /\ n \in 1 .. n /\ a \in 1 .. n /\ (a = n \/ a < n)
OBVIOUS

LEMMA StoredInTime ==
  ASSUME NEW rows \in Seq(StoredRow), NEW row \in StoredRow, InTime(rows), row.at >= LastTime(rows)
  PROVE  InTime(Append(rows, row))
<1>1. Len(rows) \in Nat /\ DOMAIN rows = 1 .. Len(rows)
  BY LenProperties
<1>2. /\ Len(Append(rows, row)) = Len(rows) + 1
      /\ \A i \in 1 .. Len(rows) : Append(rows, row)[i] = rows[i]
      /\ Append(rows, row)[Len(rows) + 1] = row
  BY AppendProperties
<1>3. row.at \in Nat /\ \A i \in 1 .. Len(rows) : rows[i].at \in Nat
  <2>1. \A r \in StoredRow : r.at \in Nat
    BY PagesAssumption DEF StoredRow
  <2> QED
    BY <1>1, <2>1, ElementOfSeq
<1> SUFFICES ASSUME NEW a \in 1 .. Len(rows) + 1, NEW b \in 1 .. Len(rows) + 1, a < b
             PROVE  Append(rows, row)[a].at <= Append(rows, row)[b].at
  BY <1>2 DEF InTime
<1>4. CASE b \in 1 .. Len(rows)
  <2>1. a \in 1 .. Len(rows)
    BY <1>1, <1>4
  <2> QED
    BY <1>2, <1>4, <2>1 DEF InTime
<1>5. CASE b = Len(rows) + 1
  <2>1. /\ a \in 1 .. Len(rows) /\ Len(rows) \in 1 .. Len(rows) /\ rows # <<>>
        /\ a = Len(rows) \/ a < Len(rows)
    <3>1. Len(rows) # 0 /\ Len(rows) \in 1 .. Len(rows) /\ a \in 1 .. Len(rows)
          /\ (a = Len(rows) \/ a < Len(rows))
      BY <1>1, <1>5, WrittenBefore
    <3> QED
      BY <3>1, EmptySeq
  <2>2. rows[Len(rows)].at <= row.at
    BY <1>3, <2>1 DEF LastTime, Last
  <2>3. rows[a].at <= rows[Len(rows)].at
    BY <1>3, <2>1 DEF InTime
  <2> QED
    BY <1>2, <1>3, <1>5, <2>1, <2>2, <2>3
<1> QED
  BY <1>1, <1>4, <1>5

\* Nothing that matched ceases to, and what comes to match is newer.
LEMMA MatchingGrows ==
  ASSUME PagesTyped, NEW name \in Endpoints, NEW row \in StoredRow, Commits(name, row)
  PROVE  /\ Matching \subseteq Matching'
         /\ \A a \in Matching' \ Matching, b \in Matching : a > b
<1>1. /\ query.endpoint \in Endpoints /\ Table \in Seq(StoredRow)
      /\ Len(Table) \in Nat /\ DOMAIN Table = 1 .. Len(Table)
  BY TableTyped
<1>2. query' = query
  BY DEF Commits
<1>3. CASE name # query.endpoint
  <2>1. Table' = Table
    BY <1>1, <1>2, <1>3 DEF Commits, Table, PagesTyped
  <2> QED
    BY <1>2, <2>1 DEF Matching
<1>4. CASE name = query.endpoint
  <2>1. Table' = Append(Table, row)
    BY <1>1, <1>2, <1>4 DEF Commits, Table, PagesTyped
  <2>2. /\ Append(Table, row) \in Seq(StoredRow) /\ Len(Append(Table, row)) = Len(Table) + 1
        /\ \A id \in 1 .. Len(Table) : Append(Table, row)[id] = Table[id]
    BY <1>1, AppendProperties
  <2>3. DOMAIN Table' = 1 .. Len(Table) + 1
    BY <2>1, <2>2, LenProperties
  <2>4. \A id \in 1 .. Len(Table) : Table'[id] = Table[id]
    BY <2>1, <2>2
  <2>5. ASSUME NEW id \in 1 .. Len(Table) PROVE id \in Matching' <=> id \in Matching
    BY <1>1, <1>2, <2>3, <2>4 DEF Matching
  <2>6. Matching \subseteq 1 .. Len(Table) /\ Matching' \subseteq 1 .. Len(Table) + 1
    BY <1>1, <2>3 DEF Matching
  <2> QED
    BY <1>1, <2>5, <2>6
<1> QED
  BY <1>3, <1>4

LEMMA StoredKeeps ==
  ASSUME PagesInv, NEW name \in Endpoints, NEW row \in StoredRow, Commits(name, row)
  PROVE  PagesInv'
<1>1. PagesTyped
  BY DEF PagesInv
<1>2. PagesTyped'
  <2>1. Append(tables[name], row) \in Seq(StoredRow)
    BY <1>1, AppendProperties DEF PagesTyped
  <2>2. steady' \in BOOLEAN
    BY DEF Commits
  <2> QED
    BY <1>1, <2>1, <2>2 DEF PagesTyped, Commits
<1>3. SUFFICES ASSUME steady'
               PROVE  /\ \A each \in Endpoints : InTime(tables'[each])
                      /\ WalkInv' /\ Descending' /\ NoneEmpty'
  BY <1>2 DEF PagesInv, InTime
<1>4. steady /\ row.at >= LastTime(tables[name])
  BY <1>3 DEF Commits
<1>5. /\ \A each \in Endpoints : InTime(tables[each])
      /\ WalkInv /\ Descending /\ NoneEmpty
  BY <1>4 DEF PagesInv
<1>6. ASSUME NEW each \in Endpoints PROVE InTime(tables'[each])
  <2>1. InTime(Append(tables[name], row))
    BY <1>1, <1>4, <1>5, StoredInTime DEF PagesTyped
  <2> QED
    BY <1>1, <1>5, <2>1 DEF Commits, PagesTyped
<1>7. Descending' /\ NoneEmpty'
  BY <1>5 DEF Commits, Descending, NoneEmpty
<1>8. WalkInv'
  <2>1. /\ query' = query /\ reader' = reader /\ cursor' = cursor /\ pages' = pages
        /\ wanted' = wanted
    BY DEF Commits
  <2>2. Delivered' = Delivered
    BY <2>1 DEF Delivered
  <2>3. SinceNewer => SinceNewer'
    BY <1>1, <2>1, MatchingGrows DEF SinceNewer
  <2> QED
    BY <1>5, <2>1, <2>2, <2>3 DEF WalkInv
<1> QED
  BY <1>6, <1>7, <1>8

LEMMA RefusalKeeps == ASSUME PagesInv, RefuseRequest PROVE PagesInv'
<1>1. UNCHANGED <<tables, steady, query, cursor, pages, wanted>> /\ reader = "idle" /\ reader' = "refused"
  BY DEF RefuseRequest
<1>2. PagesTyped'
  BY <1>1 DEF PagesInv, PagesTyped
<1>3. ASSUME steady' PROVE (\A name \in Endpoints : InTime(tables'[name])) /\ Descending' /\ NoneEmpty'
  BY <1>1, <1>3 DEF PagesInv, Descending, NoneEmpty
<1>4. ASSUME steady' PROVE WalkInv'
  BY <1>1, <1>4 DEF PagesInv, WalkInv
<1> QED
  BY <1>2, <1>3, <1>4 DEF PagesInv, InTime

\* The rows of the next page, before it is cut: what matches beyond the cursor
\* is what the walk still wants.
LEMMA Beyond ==
  ASSUME PagesInv, steady, reader = "walking"
  PROVE  /\ Older(cursor) = {id \in wanted : id < cursor}
         /\ Older(cursor) # {} /\ cursor \in Nat /\ cursor # 0 /\ wanted \subseteq Nat
<1>1. WalkInv /\ PagesTyped
  BY DEF PagesInv
<1>2. SinceNewer /\ cursor \in wanted /\ \E id \in wanted : id < cursor
  BY <1>1 DEF WalkInv
<1>3. wanted \subseteq Nat \ {0} /\ Matching \subseteq Nat \ {0}
  BY <1>1, <1>2, MatchingFinite DEF SinceNewer
<1>4. ASSUME NEW id \in Matching, id < cursor PROVE id \in wanted
  <2>1. SUFFICES ASSUME id \notin wanted PROVE FALSE
    OBVIOUS
  <2>2. id > cursor /\ id \in Nat /\ cursor \in Nat
    BY <1>2, <1>3, <2>1 DEF SinceNewer
  <2> QED
    BY <1>4, <2>2
<1>5. cursor # 0 /\ cursor \in Nat
  BY <1>2, <1>3
<1>6. Older(cursor) = {id \in wanted : id < cursor}
  BY <1>2, <1>4, <1>5 DEF Older, SinceNewer
<1> QED
  BY <1>2, <1>3, <1>5, <1>6

LEMMA DeliveredGrows ==
  ASSUME pages \in Seq(Seq(Nat)), NEW x \in Seq(Nat), pages' = Append(pages, x)
  PROVE  Delivered' = Delivered \cup ToSet(x)
<1>1. /\ Len(pages) \in Nat /\ DOMAIN pages = 1 .. Len(pages)
      /\ DOMAIN pages' = 1 .. Len(pages) + 1
      /\ \A p \in 1 .. Len(pages) : pages'[p] = pages[p]
      /\ pages'[Len(pages) + 1] = x
  BY PageMoves
<1>2. DOMAIN pages' = DOMAIN pages \cup {Len(pages) + 1}
  BY <1>1
<1>3. \A p \in DOMAIN pages : ToSet(pages'[p]) = ToSet(pages[p])
  BY <1>1
<1>4. ToSet(pages'[Len(pages) + 1]) = ToSet(x)
  BY <1>1
<1> HIDE DEF ToSet
<1>5. Delivered' = UNION {ToSet(pages'[p]) : p \in DOMAIN pages'}
  BY DEF Delivered, ToSet
<1>6. ASSUME NEW e PROVE e \in Delivered' <=> e \in Delivered \/ e \in ToSet(x)
  <2>1. e \in Delivered' <=> \E p \in DOMAIN pages' : e \in ToSet(pages'[p])
    BY <1>5
  <2>2. e \in Delivered <=> \E p \in DOMAIN pages : e \in ToSet(pages[p])
    BY DEF Delivered
  <2> QED
    BY <1>2, <1>3, <1>4, <2>1, <2>2
<1> QED
  BY <1>6

\* A page of rows older than everything delivered keeps the order.
LEMMA StillDescending ==
  ASSUME pages \in Seq(Seq(Nat)), NEW x \in Seq(Nat), pages' = Append(pages, x),
         Descending, NoneEmpty,
         \A i, j \in DOMAIN x : i < j => x[i] > x[j],
         \A a \in Delivered, b \in ToSet(x) : a > b,
         pages = <<>> \/ x # <<>>
  PROVE  Descending' /\ NoneEmpty'
<1>1. /\ Len(pages) \in Nat /\ DOMAIN pages = 1 .. Len(pages)
      /\ DOMAIN pages' = 1 .. Len(pages) + 1 /\ Len(pages') = Len(pages) + 1
      /\ \A p \in 1 .. Len(pages) : pages'[p] = pages[p]
      /\ pages'[Len(pages) + 1] = x
  BY PageMoves
<1>2. ASSUME NEW p \in DOMAIN pages', NEW q \in DOMAIN pages',
             NEW i \in DOMAIN pages'[p], NEW j \in DOMAIN pages'[q],
             p < q \/ (p = q /\ i < j)
      PROVE  pages'[p][i] > pages'[q][j]
  <2>1. CASE q \in DOMAIN pages
    <3>1. p \in DOMAIN pages
      BY <1>1, <1>2, <2>1
    <3>2. pages'[p] = pages[p] /\ pages'[q] = pages[q]
      BY <1>1, <2>1, <3>1
    <3> QED
      BY <1>2, <2>1, <3>1, <3>2 DEF Descending
  <2>2. CASE q = Len(pages) + 1 /\ p \in DOMAIN pages
    <3>1. pages'[p] = pages[p] /\ pages'[q] = x
      BY <1>1, <2>2
    <3>2. pages[p][i] \in Delivered
      BY <2>2, <3>1 DEF Delivered, ToSet
    <3>3. x[j] \in ToSet(x)
      BY <3>1 DEF ToSet
    <3> QED
      BY <3>1, <3>2, <3>3
  <2>3. CASE q = Len(pages) + 1 /\ p = q
    <3>1. pages'[p] = x /\ pages'[q] = x /\ i < j
      BY <1>1, <1>2, <2>3
    <3> QED
      BY <3>1
  <2> QED
    BY <1>1, <1>2, <2>1, <2>2, <2>3
<1>3. ASSUME NEW p \in 2 .. Len(pages') PROVE pages'[p] # <<>>
  <2>1. CASE p \in 2 .. Len(pages)
    BY <1>1, <2>1 DEF NoneEmpty
  <2>2. CASE p = Len(pages) + 1
    <3>1. pages # <<>>
      BY <1>1, <1>3, <2>2
    <3> QED
      BY <1>1, <2>2, <3>1
  <2> QED
    BY <1>1, <2>1, <2>2
<1> QED
  BY <1>2, <1>3 DEF Descending, NoneEmpty

LEMMA Divided ==
  ASSUME NEW ids \in SUBSET Nat, NEW c \in Nat, NEW upper, NEW lower,
         upper = {id \in ids : id >= c}, lower = {id \in ids : id < c}
  PROVE  (\A a \in upper, b \in lower : a > b) /\ ids = upper \cup lower
<1>1. ASSUME NEW id \in ids PROVE id \in upper \cup lower
  BY id \in Nat
<1>2. ASSUME NEW a \in upper, NEW b \in lower PROVE a > b
  <2>1. a \in Nat /\ b \in Nat /\ a >= c /\ b < c
    OBVIOUS
  <2> QED
    BY <2>1
<1> QED
  BY <1>1, <1>2

LEMMA NextPageKeeps == ASSUME PagesInv, NextPage PROVE PagesInv'
<1>1. PICK found \in Listings(Older(cursor)) :
        /\ pages' = Append(pages, PageOf(found).items)
        /\ cursor' = PageOf(found).next
        /\ reader' = IF cursor' = 0 THEN "done" ELSE "walking"
  BY DEF NextPage
<1>2. /\ UNCHANGED <<tables, steady, query>>
      /\ wanted' = IF reader = "idle" THEN Matching ELSE wanted
      /\ reader = "walking" \/ (reader = "idle" /\ ~Refused)
  BY DEF NextPage
<1>3. PagesTyped /\ Older(cursor) \in SUBSET Matching
  BY DEF PagesInv, Older
<1> DEFINE page == PageOf(found)
<1>4. query.limit \in 1 .. MaxLimit
  BY <1>2, <1>3, PagesAssumption DEF PagesTyped, Refused, Invalid
<1>5. PagesTyped'
  <2>1. page.items \in Seq(Nat) /\ page.next \in Nat
    BY <1>3, <1>4, PageTyped
  <2>2. pages' \in Seq(Seq(Nat))
    BY <1>1, <1>3, <2>1, AppendProperties DEF PagesTyped
  <2> QED
    BY <1>1, <1>2, <1>3, <1>4, <2>1, <2>2 DEF PagesTyped
<1> SUFFICES ASSUME steady'
             PROVE  /\ \A name \in Endpoints : InTime(tables'[name])
                    /\ WalkInv' /\ Descending' /\ NoneEmpty'
  BY <1>5 DEF PagesInv, InTime
<1>6. /\ steady /\ \A name \in Endpoints : InTime(tables[name])
      /\ WalkInv /\ Descending /\ NoneEmpty
  BY <1>2 DEF PagesInv
<1>7. InTime(Table)
  BY <1>3, <1>6, TableTyped DEF Table
<1>8. /\ page.items \in Seq(Nat) /\ DOMAIN page.items = 1 .. Len(page.items)
      /\ \A i, j \in DOMAIN page.items : i < j => page.items[i] > page.items[j]
      /\ page.next \in Nat
      /\ Older(cursor) # {} => page.items # <<>>
      /\ \/ page.next = 0 /\ ToSet(page.items) = Older(cursor)
         \/ /\ page.next \in Older(cursor) /\ \E id \in Older(cursor) : id < page.next
            /\ ToSet(page.items) = {id \in Older(cursor) : id >= page.next}
  BY <1>3, <1>4, <1>7, PageProperties
<1> HIDE DEF page
<1>9. pages' = Append(pages, page.items) /\ cursor' = page.next
  BY <1>1 DEF page
<1>10. Delivered' = Delivered \cup ToSet(page.items)
  BY <1>3, <1>8, <1>9, DeliveredGrows DEF PagesTyped
<1>11. ToSet(page.items) \subseteq Older(cursor)
  BY <1>8
\* What the walk wants, what it has, and what is left of it.
<1>12. /\ wanted' \subseteq Nat \ {0} /\ Older(cursor) \subseteq wanted'
       /\ wanted' = Delivered \cup Older(cursor)
       /\ SinceNewer'
       /\ \A a \in Delivered, b \in Older(cursor) : a > b
       /\ pages = <<>> \/ Older(cursor) # {}
  <2>1. CASE reader = "idle"
    <3>1. pages = <<>> /\ cursor = 0 /\ wanted' = Matching
      BY <1>2, <1>6, <2>1 DEF WalkInv
    <3>2. Delivered = {}
      BY <3>1 DEF Delivered
    <3>3. Older(cursor) = Matching
      BY <3>1 DEF Older
    <3>4. Matching' = Matching
      BY <1>2 DEF Matching, Table
    <3> QED
      BY <1>3, <3>1, <3>2, <3>3, <3>4, MatchingFinite DEF SinceNewer
  <2>2. CASE reader = "walking"
    <3>1. wanted' = wanted /\ SinceNewer /\ Delivered = {id \in wanted : id >= cursor}
      BY <1>2, <1>6, <2>2 DEF WalkInv
    <3>2. /\ Older(cursor) = {id \in wanted : id < cursor} /\ Older(cursor) # {}
          /\ cursor \in Nat /\ wanted \subseteq Nat
      BY <1>6, <2>2, Beyond
    <3>3. Matching' = Matching
      BY <1>2 DEF Matching, Table
    <3>4. SinceNewer'
      BY <3>1, <3>3 DEF SinceNewer
    <3>5. wanted \subseteq Nat \ {0}
      BY <1>3, <3>1, MatchingFinite DEF SinceNewer
    <3>6. /\ \A a \in Delivered, b \in Older(cursor) : a > b
          /\ wanted = Delivered \cup Older(cursor)
      BY <3>1, <3>2, Divided
    <3> QED
      BY <3>1, <3>2, <3>4, <3>5, <3>6
  <2> QED
    BY <1>2, <2>1, <2>2
<1>13. Descending' /\ NoneEmpty'
  <2>1. \A a \in Delivered, b \in ToSet(page.items) : a > b
    BY <1>11, <1>12
  <2>2. pages = <<>> \/ page.items # <<>>
    BY <1>8, <1>12
  <2> QED
    BY <1>3, <1>6, <1>8, <1>9, <2>1, <2>2, StillDescending DEF PagesTyped
<1>14. WalkInv'
  <2>1. CASE page.next = 0 /\ ToSet(page.items) = Older(cursor)
    <3>1. reader' = "done" /\ Delivered' = wanted'
      BY <1>1, <1>9, <1>10, <1>12, <2>1
    <3> QED
      BY <3>1 DEF WalkInv
  <2>2. CASE /\ page.next \in Older(cursor) /\ \E id \in Older(cursor) : id < page.next
             /\ ToSet(page.items) = {id \in Older(cursor) : id >= page.next}
    <3>1. page.next # 0 /\ page.next \in wanted' /\ page.next \in Nat
      BY <1>8, <1>12, <2>2
    <3>2. reader' = "walking"
      BY <1>1, <1>9, <3>1
    <3>3. \A a \in Delivered : a >= page.next
      BY <1>12, <2>2, <3>1
    <3>4. Delivered' = {id \in wanted' : id >= page.next}
      BY <1>10, <1>12, <2>2, <3>3
    <3>5. \E id \in wanted' : id < page.next
      BY <1>12, <2>2
    <3> QED
      BY <1>9, <1>12, <3>1, <3>2, <3>4, <3>5 DEF WalkInv
  <2> QED
    BY <1>8, <2>1, <2>2
<1>15. \A name \in Endpoints : InTime(tables'[name])
  BY <1>2, <1>6
<1> QED
  BY <1>13, <1>14, <1>15

LEMMA PagesNextKeeps == ASSUME PagesInv, [PagesNext]_pageVars PROVE PagesInv'
<1>1. ASSUME NEW at \in Times, NEW device \in Sources, InsertReading(device, at) PROVE PagesInv'
  <2>1. [device |-> device, at |-> at] \in StoredRow /\ "telemetry" \in Endpoints
    BY DEF StoredRow, Endpoints
  <2> QED
    BY <1>1, <2>1, StoredKeeps DEF InsertReading
<1>2. ASSUME NEW at \in Times, InsertAnomaly(at) PROVE PagesInv'
  <2> DEFINE id == Len(tables["telemetry"])
             row == [device |-> tables["telemetry"][id].device, at |-> at, telemetry |-> id]
  <2>1. tables["telemetry"] \in Seq(StoredRow) /\ "anomalies" \in Endpoints
    BY DEF PagesInv, PagesTyped, Endpoints
  <2>2. id > 0 /\ id \in 1 .. Len(tables["telemetry"])
    BY <1>2, <2>1, LenProperties DEF InsertAnomaly
  <2>3. tables["telemetry"][id] \in StoredRow
    BY <2>1, <2>2, ElementOfSeq
  <2>4. tables["telemetry"][id].device \in Sources /\ id \in Nat
    BY <2>2, <2>3 DEF StoredRow
  <2>5. row \in StoredRow /\ Commits("anomalies", row)
    BY <1>2, <2>4 DEF StoredRow, InsertAnomaly
  <2> HIDE DEF row
  <2> QED
    BY <2>1, <2>5, StoredKeeps
<1>3. CASE UNCHANGED pageVars
  <2>1. PagesTyped'
    BY <1>3 DEF PagesInv, PagesTyped, pageVars
  <2>2. ASSUME steady'
        PROVE  (\A name \in Endpoints : InTime(tables'[name])) /\ Descending' /\ NoneEmpty'
    BY <1>3, <2>2 DEF PagesInv, Descending, NoneEmpty, pageVars
  <2>3. ASSUME steady' PROVE WalkInv'
    <3>1. Matching' = Matching /\ Delivered' = Delivered
      BY <1>3 DEF pageVars, Matching, Table, Delivered
    <3> QED
      BY <1>3, <2>3, <3>1 DEF PagesInv, WalkInv, SinceNewer, pageVars
  <2> QED
    BY <2>1, <2>2, <2>3 DEF PagesInv, InTime
<1> QED
  BY <1>1, <1>2, <1>3, RefusalKeeps, NextPageKeeps DEF PagesNext

\* As long as the clock has not stepped back, every row that matched when a walk
\* over the history began is delivered once, newest first, and no page but the
\* first is empty.  (repositories.py:273, repositories.py:354.)
THEOREM HistoryPagedOnce == PagesSpec => []PagedOnce
<1>1. PagesInit => PagesInv
  BY PagesStart
<1>2. PagesInv /\ [PagesNext]_pageVars => PagesInv'
  BY PagesNextKeeps
<1>3. PagesInv => PagedOnce
  BY DEF PagesInv, PagedOnce, WalkInv, Descending, NoneEmpty, Delivered
<1> QED
  BY <1>1, <1>2, <1>3, PTL DEF PagesSpec
-------------------------------------------------------------------------------
(* The types of the pages, and of the four side by side *)

OtherPagesTypes == reader \in {"idle", "walking", "done", "refused"} /\ wanted \subseteq Nat

LEMMA OtherPagesTypesStart == ASSUME PagesInit PROVE OtherPagesTypes
BY DEF PagesInit, OtherPagesTypes

LEMMA OtherPagesTypesKept ==
    ASSUME PagesInv, OtherPagesTypes, [PagesNext]_pageVars
    PROVE  OtherPagesTypes'
<1>1. ASSUME NEW at \in Times, InsertAnomaly(at) \/ \E device \in Sources : InsertReading(device, at)
      PROVE  OtherPagesTypes'
  BY <1>1 DEF InsertAnomaly, InsertReading, Commits, OtherPagesTypes
<1>2. CASE RefuseRequest
  BY <1>2 DEF RefuseRequest, OtherPagesTypes
<1>3. CASE NextPage
  <2>1. Matching \subseteq Nat
    BY MatchingFinite DEF PagesInv
  <2>2. reader' \in {"done", "walking"} /\ wanted' \in {Matching, wanted}
    BY <1>3 DEF NextPage
  <2> QED
    BY <2>1, <2>2 DEF OtherPagesTypes
<1>4. CASE UNCHANGED pageVars
  BY <1>4 DEF pageVars, OtherPagesTypes
<1> QED
  BY <1>1, <1>2, <1>3, <1>4 DEF PagesNext

LEMMA PagesWellTyped ==
    ASSUME PagesInv, OtherPagesTypes
    PROVE  PagesTypeOK
<1>1. PagesTyped
  BY DEF PagesInv
<1>2. ASSUME NEW name \in Endpoints, NEW id \in DOMAIN tables[name]
      PROVE  tables[name][id].device \in Sources /\ tables[name][id].at \in Times
  <2>1. tables[name] \in Seq(StoredRow)
    BY <1>1 DEF PagesTyped
  <2>2. tables[name][id] \in StoredRow
    BY <2>1, LenProperties, ElementOfSeq
  <2> QED
    BY <2>2 DEF StoredRow
<1>3. ASSUME NEW i \in DOMAIN pages PROVE pages[i] \in Seq(Nat)
  BY <1>1, LenProperties, ElementOfSeq DEF PagesTyped
<1> QED
  BY <1>1, <1>2, <1>3 DEF PagesTyped, OtherPagesTypes, PagesTypeOK

\* Every variable of the adapter, of the release, of the publisher and of the
\* pages has its type, whatever the constants: a stored file is absent, torn or
\* the work of one run, each artifact belongs to a device with a directory, a
\* plan's sessions have boot ids of their own.
THEOREM WorkbenchTyped == MCSpec => []TypeOK
<1> DEFINE Inv == /\ WindowInv /\ TypedInv /\ PublisherInv /\ OtherTypes
                  /\ PagesInv /\ OtherPagesTypes
<1>1. MCInit => Inv
  BY WindowInitInv, TypedStarts, PlansWell, PublisherStarts, PagesStart, OtherPagesTypesStart
     DEF MCInit, PublisherInit, OtherTypes
<1>2. Inv /\ [MCNext]_MCVars => Inv'
  <2> SUFFICES ASSUME Inv, [MCNext]_MCVars PROVE Inv'
    OBVIOUS
  <2>1. /\ [WindowNext]_windowVars /\ [ReleaseNext]_releaseVars
        /\ [PublisherNext]_publisherVars /\ [PagesNext]_pageVars
    BY DEF MCNext, MCVars
  <2> QED
    BY <2>1, WindowNextInv, TypedSteps, PublisherSteps, OtherTypesKept, PagesNextKeeps,
       OtherPagesTypesKept
<1>3. Inv => TypeOK
  BY PublisherWellTyped, PagesWellTyped DEF WindowInv, TypedInv, TypeOK
<1> QED
  BY <1>1, <1>2, <1>3, PTL DEF MCSpec
====
