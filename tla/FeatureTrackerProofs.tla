-------------------------- MODULE FeatureTrackerProofs --------------------------
(***************************************************************************)
(* What FeatureTracker guarantees for windows and deques of any length,    *)
(* any flows and any time stamps.  The counters and the deques are updated *)
(* entry by entry; the proofs compare them with the window as a whole.     *)
(* Induction goes through the least element of a set of numbers.           *)
(***************************************************************************)
EXTENDS FeatureTracker, FunctionTheorems, FiniteSetTheorems, SequenceTheorems,
  WellFoundedInduction, TLAPS

KeyedBy(i, k) == {m \in 1 .. Len(window) : KeyOf(i, window[m].flow) = k}

\* Every counter is the number of entries of the window with its key.
Counted ==
  /\ \A i \in Index, k \in Key : index[i][k] = Cardinality(KeyedBy(i, k))
  /\ \A p \in Pair : dsts[p] = Cardinality(KeyedBy("src_dst", p))

\* The types of everything but the deques.
WindowType ==
  /\ window \in Seq(Entry) /\ Len(window) <= WindowSize
  /\ index \in [Index -> [Key -> Nat]]
  /\ dsts \in [Pair -> Nat]
  /\ decay \in Decay
-----------------------------------------------------------------------------
(***************************************************************************)
(* Numbers and sets of numbers                                             *)
(***************************************************************************)

LEMMA LeastElement ==
  ASSUME NEW T \in SUBSET Nat, T # {}
  PROVE  \E x \in T : \A y \in T : x <= y
<1> DEFINE R == OpToRel(<, Nat)
<1>1. IsWellFoundedOn(R, Nat)
  BY NatLessThanWellFounded
<1>2. \A x, y \in Nat : x < y => <<x, y>> \in R
  BY DEF OpToRel
<1> HIDE DEF R
<1>3. PICK x \in T : \A y \in T : ~ (<<y, x>> \in R)
  BY <1>1, WFMin
<1>4. ASSUME NEW y \in T PROVE x <= y
  <2>1. x \in Nat /\ y \in Nat
    OBVIOUS
  <2>2. ~ (y < x)
    BY <1>2, <1>3, <2>1
  <2> QED
    BY <2>1, <2>2
<1> QED
  BY <1>4

LEMMA MonusValue ==
  ASSUME NEW a \in Nat, NEW b \in Nat, b <= a
  PROVE  Monus(a, b) = a - b /\ Monus(a, b) \in Nat
BY DEF Monus

\* A set S of positions loses A, those up to n, and all others move up by n.
Shifted(l, n, S, A, R) ==
  /\ l \in Nat /\ n \in 0 .. l
  /\ S \in SUBSET (1 .. l) /\ A \in SUBSET (1 .. n) /\ R \in SUBSET (1 .. l - n)
  /\ \A m \in 1 .. n : m \in A <=> m \in S
  /\ \A m \in 1 .. l - n : m \in R <=> m + n \in S

LEMMA ShiftCount ==
  ASSUME NEW l, NEW n, NEW S, NEW A, NEW R, Shifted(l, n, S, A, R)
  PROVE  /\ IsFiniteSet(R) /\ Cardinality(R) \in Nat /\ Cardinality(S) \in Nat
         /\ Cardinality(A) \in Nat /\ Cardinality(A) <= Cardinality(S)
         /\ Cardinality(R) = Cardinality(S) - Cardinality(A)
<1> USE DEF Shifted
<1> DEFINE B == {m \in S : m > n}
<1>1. IsFiniteSet(1 .. l) /\ n \in Int /\ l \in Int
  BY FS_Interval, 1 \in Int, l \in Int
<1>2. IsFiniteSet(S)
  BY <1>1, FS_Subset
<1>3. A \in SUBSET S /\ B = S \ A
  <2>1. \A m \in S : m \in 1 .. l /\ (m \in 1 .. n <=> ~ (m > n))
    BY <1>1
  <2>2. A \in SUBSET S /\ B \in SUBSET S
    OBVIOUS
  <2>3. \A m \in S : m \in B <=> m \notin A
    BY <2>1
  <2> HIDE DEF B
  <2> QED
    BY <2>2, <2>3
<1>4. S \cap A = A
  BY <1>3
<1>5. IsFiniteSet(A) /\ Cardinality(A) <= Cardinality(S)
  BY <1>2, <1>3, FS_Subset
<1>6. IsFiniteSet(S \ A) /\ Cardinality(S \ A) = Cardinality(S) - Cardinality(S \cap A)
  BY <1>2, FS_Difference
<1>7. IsFiniteSet(B) /\ Cardinality(B) = Cardinality(S) - Cardinality(A)
  BY <1>3, <1>4, <1>6
<1> DEFINE f == [m \in B |-> m - n]
<1>8. f \in [B -> R]
  <2>1. ASSUME NEW m \in B PROVE m - n \in R
    <3>1. m \in S /\ m > n /\ m \in 1 .. l
      OBVIOUS
    <3>2. m - n \in 1 .. l - n /\ (m - n) + n = m
      BY <1>1, <3>1
    <3> QED
      BY <3>1, <3>2
  <2> QED
    BY <2>1
<1>9. \A t \in R : \E s \in B : f[s] = t
  <2>1. ASSUME NEW t \in R PROVE t + n \in B /\ f[t + n] = t
    <3>1. t \in 1 .. l - n /\ t + n \in S /\ t + n > n /\ (t + n) - n = t
      BY <1>1
    <3>2. t + n \in B
      BY <3>1
    <3> QED
      BY <3>1, <3>2
  <2> QED
    BY <2>1
<1>10. \A a, b \in B : f[a] = f[b] => a = b
  BY <1>1
<1> HIDE DEF f
<1>11. f \in Bijection(B, R)
  <2>1. f \in Injection(B, R)
    BY <1>8, <1>10, Fun_IsInj
  <2>2. f \in Surjection(B, R)
    BY <1>8, <1>9, Fun_IsSurj
  <2> QED
    BY <2>1, <2>2 DEF Bijection
<1>12. ExistsBijection(B, R)
  BY <1>11 DEF ExistsBijection
<1> HIDE DEF B
<1>13. IsFiniteSet(R) /\ Cardinality(R) = Cardinality(B)
  BY <1>7, <1>12, FS_Bijection
<1>14. Cardinality(A) \in Nat /\ Cardinality(S) \in Nat /\ Cardinality(R) \in Nat
  BY <1>2, <1>5, <1>13, FS_CardinalityType
<1> QED
  BY <1>5, <1>7, <1>13, <1>14

\* The same with one more position at the end.
ShiftedOne(l, n, S, A, R) ==
  /\ R \in SUBSET (1 .. l - n + 1)
  /\ Shifted(l, n, S, A, {m \in R : m <= l - n})

LEMMA CountStep ==
  ASSUME NEW l, NEW n, NEW S, NEW A, NEW R, ShiftedOne(l, n, S, A, R)
  PROVE  /\ Cardinality(S) \in Nat
         /\ Cardinality(A) \in Nat /\ Cardinality(A) <= Cardinality(S)
         /\ Cardinality(R) = (Cardinality(S) - Cardinality(A))
                               + (IF l - n + 1 \in R THEN 1 ELSE 0)
<1> DEFINE Q == {m \in R : m <= l - n}
           last == l - n + 1
<1>1. Shifted(l, n, S, A, Q) /\ R \in SUBSET (1 .. l - n + 1)
  BY DEF ShiftedOne
<1>2. l \in Int /\ n \in Int /\ l - n >= 0
  BY <1>1 DEF Shifted
<1>3. last \notin Q /\ last \in Nat
  BY <1>2
<1>4. IF last \in R THEN R = Q \cup {last} ELSE R = Q
  <2>1. \A m \in R : m \in Q \/ m = last
    BY <1>1, <1>2
  <2> QED
    BY <2>1
<1> HIDE DEF Q, last
<1>5. /\ IsFiniteSet(Q) /\ Cardinality(Q) \in Nat /\ Cardinality(S) \in Nat
      /\ Cardinality(A) \in Nat /\ Cardinality(A) <= Cardinality(S)
      /\ Cardinality(Q) = Cardinality(S) - Cardinality(A)
  BY <1>1, ShiftCount
<1>6. Cardinality(R) = Cardinality(Q) + (IF last \in R THEN 1 ELSE 0)
  <2>1. CASE last \in R
    BY <1>3, <1>4, <1>5, <2>1, FS_AddElement
  <2>2. CASE last \notin R
    BY <1>4, <1>5, <2>2
  <2> QED
    BY <2>1, <2>2
<1> QED
  BY <1>5, <1>6 DEF last
-----------------------------------------------------------------------------
(***************************************************************************)
(* The window                                                              *)
(***************************************************************************)

LEMMA KeyTypes ==
  ASSUME NEW f \in Flow
  PROVE  /\ \A i \in Index : KeyOf(i, f) \in Key
         /\ KeyOf("src_dst", f) \in Pair /\ "src_dst" \in Index
         /\ KeyOf("src_dst", f) = <<f.src, f.dst>>
<1>1. "src_dst" \in Index
  BY DEF Index
<1>2. \A i \in Index : KeyOf(i, f) \in Key
  BY DEF Key
<1>3. KeyOf("src_dst", f) = <<f.src, f.dst>>
  BY DEF KeyOf
<1> QED
  BY <1>1, <1>2, <1>3 DEF Pair

\* Where the eviction by age stops.
LEMMA AgedStops ==
  ASSUME window \in Seq(Entry), NEW now \in Int, NEW d \in Int
  PROVE  /\ Aged(now, d) \in 0 .. Len(window)
         /\ Aged(now, d) < Len(window) => now - window[Aged(now, d) + 1].time <= d
<1> DEFINE Fresh == {m \in 1 .. Len(window) : now - window[m].time <= d}
           Stop(n) == /\ \A m \in 1 .. n : now - window[m].time > d
                      /\ n < Len(window) => now - window[n + 1].time <= d
<1>1. Len(window) \in Nat /\ Fresh \in SUBSET Nat
  OBVIOUS
<1>2. \A m \in 1 .. Len(window) : now - window[m].time \in Int
  <2>1. \A m \in 1 .. Len(window) : window[m].time \in Int
    <3>1. \A m \in 1 .. Len(window) : window[m] \in Entry
      OBVIOUS
    <3> QED
      BY <3>1, TimeAssumption DEF Entry
  <2> QED
    BY <2>1
<1>3. \E n \in 0 .. Len(window) : Stop(n)
  <2>1. CASE Fresh = {}
    <3>1. \A m \in 1 .. Len(window) : now - window[m].time > d
      BY <1>2, <2>1
    <3>2. Stop(Len(window))
      BY <1>1, <3>1
    <3> QED
      BY <1>1, <3>2
  <2>2. CASE Fresh # {}
    <3>1. PICK x \in Fresh : \A y \in Fresh : x <= y
      BY <1>1, <2>2, LeastElement
    <3>2. x \in 1 .. Len(window) /\ x - 1 \in 0 .. Len(window) /\ (x - 1) + 1 = x
      BY <1>1
    <3>3. \A m \in 1 .. x - 1 : m \in 1 .. Len(window) /\ m \notin Fresh
      BY <1>1, <3>1, <3>2
    <3>4. \A m \in 1 .. x - 1 : now - window[m].time > d
      BY <1>2, <3>3
    <3>5. Stop(x - 1)
      BY <3>1, <3>2, <3>4
    <3> QED
      BY <3>2, <3>5
  <2> QED
    BY <2>1, <2>2
<1> HIDE DEF Stop, Fresh
<1>4. Aged(now, d) = CHOOSE n \in 0 .. Len(window) : Stop(n)
  BY DEF Aged, Stop
<1>5. Aged(now, d) \in 0 .. Len(window) /\ Stop(Aged(now, d))
  BY <1>3, <1>4
<1> QED
  BY <1>5 DEF Stop

\* An eviction leaves room for one more.
LEMMA EvictedType ==
  ASSUME WindowType, NEW now \in Int, NEW d \in Int
  PROVE  /\ Evicted(now, d) \in 0 .. Len(window)
         /\ Len(window) - Evicted(now, d) < WindowSize
<1>1. Len(window) \in Nat /\ Len(window) <= WindowSize /\ WindowSize \in Nat /\ WindowSize >= 1
  BY WindowAssumption DEF WindowType
<1>2. Aged(now, d) \in 0 .. Len(window)
  BY AgedStops DEF WindowType
<1> QED
  BY <1>1, <1>2 DEF Evicted

\* The window after an update: what was not evicted, and the new flow.
LEMMA WindowAfter ==
  ASSUME WindowType, NEW f \in Flow, NEW t \in Time, NEW d \in Decay, Update(f, t, d),
         NEW n, n = Evicted(t, d)
  PROVE  /\ n \in 0 .. Len(window) /\ Len(window) \in Nat
         /\ window' \in Seq(Entry) /\ Len(window') <= WindowSize
         /\ Len(window') = Len(window) - n + 1
         /\ \A m \in 1 .. Len(window) - n : window'[m] = window[m + n]
         /\ window'[Len(window) - n + 1] = [flow |-> f, time |-> t]
<1> DEFINE kept == SubSeq(window, n + 1, Len(window))
           new == [flow |-> f, time |-> t]
<1>1. t \in Int /\ d \in Int /\ window \in Seq(Entry) /\ Len(window) \in Nat /\ WindowSize \in Nat
  BY TimeAssumption, WindowAssumption DEF WindowType
<1>2. n \in 0 .. Len(window) /\ Len(window) - n < WindowSize
  BY <1>1, EvictedType
<1>3. \A i \in n + 1 .. Len(window) : window[i] \in Entry
  BY <1>1, <1>2
<1>4. /\ kept \in Seq(Entry)
      /\ Len(kept) = IF n + 1 <= Len(window) THEN Len(window) - (n + 1) + 1 ELSE 0
      /\ \A i \in 1 .. Len(window) - (n + 1) + 1 : kept[i] = window[(n + 1) + i - 1]
  BY <1>1, <1>2, <1>3, n + 1 \in Int, Len(window) \in Int, SubSeqProperties
<1>5. Len(kept) = Len(window) - n
  BY <1>1, <1>2, <1>4
<1>6. \A i \in 1 .. Len(window) - n : kept[i] = window[i + n]
  <2>1. ASSUME NEW i \in 1 .. Len(window) - n PROVE kept[i] = window[i + n]
    <3>1. i \in 1 .. Len(window) - (n + 1) + 1 /\ (n + 1) + i - 1 = i + n
      BY <1>1, <1>2
    <3> QED
      BY <1>4, <3>1
  <2> QED
    BY <2>1
<1> HIDE DEF kept
<1>7. window' = Append(kept, new)
  <2>1. window' = Push(kept, new, WindowSize)
    BY DEF Update, kept
  <2> QED
    BY <1>2, <1>5, <2>1 DEF Push
<1>8. new \in Entry
  BY DEF Entry
<1> HIDE DEF new
<1>9. /\ window' \in Seq(Entry) /\ Len(window') = Len(kept) + 1
      /\ \A i \in 1 .. Len(kept) : window'[i] = kept[i]
      /\ window'[Len(kept) + 1] = new
  BY <1>4, <1>7, <1>8, AppendProperties
<1>10. /\ Len(window') = Len(window) - n + 1 /\ Len(window') <= WindowSize
       /\ window'[Len(window) - n + 1] = new
  BY <1>1, <1>2, <1>5, <1>9
<1> QED
  BY <1>1, <1>2, <1>5, <1>6, <1>9, <1>10 DEF new

\* How the entries with one key change.
LEMMA KeyedStep ==
  ASSUME WindowType, NEW f \in Flow, NEW t \in Time, NEW d \in Decay, Update(f, t, d),
         NEW n, n = Evicted(t, d), NEW i \in Index, NEW k
  PROVE  /\ Gone(n, i, k) \in Nat /\ Cardinality(KeyedBy(i, k)) \in Nat
         /\ Gone(n, i, k) <= Cardinality(KeyedBy(i, k))
         /\ Cardinality(KeyedBy(i, k))' =
              (Cardinality(KeyedBy(i, k)) - Gone(n, i, k)) + (IF KeyOf(i, f) = k THEN 1 ELSE 0)
<1> DEFINE l == Len(window)
           S == KeyedBy(i, k)
           R == {m \in 1 .. Len(window') : KeyOf(i, window'[m].flow) = k}
<1>1. /\ n \in 0 .. l /\ l \in Nat /\ Len(window') = l - n + 1
      /\ \A m \in 1 .. l - n : window'[m] = window[m + n]
      /\ window'[l - n + 1] = [flow |-> f, time |-> t]
  BY WindowAfter
<1>2. S \in SUBSET (1 .. l)
  BY DEF KeyedBy
<1>3. R \in SUBSET (1 .. l - n + 1)
  BY <1>1
<1>4. \A m \in 1 .. l - n : m \in R <=> m + n \in S
  <2>1. ASSUME NEW m \in 1 .. l - n PROVE m \in R <=> m + n \in S
    <3>1. m \in 1 .. Len(window') /\ m + n \in 1 .. l /\ window'[m] = window[m + n]
      BY <1>1
    <3> QED
      BY <3>1 DEF KeyedBy
  <2> QED
    BY <2>1
<1>5. l - n + 1 \in R <=> KeyOf(i, f) = k
  <2>1. l - n + 1 \in 1 .. Len(window') /\ window'[l - n + 1].flow = f
    BY <1>1
  <2> QED
    BY <2>1
<1>6. Gone(n, i, k) = Cardinality({m \in 1 .. n : m \in S})
  <2>1. {m \in 1 .. n : KeyOf(i, window[m].flow) = k} = {m \in 1 .. n : m \in S}
    BY <1>1 DEF KeyedBy
  <2> QED
    BY <2>1 DEF Gone
<1>7. Cardinality(KeyedBy(i, k))' = Cardinality(R)
  BY DEF KeyedBy
<1> DEFINE A == {m \in 1 .. n : m \in S}
<1>8. /\ A \in SUBSET (1 .. n) /\ \A m \in 1 .. n : m \in A <=> m \in S
      /\ Gone(n, i, k) = Cardinality(A)
  BY <1>6
<1>9. ShiftedOne(l, n, S, A, R)
  <2>1. \A m \in 1 .. l - n : m \in {j \in R : j <= l - n} <=> m \in R
    BY <1>1
  <2>2. {j \in R : j <= l - n} \in SUBSET (1 .. l - n)
    BY <1>1, <1>3
  <2> HIDE DEF S, R, A
  <2> QED
    BY <1>1, <1>2, <1>3, <1>4, <1>8, <2>1, <2>2 DEF ShiftedOne, Shifted
<1> HIDE DEF S, R, l, A
<1>10. /\ Cardinality(S) \in Nat
       /\ Cardinality(A) \in Nat
       /\ Cardinality(A) <= Cardinality(S)
       /\ Cardinality(R) = (Cardinality(S) - Cardinality(A))
                               + (IF l - n + 1 \in R THEN 1 ELSE 0)
  BY <1>9, CountStep
<1> QED
  BY <1>5, <1>7, <1>8, <1>10 DEF S
-----------------------------------------------------------------------------
(***************************************************************************)
(* The counters                                                            *)
(***************************************************************************)

LEMMA CountedUpdate ==
  ASSUME WindowType, Counted, NEW f \in Flow, NEW t \in Time, NEW d \in Decay,
         Update(f, t, d)
  PROVE  WindowType' /\ Counted'
<1> DEFINE n == Evicted(t, d)
<1>1. /\ index' = [i \in Index |-> [k \in Key |->
                     Monus(index[i][k], Gone(n, i, k)) + (IF KeyOf(i, f) = k THEN 1 ELSE 0)]]
      /\ dsts' = [p \in Pair |-> Monus(dsts[p], Gone(n, "src_dst", p))
                                   + (IF p = KeyOf("src_dst", f) THEN 1 ELSE 0)]
      /\ decay' = d
  BY DEF Update
<1>2. ASSUME NEW i \in Index, NEW k \in Key
      PROVE  /\ index'[i][k] = Cardinality(KeyedBy(i, k))'
             /\ index'[i][k] \in Nat
  <2>1. /\ Gone(n, i, k) \in Nat /\ Cardinality(KeyedBy(i, k)) \in Nat
        /\ Gone(n, i, k) <= Cardinality(KeyedBy(i, k))
        /\ Cardinality(KeyedBy(i, k))' =
             (Cardinality(KeyedBy(i, k)) - Gone(n, i, k)) + (IF KeyOf(i, f) = k THEN 1 ELSE 0)
    BY KeyedStep
  <2>2. index[i][k] = Cardinality(KeyedBy(i, k))
    BY DEF Counted
  <2>3. Monus(index[i][k], Gone(n, i, k)) = Cardinality(KeyedBy(i, k)) - Gone(n, i, k)
    BY <2>1, <2>2, MonusValue
  <2>4. index'[i][k] = Monus(index[i][k], Gone(n, i, k)) + (IF KeyOf(i, f) = k THEN 1 ELSE 0)
    BY <1>1
  <2> HIDE DEF n
  <2> QED
    BY <2>1, <2>3, <2>4
<1>3. ASSUME NEW p \in Pair
      PROVE  /\ dsts'[p] = Cardinality(KeyedBy("src_dst", p))'
             /\ dsts'[p] \in Nat
  <2>0. "src_dst" \in Index
    BY DEF Index
  <2>1. /\ Gone(n, "src_dst", p) \in Nat /\ Cardinality(KeyedBy("src_dst", p)) \in Nat
        /\ Gone(n, "src_dst", p) <= Cardinality(KeyedBy("src_dst", p))
        /\ Cardinality(KeyedBy("src_dst", p))' =
             (Cardinality(KeyedBy("src_dst", p)) - Gone(n, "src_dst", p))
                + (IF KeyOf("src_dst", f) = p THEN 1 ELSE 0)
    BY <2>0, KeyedStep
  <2>2. dsts[p] = Cardinality(KeyedBy("src_dst", p))
    BY DEF Counted
  <2>3. Monus(dsts[p], Gone(n, "src_dst", p))
          = Cardinality(KeyedBy("src_dst", p)) - Gone(n, "src_dst", p)
    BY <2>1, <2>2, MonusValue
  <2>4. dsts'[p] = Monus(dsts[p], Gone(n, "src_dst", p))
                     + (IF p = KeyOf("src_dst", f) THEN 1 ELSE 0)
    BY <1>1
  <2> HIDE DEF n
  <2> QED
    BY <2>1, <2>3, <2>4
<1>4. index' \in [Index -> [Key -> Nat]]
  <2>1. index' = [i \in Index |-> [k \in Key |-> index'[i][k]]]
    BY <1>1
  <2> QED
    BY <1>2, <2>1
<1>5. dsts' \in [Pair -> Nat]
  <2>1. dsts' = [p \in Pair |-> dsts'[p]]
    BY <1>1
  <2> QED
    BY <1>3, <2>1
<1>6. window' \in Seq(Entry) /\ Len(window') <= WindowSize
  BY WindowAfter
<1>7. WindowType'
  BY <1>1, <1>4, <1>5, <1>6 DEF WindowType
<1>8. Counted'
  BY <1>2, <1>3 DEF Counted
<1> QED
  BY <1>7, <1>8

\* An empty window, and counters without a key.
LEMMA CountedEmpty ==
  /\ Init => WindowType /\ Counted
  /\ WindowType /\ Restart => WindowType' /\ Counted'
<1>1. ASSUME window = <<>> PROVE \A i, k : Cardinality(KeyedBy(i, k)) = 0
  <2>1. Len(window) = 0
    BY <1>1
  <2>2. \A i, k : KeyedBy(i, k) = {}
    BY <2>1 DEF KeyedBy
  <2> QED
    BY <2>2, FS_EmptySet
<1>2. ASSUME window' = <<>> PROVE \A i, k : Cardinality(KeyedBy(i, k))' = 0
  <2>1. Len(window') = 0
    BY <1>2
  <2>2. \A i, k : KeyedBy(i, k)' = {}
    BY <2>1 DEF KeyedBy
  <2> QED
    BY <2>2, FS_EmptySet
<1>3. <<>> \in Seq(Entry) /\ Len(<<>>) <= WindowSize
  BY WindowAssumption
<1>4. ASSUME Init PROVE WindowType /\ Counted
  BY <1>1, <1>3, <1>4 DEF Init, WindowType, Counted
<1>5. ASSUME WindowType, Restart PROVE WindowType' /\ Counted'
  <2>1. WindowType'
    BY <1>3, <1>5 DEF Restart, WindowType
  <2>2. Counted'
    BY <1>2, <1>5 DEF Restart, Counted
  <2> QED
    BY <2>1, <2>2
<1> QED
  BY <1>4, <1>5

LEMMA CountedStep == WindowType /\ Counted /\ [Next]_vars => WindowType' /\ Counted'
<1> SUFFICES ASSUME WindowType, Counted, [Next]_vars PROVE WindowType' /\ Counted'
  OBVIOUS
<1>1. CASE UNCHANGED vars
  <2>1. \A i, k : KeyedBy(i, k)' = KeyedBy(i, k)
    BY <1>1 DEF vars, KeyedBy
  <2> QED
    BY <1>1, <2>1 DEF vars, WindowType, Counted
<1> QED
  BY <1>1, CountedUpdate, CountedEmpty DEF Next

\* The destinations a source has met are those of its flows in the window.
LEMMA DestinationsCounted ==
  ASSUME WindowType, Counted, NEW f \in Flow
  PROVE  Cardinality({p \in Pair : p[1] = f.src /\ dsts[p] > 0}) =
         Cardinality({window[m].flow.dst :
                        m \in {l \in DOMAIN window : window[l].flow.src = f.src}})
<1> DEFINE P == {p \in Pair : p[1] = f.src /\ dsts[p] > 0}
           M == {l \in DOMAIN window : window[l].flow.src = f.src}
           D == {window[m].flow.dst : m \in M}
           from == [m \in M |-> window[m].flow.dst]
           pair == [y \in D |-> <<f.src, y>>]
<1>1. /\ Len(window) \in Nat /\ DOMAIN window = 1 .. Len(window)
      /\ \A m \in 1 .. Len(window) : window[m].flow \in Flow
  <2>1. \A m \in 1 .. Len(window) : window[m] \in Entry
    BY DEF WindowType
  <2> QED
    BY <2>1 DEF WindowType, Entry
<1>2. IsFiniteSet(1 .. Len(window))
  BY <1>1, FS_Interval, 1 \in Int, Len(window) \in Int
<1>3. IsFiniteSet(M)
  BY <1>1, <1>2, FS_Subset
<1>4. from \in Surjection(M, D)
  BY DEF Surjection
<1>5. IsFiniteSet(D)
  BY <1>3, <1>4, FS_Surjection
<1>6. \A p \in Pair : dsts[p] > 0 <=> \E m \in 1 .. Len(window) : KeyOf("src_dst", window[m].flow) = p
  <2>1. ASSUME NEW p \in Pair
        PROVE  dsts[p] > 0 <=> \E m \in 1 .. Len(window) : KeyOf("src_dst", window[m].flow) = p
    <3>1. dsts[p] = Cardinality(KeyedBy("src_dst", p)) /\ dsts[p] \in Nat
      BY DEF Counted, WindowType
    <3>2. IsFiniteSet(KeyedBy("src_dst", p))
      BY <1>2, FS_Subset DEF KeyedBy
    <3>3. dsts[p] = 0 <=> KeyedBy("src_dst", p) = {}
      BY <3>1, <3>2, FS_EmptySet
    <3> QED
      BY <3>1, <3>3 DEF KeyedBy
  <2> QED
    BY <2>1
<1>7. \A m \in 1 .. Len(window) :
        /\ KeyOf("src_dst", window[m].flow) = <<window[m].flow.src, window[m].flow.dst>>
        /\ KeyOf("src_dst", window[m].flow) \in Pair
  BY <1>1, KeyTypes
<1>8. pair \in [D -> P]
  <2>1. ASSUME NEW y \in D PROVE <<f.src, y>> \in P
    <3>1. PICK m \in M : y = window[m].flow.dst
      OBVIOUS
    <3>2. m \in 1 .. Len(window) /\ window[m].flow.src = f.src
      BY <1>1
    <3>3. KeyOf("src_dst", window[m].flow) = <<f.src, y>> /\ <<f.src, y>> \in Pair
      BY <1>7, <3>1, <3>2
    <3>4. dsts[<<f.src, y>>] > 0
      BY <1>6, <3>2, <3>3
    <3> QED
      BY <3>3, <3>4
  <2> QED
    BY <2>1
<1>9. \A p \in P : \E y \in D : pair[y] = p
  <2>1. ASSUME NEW p \in P PROVE \E y \in D : pair[y] = p
    <3>1. PICK m \in 1 .. Len(window) : KeyOf("src_dst", window[m].flow) = p
      BY <1>6
    <3>2. p = <<window[m].flow.src, window[m].flow.dst>> /\ p[1] = f.src
      BY <1>7, <3>1
    <3>3. m \in M /\ p = <<f.src, window[m].flow.dst>>
      BY <1>1, <3>2
    <3> QED
      BY <3>3
  <2> QED
    BY <2>1
<1>10. \A y, z \in D : pair[y] = pair[z] => y = z
  OBVIOUS
<1> HIDE DEF P, D, M, pair
<1>11. pair \in Injection(D, P) /\ pair \in Surjection(D, P)
  BY <1>8, <1>9, <1>10, Fun_IsInj, Fun_IsSurj
<1>12. ExistsBijection(D, P)
  BY <1>11 DEF Bijection, ExistsBijection
<1>13. Cardinality(P) = Cardinality(D)
  BY <1>5, <1>12, FS_Bijection
<1> QED
  BY <1>13 DEF P, D, M

LEMMA CountedSound ==
  ASSUME WindowType, Counted
  PROVE  IndexSound
<1>1. ASSUME NEW f \in Flow, NEW i \in Index
      PROVE  index[i][KeyOf(i, f)] = Among(window, i, f)
  <2>1. KeyOf(i, f) \in Key
    BY KeyTypes
  <2>2. DOMAIN window = 1 .. Len(window)
    BY DEF WindowType
  <2>3. Among(window, i, f) = Cardinality(KeyedBy(i, KeyOf(i, f)))
    BY <2>2 DEF Among, KeyedBy
  <2> QED
    BY <2>1, <2>3 DEF Counted
<1>2. /\ "src_srv" \in Index /\ "dst_srv" \in Index /\ "dst" \in Index /\ "src" \in Index
      /\ "dst_dport" \in Index /\ "dst_sport" \in Index /\ "src_dst" \in Index
  BY DEF Index
<1>3. ASSUME NEW f \in Flow
      PROVE  CtStats(f) =
         [ct_srv_src |-> Among(window, "src_srv", f), ct_srv_dst |-> Among(window, "dst_srv", f),
          ct_dst_ltm |-> Among(window, "dst", f), ct_src_ltm |-> Among(window, "src", f),
          ct_src_dport_ltm |-> Among(window, "dst_dport", f),
          ct_dst_sport_ltm |-> Among(window, "dst_sport", f),
          ct_dst_src_ltm |-> Among(window, "src_dst", f)]
  BY <1>1, <1>2 DEF CtStats
<1>4. ASSUME NEW f \in Flow
      PROVE  C2Stats(f.src, f.dst).repeated_destination_count =
               Cardinality({p \in Pair : p[1] = f.src /\ dsts[p] > 0})
  BY DEF C2Stats
<1> QED
  BY <1>3, <1>4, DestinationsCounted DEF IndexSound

\* The counters describe the window, whatever was evicted and in whatever order
\* the stamps came.
THEOREM IndexInvariant == Spec => []IndexSound
<1>1. Init => WindowType /\ Counted
  BY CountedEmpty
<1>2. WindowType /\ Counted => IndexSound
  BY CountedSound
<1> QED
  BY <1>1, <1>2, CountedStep, PTL DEF Spec
-----------------------------------------------------------------------------
(***************************************************************************)
(* The deques of stamps                                                    *)
(***************************************************************************)

\* The entries of a pair with one stamp, and those among the first n.
HeldBy(p, u) ==
  {m \in 1 .. Len(window) : KeyOf("src_dst", window[m].flow) = p /\ window[m].time = u}
LeftBy(n, p, u) == {m \in 1 .. n : m \in HeldBy(p, u)}

StampsType ==
  /\ stamps \in [Pair -> Seq(Time)]
  /\ \A p \in Pair : Len(stamps[p]) <= StampMax

LEMMA TimesType ==
  ASSUME NEW s \in Seq(Time), NEW u
  PROVE  /\ IsFiniteSet({m \in DOMAIN s : s[m] = u}) /\ Times(s, u) \in Nat
         /\ Times(s, u) = 0 => \A m \in 1 .. Len(s) : s[m] # u
<1> DEFINE P == {m \in DOMAIN s : s[m] = u}
<1>1. IsFiniteSet(1 .. Len(s)) /\ DOMAIN s = 1 .. Len(s)
  BY FS_Interval, 1 \in Int, Len(s) \in Int
<1>2. IsFiniteSet(P)
  BY <1>1, FS_Subset
<1>3. Cardinality(P) \in Nat /\ (Cardinality(P) = 0 => P = {})
  BY <1>2, FS_CardinalityType, FS_EmptySet
<1>4. P = {} => \A m \in 1 .. Len(s) : s[m] # u
  BY <1>1
<1> QED
  BY <1>2, <1>3, <1>4 DEF Times

\* Sequence r is s without the element at j.
Removed(s, j, r) ==
  /\ s \in Seq(Time) /\ j \in 1 .. Len(s) /\ r \in Seq(Time) /\ Len(r) = Len(s) - 1
  /\ \A m \in 1 .. Len(r) : r[m] = s[IF m < j THEN m ELSE m + 1]

LEMMA RemovedTimes ==
  ASSUME NEW s, NEW j, NEW r, Removed(s, j, r), NEW u
  PROVE  /\ Times(r, u) \in Nat /\ Times(s, u) \in Nat /\ Times(r, u) <= Times(s, u)
         /\ s[j] = u => Times(r, u) <= Times(s, u) - 1
<1> DEFINE P == {m \in DOMAIN s : s[m] = u}
           Q == {m \in DOMAIN r : r[m] = u}
           skip == [m \in Q |-> IF m < j THEN m ELSE m + 1]
<1>1. /\ s \in Seq(Time) /\ r \in Seq(Time) /\ Len(s) \in Nat /\ Len(r) = Len(s) - 1
      /\ j \in 1 .. Len(s) /\ DOMAIN s = 1 .. Len(s) /\ DOMAIN r = 1 .. Len(r)
      /\ \A m \in 1 .. Len(r) : r[m] = s[IF m < j THEN m ELSE m + 1]
  BY DEF Removed
<1>2. /\ IsFiniteSet(P) /\ Cardinality(P) \in Nat /\ Cardinality(P) = Times(s, u)
      /\ IsFiniteSet(Q) /\ Cardinality(Q) \in Nat /\ Cardinality(Q) = Times(r, u)
  BY <1>1, TimesType DEF Times
<1>3. \A m \in Q : m \in Nat /\ skip[m] \in P \ {j}
  <2>1. ASSUME NEW m \in Q PROVE m \in Nat /\ skip[m] \in P \ {j}
    <3>1. m \in 1 .. Len(r) /\ r[m] = u
      BY <1>1
    <3>2. /\ (IF m < j THEN m ELSE m + 1) \in 1 .. Len(s)
          /\ (IF m < j THEN m ELSE m + 1) # j /\ m \in Nat
      BY <1>1, <3>1
    <3>3. s[IF m < j THEN m ELSE m + 1] = u
      BY <1>1, <3>1
    <3> QED
      BY <1>1, <3>2, <3>3
  <2> QED
    BY <2>1
<1>4. \A a, b \in Q : skip[a] = skip[b] => a = b
  <2>1. \A a \in Q : a \in Nat
    BY <1>3
  <2>2. j \in Nat
    BY <1>1
  <2> QED
    BY <2>1, <2>2
<1>5. skip \in [Q -> P \ {j}]
  BY <1>3
<1> HIDE DEF P, Q, skip
<1>6. skip \in Injection(Q, P \ {j})
  BY <1>4, <1>5, Fun_IsInj
<1>7. IsFiniteSet(P \ {j}) /\ Cardinality(P \ {j}) \in Nat
  BY <1>2, FS_Difference, FS_CardinalityType
<1>8. Cardinality(Q) <= Cardinality(P \ {j})
  BY <1>6, <1>7, FS_Injection
<1>9. Cardinality(P \ {j}) <= Cardinality(P)
  BY <1>2, FS_Subset
<1>10. s[j] = u => j \in P
  BY <1>1 DEF P
<1>11. j \in P => Cardinality(P \ {j}) = Cardinality(P) - 1
  BY <1>2, FS_RemoveElement
<1> QED
  BY <1>2, <1>7, <1>8, <1>9, <1>10, <1>11

LEMMA TailRemoved ==
  ASSUME NEW s \in Seq(Time), s # <<>>
  PROVE  Removed(s, 1, Tail(s))
<1>1. /\ Tail(s) \in Seq(Time) /\ Len(Tail(s)) = Len(s) - 1
      /\ \A i \in 1 .. Len(Tail(s)) : Tail(s)[i] = s[i + 1]
  BY HeadTailProperties
<1>2. 1 \in 1 .. Len(s)
  OBVIOUS
<1> QED
  BY <1>1, <1>2 DEF Removed

\* remove() takes out one element, an element equal to t if there is one.
LEMMA WithoutRemoves ==
  ASSUME NEW s \in Seq(Time), NEW t
  PROVE  \/ Without(s, t) = s /\ s = <<>>
         \/ \E j \in 1 .. Len(s) :
              /\ Removed(s, j, Without(s, t))
              /\ (\E m \in DOMAIN s : s[m] = t) => s[j] = t
<1>0. DOMAIN s = 1 .. Len(s) /\ Len(s) \in Nat
  OBVIOUS
<1>1. CASE \E m \in DOMAIN s : s[m] = t
  <2> DEFINE P == {m \in 1 .. Len(s) : s[m] = t}
             first == CHOOSE m \in DOMAIN s : s[m] = t /\ \A l \in 1 .. m - 1 : s[l] # t
             r == SubSeq(s, 1, first - 1) \o SubSeq(s, first + 1, Len(s))
  <2>1. \E m \in DOMAIN s : s[m] = t /\ \A l \in 1 .. m - 1 : s[l] # t
    <3>1. P \in SUBSET Nat /\ P # {}
      BY <1>0, <1>1
    <3>2. PICK x \in P : \A y \in P : x <= y
      BY <3>1, LeastElement
    <3>3. x \in DOMAIN s /\ s[x] = t /\ x \in Nat
      BY <1>0
    <3>4. \A l \in 1 .. x - 1 : s[l] # t
      <4>1. ASSUME NEW l \in 1 .. x - 1 PROVE s[l] # t
        <5>1. l \in 1 .. Len(s) /\ ~ (x <= l)
          BY <1>0, <3>3
        <5> QED
          BY <3>2, <5>1
      <4> QED
        BY <4>1
    <3> QED
      BY <3>3, <3>4
  <2>2. first \in DOMAIN s /\ s[first] = t
    BY <2>1
  <2>3. Without(s, t) = r
    BY <1>1 DEF Without
  <2> HIDE DEF first
  <2>4. first \in 1 .. Len(s) /\ first - 1 \in Int /\ first + 1 \in Int
    BY <1>0, <2>2
  <2>5. /\ \A i \in 1 .. first - 1 : s[i] \in Time
        /\ \A i \in first + 1 .. Len(s) : s[i] \in Time
    BY <1>0, <2>4
  <2> DEFINE a == SubSeq(s, 1, first - 1)
             b == SubSeq(s, first + 1, Len(s))
  <2>6. /\ a \in Seq(Time)
        /\ Len(a) = IF 1 <= first - 1 THEN (first - 1) - 1 + 1 ELSE 0
        /\ \A i \in 1 .. (first - 1) - 1 + 1 : a[i] = s[1 + i - 1]
    BY <2>4, <2>5, 1 \in Int, SubSeqProperties
  <2>7. /\ b \in Seq(Time)
        /\ Len(b) = IF first + 1 <= Len(s) THEN Len(s) - (first + 1) + 1 ELSE 0
        /\ \A i \in 1 .. Len(s) - (first + 1) + 1 : b[i] = s[(first + 1) + i - 1]
    BY <1>0, <2>4, <2>5, Len(s) \in Int, SubSeqProperties
  <2> HIDE DEF a, b
  <2>81. first \in Int /\ Len(s) \in Int /\ 1 <= first /\ first <= Len(s)
    BY <1>0, <2>4
  <2>82. Len(a) = first - 1
    <3>1. CASE 1 <= first - 1
      <4>1. Len(a) = (first - 1) - 1 + 1
        BY <2>6, <3>1
      <4> QED
        BY <2>81, <4>1
    <3>2. CASE ~(1 <= first - 1)
      <4>1. Len(a) = 0
        BY <2>6, <3>2
      <4> QED
        BY <2>81, <3>2, <4>1
    <3> QED
      BY <3>1, <3>2
  <2>83. Len(b) = Len(s) - first
    <3>1. CASE first + 1 <= Len(s)
      <4>1. Len(b) = Len(s) - (first + 1) + 1
        BY <2>7, <3>1
      <4> QED
        BY <2>81, <4>1
    <3>2. CASE ~(first + 1 <= Len(s))
      <4>1. Len(b) = 0
        BY <2>7, <3>2
      <4> QED
        BY <2>81, <3>2, <4>1
    <3> QED
      BY <3>1, <3>2
  <2>8. Len(a) = first - 1 /\ Len(b) = Len(s) - first
    BY <2>82, <2>83
  <2>9. /\ a \o b \in Seq(Time) /\ Len(a \o b) = Len(a) + Len(b)
        /\ \A i \in 1 .. Len(a) + Len(b) :
             (a \o b)[i] = IF i <= Len(a) THEN a[i] ELSE b[i - Len(a)]
    BY <2>6, <2>7, ConcatProperties
  <2>10. ASSUME NEW m \in 1 .. Len(a \o b)
         PROVE  (a \o b)[m] = s[IF m < first THEN m ELSE m + 1]
    <3>1. m \in 1 .. Len(a) + Len(b) /\ m \in Int /\ Len(a) + Len(b) = Len(s) - 1
      BY <1>0, <2>4, <2>8, <2>9
    <3>2. CASE m < first
      <4>1. m <= Len(a) /\ m \in 1 .. (first - 1) - 1 + 1 /\ 1 + m - 1 = m
        BY <2>4, <2>8, <3>1, <3>2
      <4> QED
        BY <2>6, <2>9, <3>1, <3>2, <4>1
    <3>3. CASE ~(m < first)
      <4>1. /\ ~(m <= Len(a)) /\ m - Len(a) \in 1 .. Len(s) - (first + 1) + 1
            /\ (first + 1) + (m - Len(a)) - 1 = m + 1
        BY <1>0, <2>4, <2>8, <3>1, <3>3
      <4> QED
        BY <2>7, <2>9, <3>1, <3>3, <4>1
    <3> QED
      BY <3>2, <3>3
  <2>11. r = a \o b
    BY DEF a, b
  <2> HIDE DEF r
  <2>12. Len(a \o b) = Len(s) - 1
    BY <1>0, <2>4, <2>8, <2>9
  <2>13. Removed(s, first, a \o b)
    BY <2>4, <2>9, <2>10, <2>12 DEF Removed
  <2> QED
    BY <2>2, <2>3, <2>4, <2>11, <2>13
<1>2. CASE ~\E m \in DOMAIN s : s[m] = t
  <2>1. CASE s = <<>>
    BY <1>2, <2>1 DEF Without
  <2>2. CASE s # <<>>
    <3>1. Without(s, t) = Tail(s) /\ 1 \in 1 .. Len(s)
      BY <1>2, <2>2 DEF Without
    <3> QED
      BY <1>2, <2>2, <3>1, TailRemoved
  <2> QED
    BY <2>1, <2>2
<1> QED
  BY <1>1, <1>2

LEMMA WithoutTimes ==
  ASSUME NEW s \in Seq(Time), NEW t, Len(s) <= StampMax
  PROVE  /\ Without(s, t) \in Seq(Time) /\ Len(Without(s, t)) <= StampMax
         /\ \A u : Times(Without(s, t), u) <= Times(s, u)
         /\ Times(s, t) # 0 => Times(Without(s, t), t) <= Times(s, t) - 1
<1>0. Len(s) \in Nat /\ StampMax \in Nat /\ DOMAIN s = 1 .. Len(s)
  BY WindowAssumption
<1>1. \A u : Times(s, u) \in Nat
  BY TimesType
<1>2. CASE Without(s, t) = s /\ s = <<>>
  <2>1. DOMAIN s = {}
    BY <1>2
  <2>2. {m \in DOMAIN s : s[m] = t} = {}
    BY <2>1
  <2>3. Times(s, t) = 0
    BY <2>2, FS_EmptySet DEF Times
  <2> QED
    BY <1>1, <1>2, <2>3
<1>3. CASE \E j \in 1 .. Len(s) :
             /\ Removed(s, j, Without(s, t))
             /\ (\E m \in DOMAIN s : s[m] = t) => s[j] = t
  <2>1. PICK j \in 1 .. Len(s) :
             /\ Removed(s, j, Without(s, t))
             /\ (\E m \in DOMAIN s : s[m] = t) => s[j] = t
    BY <1>3
  <2>2. Without(s, t) \in Seq(Time) /\ Len(Without(s, t)) = Len(s) - 1
    BY <2>1 DEF Removed
  <2>3. \A u : /\ Times(Without(s, t), u) <= Times(s, u)
               /\ s[j] = u => Times(Without(s, t), u) <= Times(s, u) - 1
    BY <2>1, RemovedTimes
  <2>4. Times(s, t) # 0 => \E m \in DOMAIN s : s[m] = t
    <3>1. ASSUME ~ \E m \in DOMAIN s : s[m] = t PROVE Times(s, t) = 0
      <4>1. {m \in DOMAIN s : s[m] = t} = {}
        BY <3>1
      <4> QED
        BY <4>1, FS_EmptySet DEF Times
    <3> QED
      BY <3>1
  <2> QED
    BY <1>0, <2>1, <2>2, <2>3, <2>4
<1> QED
  BY <1>2, <1>3, WithoutRemoves

\* A new stamp at the end, the oldest one out of a full deque.
LEMMA PushTimes ==
  ASSUME NEW s \in Seq(Time), Len(s) <= StampMax, NEW t \in Time
  PROVE  /\ Push(s, t, StampMax) \in Seq(Time) /\ Len(Push(s, t, StampMax)) <= StampMax
         /\ \A u : Times(Push(s, t, StampMax), u) <= Times(s, u) + (IF u = t THEN 1 ELSE 0)
<1>0. Len(s) \in Nat /\ StampMax \in Nat /\ StampMax >= 1
  BY WindowAssumption
<1>1. ASSUME NEW q \in Seq(Time), NEW u
      PROVE  /\ Append(q, t) \in Seq(Time) /\ Len(Append(q, t)) = Len(q) + 1 /\ Len(q) \in Nat
             /\ Times(q, u) \in Nat
             /\ Times(Append(q, t), u) <= Times(q, u) + (IF u = t THEN 1 ELSE 0)
  <2> DEFINE P == {m \in DOMAIN q : q[m] = u}
             Q == {m \in DOMAIN Append(q, t) : Append(q, t)[m] = u}
             l == Len(q)
  <2>1. /\ Append(q, t) \in Seq(Time) /\ Len(Append(q, t)) = l + 1 /\ l \in Nat
        /\ \A i \in 1 .. l : Append(q, t)[i] = q[i]
        /\ Append(q, t)[l + 1] = t
    BY AppendProperties
  <2>2. DOMAIN q = 1 .. l /\ DOMAIN Append(q, t) = 1 .. l + 1
    BY <2>1
  <2>3. \A m \in 1 .. l + 1 : m \in 1 .. l \/ m = l + 1
    BY <2>1
  <2>4. Q \subseteq P \cup {l + 1} /\ (u # t => Q \subseteq P)
    BY <2>1, <2>2, <2>3
  <2>5. IsFiniteSet(P) /\ Cardinality(P) \in Nat /\ Cardinality(P) = Times(q, u)
    BY TimesType DEF Times
  <2>6. Cardinality(Q) \in Nat /\ Cardinality(Q) = Times(Append(q, t), u)
    BY <2>1, TimesType DEF Times
  <2> HIDE DEF P, Q, l
  <2>71. /\ IsFiniteSet(P \cup {l + 1})
         /\ Cardinality(P \cup {l + 1}) = Cardinality(P) \/ Cardinality(P \cup {l + 1}) = Cardinality(P) + 1
    BY <2>5, FS_AddElement
  <2>7. IsFiniteSet(P \cup {l + 1}) /\ Cardinality(P \cup {l + 1}) <= Cardinality(P) + 1
    BY <2>5, <2>71
  <2>8. Cardinality(P \cup {l + 1}) \in Nat
    BY <2>7, FS_CardinalityType
  <2>9. Cardinality(Q) <= Cardinality(P \cup {l + 1})
    BY <2>4, <2>7, FS_Subset
  <2>10. u # t => Cardinality(Q) <= Cardinality(P)
    BY <2>4, <2>5, FS_Subset
  <2> QED
    BY <2>1, <2>5, <2>6, <2>7, <2>8, <2>9, <2>10 DEF l
<1>2. CASE Len(s) < StampMax
  BY <1>0, <1>1, <1>2 DEF Push
<1>3. CASE ~(Len(s) < StampMax)
  <2>1. s # <<>> /\ Push(s, t, StampMax) = Append(Tail(s), t)
    BY <1>0, <1>3 DEF Push
  <2>2. Removed(s, 1, Tail(s)) /\ Tail(s) \in Seq(Time) /\ Len(Tail(s)) = Len(s) - 1
    BY <2>1, TailRemoved DEF Removed
  <2>3. \A u : Times(Tail(s), u) \in Nat /\ Times(s, u) \in Nat /\ Times(Tail(s), u) <= Times(s, u)
    BY <2>2, RemovedTimes
  <2>4. /\ Append(Tail(s), t) \in Seq(Time) /\ Len(Append(Tail(s), t)) = Len(Tail(s)) + 1
    BY <1>1, <2>2
  <2>5. ASSUME NEW u
        PROVE  Times(Append(Tail(s), t), u) <= Times(s, u) + (IF u = t THEN 1 ELSE 0)
    <3>1. Times(Append(Tail(s), t), u) <= Times(Tail(s), u) + (IF u = t THEN 1 ELSE 0)
      BY <1>1, <2>2
    <3>2. Times(Append(Tail(s), t), u) \in Nat
      BY <2>4, TimesType
    <3> QED
      BY <2>3, <3>1, <3>2
  <2> QED
    BY <1>0, <2>1, <2>2, <2>4, <2>5
<1> QED
  BY <1>2, <1>3
\* The deques after the first m entries of the window have left.
IsAfter(g, n, p) ==
  g = [m \in 0 .. n |->
        IF m = 0 THEN stamps[p]
        ELSE IF KeyOf("src_dst", window[m].flow) = p
        THEN Without(g[m - 1], window[m].time)
        ELSE g[m - 1]]
After(n, p) == CHOOSE g : IsAfter(g, n, p)

LEMMA StampsAfterIs ==
  ASSUME NEW n, NEW p
  PROVE  StampsAfter(n, p) = After(n, p)[n]
BY DEF StampsAfter, After, IsAfter

LEMMA AfterExists ==
  ASSUME NEW p, NEW n \in Nat
  PROVE  IsAfter(After(n, p), n, p)
<1> DEFINE Missing == {k \in Nat : ~ \E g : IsAfter(g, k, p)}
           step(s, m) == IF KeyOf("src_dst", window[m].flow) = p
                         THEN Without(s, window[m].time) ELSE s
<1>1. \E g : IsAfter(g, 0, p)
  <2>1. IsAfter([m \in 0 .. 0 |-> stamps[p]], 0, p)
    <3> DEFINE g == [m \in 0 .. 0 |-> stamps[p]]
    <3>1. \A m \in 0 .. 0 : m = 0
      OBVIOUS
    <3>2. g = [m \in 0 .. 0 |-> IF m = 0 THEN stamps[p] ELSE step(g[m - 1], m)]
      BY <3>1
    <3> QED
      BY <3>2 DEF IsAfter
  <2> QED
    BY <2>1
<1>2. ASSUME NEW k \in Nat, \E g : IsAfter(g, k, p)
      PROVE  \E h : IsAfter(h, k + 1, p)
  <2>1. PICK g : IsAfter(g, k, p)
    BY <1>2
  <2> DEFINE h == [m \in 0 .. k + 1 |-> IF m = k + 1 THEN step(g[k], k + 1) ELSE g[m]]
  <2>2. \A m \in 0 .. k : g[m] = IF m = 0 THEN stamps[p] ELSE step(g[m - 1], m)
    BY <2>1 DEF IsAfter
  <2> HIDE DEF step
  <2>3. \A m \in 0 .. k + 1 : h[m] = IF m = 0 THEN stamps[p] ELSE step(h[m - 1], m)
    <3>1. ASSUME NEW m \in 0 .. k + 1
          PROVE  h[m] = IF m = 0 THEN stamps[p] ELSE step(h[m - 1], m)
      <4>1. CASE m = k + 1
        <5>1. m # 0 /\ m - 1 = k /\ k \in 0 .. k + 1 /\ k # k + 1
          BY <4>1
        <5>2. h[m - 1] = g[k] /\ h[m] = step(g[k], k + 1)
          BY <4>1, <5>1
        <5> QED
          BY <4>1, <5>1, <5>2
      <4>2. CASE m # k + 1
        <5>1. m \in 0 .. k /\ h[m] = g[m]
          BY <4>2
        <5>2. m # 0 => m - 1 \in 0 .. k + 1 /\ m - 1 # k + 1
          BY <5>1
        <5>3. m # 0 => h[m - 1] = g[m - 1]
          BY <5>2
        <5> QED
          BY <2>2, <5>1, <5>3
      <4> QED
        BY <4>1, <4>2
    <3> QED
      BY <3>1
  <2>4. h = [m \in 0 .. k + 1 |-> h[m]]
    OBVIOUS
  <2> HIDE DEF h
  <2>5. h = [m \in 0 .. k + 1 |-> IF m = 0 THEN stamps[p] ELSE step(h[m - 1], m)]
    BY <2>3, <2>4
  <2> USE DEF step
  <2>6. IsAfter(h, k + 1, p)
    BY <2>5 DEF IsAfter
  <2> QED
    BY <2>6
<1> HIDE DEF step
<1>3. Missing = {}
  <2> SUFFICES ASSUME Missing # {} PROVE FALSE
    OBVIOUS
  <2>1. PICK x \in Missing : \A y \in Missing : x <= y
    BY LeastElement
  <2>2. x \in Nat /\ x # 0
    BY <1>1
  <2>3. x - 1 \in Nat /\ x - 1 \notin Missing /\ (x - 1) + 1 = x
    BY <2>1, <2>2
  <2>4. \E g : IsAfter(g, x - 1, p)
    BY <2>3
  <2>5. \E h : IsAfter(h, (x - 1) + 1, p)
    BY <1>2, <2>3, <2>4
  <2> QED
    BY <2>3, <2>5
<1>4. \E g : IsAfter(g, n, p)
  BY <1>3
<1> QED
  BY <1>4 DEF After

\* No pair of hosts holds a stamp more often than the window does.
NoGhosts ==
  \A p \in Pair, u \in Time : Times(stamps[p], u) <= Cardinality(HeldBy(p, u))

LEMMA LeftCount ==
  ASSUME WindowType, NEW p, NEW u, NEW m \in 0 .. Len(window)
  PROVE  /\ Cardinality(HeldBy(p, u)) \in Nat /\ Cardinality(LeftBy(m, p, u)) \in Nat
         /\ Cardinality(LeftBy(m, p, u)) <= Cardinality(HeldBy(p, u))
         /\ m = 0 => Cardinality(LeftBy(m, p, u)) = 0
         /\ m > 0 => /\ Cardinality(LeftBy(m, p, u)) <= Cardinality(LeftBy(m - 1, p, u)) + 1
                     /\ m \notin HeldBy(p, u) =>
                          Cardinality(LeftBy(m, p, u)) = Cardinality(LeftBy(m - 1, p, u))
<1>1. Len(window) \in Nat
  BY DEF WindowType
<1>2. IsFiniteSet(1 .. Len(window))
  BY <1>1, FS_Interval, 1 \in Int, Len(window) \in Int
<1>3. IsFiniteSet(HeldBy(p, u)) /\ Cardinality(HeldBy(p, u)) \in Nat
  BY <1>2, FS_Subset, FS_CardinalityType DEF HeldBy
<1>4. \A k : LeftBy(k, p, u) \subseteq HeldBy(p, u)
  BY DEF LeftBy
<1>5. \A k : /\ IsFiniteSet(LeftBy(k, p, u)) /\ Cardinality(LeftBy(k, p, u)) \in Nat
             /\ Cardinality(LeftBy(k, p, u)) <= Cardinality(HeldBy(p, u))
  <2>1. ASSUME NEW k
        PROVE /\ IsFiniteSet(LeftBy(k, p, u)) /\ Cardinality(LeftBy(k, p, u)) \in Nat
              /\ Cardinality(LeftBy(k, p, u)) <= Cardinality(HeldBy(p, u))
    <3>1. LeftBy(k, p, u) \subseteq HeldBy(p, u)
      BY <1>4
    <3> QED
      BY <1>3, <3>1, FS_Subset, FS_CardinalityType
  <2> QED
    BY <2>1
<1>6. m = 0 => LeftBy(m, p, u) = {}
  BY DEF LeftBy
<1>7. m > 0 => /\ LeftBy(m, p, u) \subseteq LeftBy(m - 1, p, u) \cup {m}
               /\ m \notin HeldBy(p, u) => LeftBy(m, p, u) = LeftBy(m - 1, p, u)
  BY DEF LeftBy
<1> DEFINE B == LeftBy(m - 1, p, u) \cup {m}
<1>8. IsFiniteSet(B) /\ Cardinality(B) \in Nat
  BY <1>5, FS_AddElement, FS_CardinalityType
<1>9. Cardinality(B) = Cardinality(LeftBy(m - 1, p, u))
        \/ Cardinality(B) = Cardinality(LeftBy(m - 1, p, u)) + 1
  BY <1>5, FS_AddElement
<1>10. m > 0 => Cardinality(LeftBy(m, p, u)) <= Cardinality(B)
  BY <1>7, <1>8, FS_Subset
<1>11. m > 0 => Cardinality(LeftBy(m, p, u)) <= Cardinality(LeftBy(m - 1, p, u)) + 1
  <2> HIDE DEF B
  <2> QED
    BY <1>5, <1>8, <1>9, <1>10
<1>12. m = 0 => Cardinality(LeftBy(m, p, u)) = 0
  BY <1>6, FS_EmptySet
<1> QED
  BY <1>3, <1>5, <1>7, <1>11, <1>12

\* What is left of a deque when the first m entries have gone: no stamp more
\* often than the entries that stay.
AfterSound(g, m, p) ==
  /\ g[m] \in Seq(Time) /\ Len(g[m]) <= StampMax
  /\ \A u \in Time :
       Times(g[m], u) + Cardinality(LeftBy(m, p, u)) <= Cardinality(HeldBy(p, u))

LEMMA AfterKeeps ==
  ASSUME WindowType, StampsType, NoGhosts, NEW p \in Pair, NEW n \in 0 .. Len(window),
         NEW g, IsAfter(g, n, p)
  PROVE  AfterSound(g, n, p)
<1>0. Len(window) \in Nat /\ StampMax \in Nat
  BY WindowAssumption DEF WindowType
<1>1. AfterSound(g, 0, p)
  <2>1. g[0] = stamps[p]
    BY <1>0 DEF IsAfter
  <2>2. ASSUME NEW u \in Time
        PROVE  Times(g[0], u) + Cardinality(LeftBy(0, p, u)) <= Cardinality(HeldBy(p, u))
    <3>1. Cardinality(LeftBy(0, p, u)) = 0 /\ Cardinality(HeldBy(p, u)) \in Nat
      BY <1>0, LeftCount, 0 \in 0 .. Len(window)
    <3>2. Times(g[0], u) \in Nat
      BY <2>1, TimesType DEF StampsType
    <3> QED
      BY <2>1, <3>1, <3>2 DEF NoGhosts
  <2> QED
    BY <2>1, <2>2 DEF AfterSound, StampsType
<1>2. ASSUME NEW m \in 1 .. n, AfterSound(g, m - 1, p)
      PROVE  AfterSound(g, m, p)
  <2> DEFINE s == g[m - 1]
             t == window[m].time
  <2>1. /\ m \in 0 .. Len(window) /\ m - 1 \in 0 .. Len(window) /\ m > 0
        /\ m \in 1 .. Len(window) /\ m \in 0 .. n /\ m # 0
    BY <1>0
  <2>2. g[m] = IF KeyOf("src_dst", window[m].flow) = p THEN Without(s, t) ELSE s
    BY <2>1 DEF IsAfter
  <2>3. /\ s \in Seq(Time) /\ Len(s) <= StampMax
        /\ \A u \in Time : Times(s, u) + Cardinality(LeftBy(m - 1, p, u))
                             <= Cardinality(HeldBy(p, u))
    BY <1>2 DEF AfterSound
  <2>4. t \in Time
    <3>1. window[m] \in Entry
      BY <2>1 DEF WindowType
    <3> QED
      BY <3>1 DEF Entry
  <2>5. ASSUME NEW u \in Time
        PROVE  /\ Cardinality(HeldBy(p, u)) \in Nat /\ Cardinality(LeftBy(m, p, u)) \in Nat
               /\ Cardinality(LeftBy(m - 1, p, u)) \in Nat
               /\ Cardinality(LeftBy(m, p, u)) <= Cardinality(HeldBy(p, u))
               /\ Cardinality(LeftBy(m, p, u)) <= Cardinality(LeftBy(m - 1, p, u)) + 1
               /\ m \notin HeldBy(p, u) =>
                          Cardinality(LeftBy(m, p, u)) = Cardinality(LeftBy(m - 1, p, u))
    BY <2>1, LeftCount
  <2>6. CASE KeyOf("src_dst", window[m].flow) = p
    <3> DEFINE r == Without(s, t)
    <3>1. /\ r \in Seq(Time) /\ Len(r) <= StampMax
          /\ \A u : Times(r, u) <= Times(s, u)
          /\ Times(s, t) # 0 => Times(r, t) <= Times(s, t) - 1
      BY <2>3, WithoutTimes
    <3>2. g[m] = r
      BY <2>2, <2>6
    <3> HIDE DEF r, s, t
    <3>3. ASSUME NEW u \in Time
          PROVE  Times(r, u) + Cardinality(LeftBy(m, p, u)) <= Cardinality(HeldBy(p, u))
      <4>1. Times(r, u) \in Nat /\ Times(s, u) \in Nat
        BY <2>3, <3>1, TimesType
      <4>2. Times(s, u) + Cardinality(LeftBy(m - 1, p, u)) <= Cardinality(HeldBy(p, u))
        BY <2>3
      <4>3. CASE u = t
        <5>1. Times(s, u) # 0 => Times(r, u) <= Times(s, u) - 1
          BY <3>1, <4>3
        <5>2. Times(r, u) <= Times(s, u)
          BY <3>1
        <5> QED
          BY <2>5, <4>1, <4>2, <5>1, <5>2
      <4>4. CASE u # t
        <5>1. m \notin HeldBy(p, u)
          BY <4>4 DEF HeldBy, t
        <5>2. Times(r, u) <= Times(s, u)
          BY <3>1
        <5> QED
          BY <2>5, <4>1, <4>2, <5>1, <5>2
      <4> QED
        BY <4>3, <4>4
    <3> QED
      BY <3>1, <3>2, <3>3 DEF AfterSound
  <2>7. CASE KeyOf("src_dst", window[m].flow) # p
    <3>1. g[m] = s
      BY <2>2, <2>7
    <3>2. \A u \in Time : m \notin HeldBy(p, u)
      BY <2>7 DEF HeldBy
    <3> HIDE DEF s
    <3>3. ASSUME NEW u \in Time
          PROVE  Times(s, u) + Cardinality(LeftBy(m, p, u)) <= Cardinality(HeldBy(p, u))
      BY <2>3, <2>5, <3>2
    <3> QED
      BY <2>3, <3>1, <3>3 DEF AfterSound
  <2> QED
    BY <2>6, <2>7
<1> DEFINE Bad == {m \in 0 .. n : ~AfterSound(g, m, p)}
<1>3. Bad = {}
  <2> SUFFICES ASSUME Bad # {} PROVE FALSE
    OBVIOUS
  <2>1. Bad \in SUBSET Nat
    BY <1>0
  <2>2. PICK x \in Bad : \A y \in Bad : x <= y
    BY <2>1, LeastElement
  <2>3. x \in 0 .. n /\ x \in Nat /\ x # 0 /\ ~AfterSound(g, x, p)
    BY <1>1, <2>1
  <2>4. x \in 1 .. n /\ x - 1 \in 0 .. n /\ ~(x <= x - 1)
    BY <1>0, <2>3
  <2>5. AfterSound(g, x - 1, p)
    BY <2>2, <2>4
  <2> QED
    BY <1>2, <2>3, <2>4, <2>5
<1>4. n \in 0 .. n
  BY <1>0
<1> QED
  BY <1>3, <1>4

\* How the entries of a pair with one stamp change.
LEMMA HeldStep ==
  ASSUME WindowType, NEW f \in Flow, NEW t \in Time, NEW d \in Decay, Update(f, t, d),
         NEW n, n = Evicted(t, d), NEW p, NEW u
  PROVE  Cardinality(HeldBy(p, u))' =
           (Cardinality(HeldBy(p, u)) - Cardinality(LeftBy(n, p, u)))
             + (IF KeyOf("src_dst", f) = p /\ t = u THEN 1 ELSE 0)
<1> DEFINE l == Len(window)
           S == HeldBy(p, u)
           A == LeftBy(n, p, u)
           R == {m \in 1 .. Len(window') :
                   KeyOf("src_dst", window'[m].flow) = p /\ window'[m].time = u}
<1>1. /\ n \in 0 .. l /\ l \in Nat /\ Len(window') = l - n + 1
      /\ \A m \in 1 .. l - n : window'[m] = window[m + n]
      /\ window'[l - n + 1] = [flow |-> f, time |-> t]
  BY WindowAfter
<1>2. S \in SUBSET (1 .. l)
  BY DEF HeldBy
<1>3. R \in SUBSET (1 .. l - n + 1)
  BY <1>1
<1>4. \A m \in 1 .. l - n : m \in R <=> m + n \in S
  <2>1. ASSUME NEW m \in 1 .. l - n PROVE m \in R <=> m + n \in S
    <3>1. m \in 1 .. Len(window') /\ m + n \in 1 .. l /\ window'[m] = window[m + n]
      BY <1>1
    <3> QED
      BY <3>1 DEF HeldBy
  <2> QED
    BY <2>1
<1>5. l - n + 1 \in R <=> (KeyOf("src_dst", f) = p /\ t = u)
  <2>1. /\ l - n + 1 \in 1 .. Len(window')
        /\ window'[l - n + 1].flow = f /\ window'[l - n + 1].time = t
    BY <1>1
  <2> QED
    BY <2>1
<1>6. A \in SUBSET (1 .. n) /\ \A m \in 1 .. n : m \in A <=> m \in S
  BY DEF LeftBy
<1>7. Cardinality(HeldBy(p, u))' = Cardinality(R)
  BY DEF HeldBy
<1>8. ShiftedOne(l, n, S, A, R)
  <2>1. \A m \in 1 .. l - n : m \in {j \in R : j <= l - n} <=> m \in R
    BY <1>1
  <2>2. {j \in R : j <= l - n} \in SUBSET (1 .. l - n)
    BY <1>1, <1>3
  <2> HIDE DEF S, R, A
  <2> QED
    BY <1>1, <1>2, <1>3, <1>4, <1>6, <2>1, <2>2 DEF ShiftedOne, Shifted
<1> HIDE DEF S, R, l, A
<1>9. Cardinality(R) = (Cardinality(S) - Cardinality(A))
                               + (IF l - n + 1 \in R THEN 1 ELSE 0)
  BY <1>8, CountStep
<1> QED
  BY <1>5, <1>7, <1>9 DEF S, A

LEMMA StampsUpdate ==
  ASSUME WindowType, StampsType, NoGhosts, NEW f \in Flow, NEW t \in Time, NEW d \in Decay,
         Update(f, t, d)
  PROVE  StampsType' /\ NoGhosts'
<1> DEFINE n == Evicted(t, d)
           pair == KeyOf("src_dst", f)
<1>1. stamps' = [p \in Pair |-> IF p = pair THEN Push(StampsAfter(n, p), t, StampMax)
                                ELSE StampsAfter(n, p)]
  BY DEF Update
<1>2. n \in 0 .. Len(window) /\ n \in Nat
  <2>1. n \in 0 .. Len(window) /\ Len(window) \in Nat
    BY WindowAfter
  <2> HIDE DEF n
  <2> QED
    BY <2>1
<1>3. ASSUME NEW p \in Pair
      PROVE  /\ StampsAfter(n, p) \in Seq(Time) /\ Len(StampsAfter(n, p)) <= StampMax
             /\ \A u \in Time : Times(StampsAfter(n, p), u) + Cardinality(LeftBy(n, p, u))
                                  <= Cardinality(HeldBy(p, u))
  <2>1. IsAfter(After(n, p), n, p)
    BY <1>2, AfterExists
  <2>2. AfterSound(After(n, p), n, p)
    BY <1>2, <2>1, AfterKeeps
  <2> QED
    BY <2>2, StampsAfterIs DEF AfterSound
<1>4. ASSUME NEW p \in Pair
      PROVE  /\ stamps'[p] \in Seq(Time) /\ Len(stamps'[p]) <= StampMax
             /\ \A u \in Time : Times(stamps'[p], u) <= Cardinality(HeldBy(p, u))'
  <2> DEFINE s == StampsAfter(n, p)
  <2>1. /\ s \in Seq(Time) /\ Len(s) <= StampMax
        /\ \A u \in Time : Times(s, u) + Cardinality(LeftBy(n, p, u))
                             <= Cardinality(HeldBy(p, u))
    BY <1>3
  <2>2. stamps'[p] = IF p = pair THEN Push(s, t, StampMax) ELSE s
    BY <1>1
  <2>3. /\ Push(s, t, StampMax) \in Seq(Time) /\ Len(Push(s, t, StampMax)) <= StampMax
        /\ \A u : Times(Push(s, t, StampMax), u) <= Times(s, u) + (IF u = t THEN 1 ELSE 0)
    BY <2>1, PushTimes
  <2>4. stamps'[p] \in Seq(Time) /\ Len(stamps'[p]) <= StampMax
    BY <2>1, <2>2, <2>3
  <2> HIDE DEF s
  <2>5. ASSUME NEW u \in Time
        PROVE  Times(stamps'[p], u) <= Cardinality(HeldBy(p, u))'
    <3>1. Times(s, u) \in Nat /\ Times(stamps'[p], u) \in Nat
      BY <2>1, <2>4, TimesType
    <3>2. /\ Cardinality(HeldBy(p, u)) \in Nat /\ Cardinality(LeftBy(n, p, u)) \in Nat
      BY <1>2, LeftCount
    <3>3. Cardinality(HeldBy(p, u))' =
           (Cardinality(HeldBy(p, u)) - Cardinality(LeftBy(n, p, u)))
             + (IF pair = p /\ t = u THEN 1 ELSE 0)
      BY HeldStep
    <3>4. Times(s, u) + Cardinality(LeftBy(n, p, u)) <= Cardinality(HeldBy(p, u))
      BY <2>1
    <3>5. Times(stamps'[p], u) <= Times(s, u) + (IF p = pair /\ u = t THEN 1 ELSE 0)
      BY <2>2, <2>3, <3>1
    <3> HIDE DEF n, pair
    <3>6. (IF pair = p /\ t = u THEN 1 ELSE 0) = (IF p = pair /\ u = t THEN 1 ELSE 0)
      OBVIOUS
    <3> DEFINE one == IF p = pair /\ u = t THEN 1 ELSE 0
    <3>7. one \in Nat
      OBVIOUS
    <3>8. Cardinality(HeldBy(p, u))' = (Cardinality(HeldBy(p, u)) - Cardinality(LeftBy(n, p, u))) + one
      BY <3>3, <3>6
    <3>9. Times(stamps'[p], u) <= Times(s, u) + one
      BY <3>5
    <3> HIDE DEF one
    <3> QED
      BY <3>1, <3>2, <3>4, <3>7, <3>8, <3>9
  <2> QED
    BY <2>4, <2>5
<1>5. StampsType'
  BY <1>1, <1>4 DEF StampsType, Pair
<1>6. NoGhosts'
  BY <1>4 DEF NoGhosts, Pair
<1> QED
  BY <1>5, <1>6

LEMMA StampsEmpty ==
  /\ Init => StampsType /\ NoGhosts
  /\ Restart => StampsType' /\ NoGhosts'
<1>1. ASSUME NEW s, s = [p \in Pair |-> <<>>]
      PROVE  /\ s \in [Pair -> Seq(Time)]
             /\ \A p \in Pair : Len(s[p]) <= StampMax
             /\ \A p \in Pair : \A u : Times(s[p], u) = 0
  <2>1. \A p \in Pair : s[p] = <<>>
    BY <1>1
  <2>2. <<>> \in Seq(Time) /\ Len(<<>>) = 0
    OBVIOUS
  <2>3. StampMax \in Nat
    BY WindowAssumption
  <2>4. \A u : Times(<<>>, u) = 0
    <3>1. DOMAIN <<>> = {}
      OBVIOUS
    <3>2. \A u : {m \in DOMAIN <<>> : <<>>[m] = u} = {}
      BY <3>1
    <3> QED
      BY <3>2, FS_EmptySet DEF Times
  <2>5. s \in [Pair -> Seq(Time)]
    BY <1>1, <2>2
  <2>6. \A p \in Pair : Len(s[p]) <= StampMax
    BY <2>1, <2>2, <2>3
  <2> QED
    BY <2>1, <2>4, <2>5, <2>6
<1>2. ASSUME NEW w, Len(w) = 0, NEW p, NEW u
      PROVE  Cardinality({m \in 1 .. Len(w) :
                KeyOf("src_dst", w[m].flow) = p /\ w[m].time = u}) = 0
  <2>1. 1 .. Len(w) = {}
    BY <1>2
  <2> QED
    BY <2>1, FS_EmptySet
<1>3. ASSUME Init PROVE StampsType /\ NoGhosts
  <2>1. stamps = [p \in Pair |-> <<>>] /\ Len(window) = 0
    BY <1>3 DEF Init
  <2>2. \A p \in Pair, u \in Time :
          Times(stamps[p], u) = 0 /\ Cardinality(HeldBy(p, u)) = 0
    <3>1. \A p \in Pair : \A u : Times(stamps[p], u) = 0
      BY <1>1, <2>1
    <3>2. \A p, u : Cardinality(HeldBy(p, u)) = 0
      BY <1>2, <2>1 DEF HeldBy
    <3> QED
      BY <3>1, <3>2
  <2>3. NoGhosts
    BY <2>2 DEF NoGhosts
  <2> QED
    BY <1>1, <2>1, <2>3 DEF StampsType
<1>4. ASSUME Restart PROVE StampsType' /\ NoGhosts'
  <2>1. stamps' = [p \in Pair |-> <<>>] /\ Len(window') = 0
    BY <1>4 DEF Restart
  <2>2. \A p \in Pair, u \in Time :
          Times(stamps'[p], u) = 0 /\ Cardinality(HeldBy(p, u))' = 0
    <3>1. \A p \in Pair : \A u : Times(stamps'[p], u) = 0
      BY <1>1, <2>1
    <3>2. \A p, u : HeldBy(p, u)' = {m \in 1 .. Len(window') :
             KeyOf("src_dst", window'[m].flow) = p /\ window'[m].time = u}
      BY DEF HeldBy
    <3>3. \A p, u : HeldBy(p, u)' = {}
      BY <2>1, <3>2
    <3>4. \A p, u : Cardinality(HeldBy(p, u))' = 0
      BY <3>3, FS_EmptySet
    <3> QED
      BY <3>1, <3>4
  <2>3. NoGhosts'
    BY <2>2 DEF NoGhosts
  <2> QED
    BY <1>1, <2>1, <2>3 DEF StampsType
<1> QED
  BY <1>3, <1>4

Inv == WindowType /\ Counted /\ StampsType /\ NoGhosts

LEMMA InvStep == Inv /\ [Next]_vars => Inv'
<1> SUFFICES ASSUME Inv, [Next]_vars PROVE StampsType' /\ NoGhosts'
  BY CountedStep DEF Inv
<1>1. CASE UNCHANGED vars
  <2>1. \A p, u : HeldBy(p, u)' = HeldBy(p, u)
    BY <1>1 DEF vars, HeldBy
  <2>2. stamps' = stamps
    BY <1>1 DEF vars
  <2>3. \A p, u : Cardinality(HeldBy(p, u))' = Cardinality(HeldBy(p, u))
    BY <2>1
  <2> QED
    BY <2>2, <2>3 DEF Inv, StampsType, NoGhosts
<1>2. CASE Next
  BY <1>2, StampsUpdate, StampsEmpty DEF Inv, Next
<1> QED
  BY <1>1, <1>2

LEMMA InvHolds == Spec => []Inv
<1>1. Init => Inv
  BY CountedEmpty, StampsEmpty DEF Inv
<1> QED
  BY <1>1, InvStep, PTL DEF Spec

\* The window and the deques stay within their maximal lengths, and no counter
\* falls below zero.
THEOREM TypesInvariant == Spec => []TypeOK
<1>1. Inv => TypeOK
  BY DEF Inv, WindowType, StampsType, TypeOK
<1> QED
  BY <1>1, InvHolds, PTL

\* No interval is measured from a connection that has left the window.
THEOREM GhostInvariant == Spec => []NoGhostStamps
<1>1. Inv => NoGhostStamps
  <2> SUFFICES ASSUME Inv PROVE NoGhostStamps
    OBVIOUS
  <2>1. DOMAIN window = 1 .. Len(window)
    BY DEF Inv, WindowType
  <2>2. \A p \in Pair, u \in Time : Held(p, u) = Cardinality(HeldBy(p, u))
    BY <2>1 DEF Held, HeldBy
  <2> QED
    BY <2>2 DEF Inv, NoGhosts, NoGhostStamps
<1> QED
  BY <1>1, InvHolds, PTL
-----------------------------------------------------------------------------
(***************************************************************************)
(* The correlation window                                                  *)
(***************************************************************************)

\* In an ordered window no entry is older than the first one.
LEMMA FirstIsOldest ==
  ASSUME NEW w \in Seq(Entry), Ordered(w), NEW m \in 1 .. Len(w)
  PROVE  w[1].time <= w[m].time
<1> DEFINE Bad == {k \in 1 .. Len(w) : ~ (w[1].time <= w[k].time)}
<1>1. \A k \in 1 .. Len(w) : w[k].time \in Int
  <2>1. \A k \in 1 .. Len(w) : w[k] \in Entry
    OBVIOUS
  <2> QED
    BY <2>1, TimeAssumption DEF Entry
<1>2. Bad = {}
  <2> SUFFICES ASSUME Bad # {} PROVE FALSE
    OBVIOUS
  <2>1. Bad \in SUBSET Nat
    OBVIOUS
  <2>2. PICK x \in Bad : \A y \in Bad : x <= y
    BY <2>1, LeastElement
  <2>3. x \in 1 .. Len(w) /\ x \in Nat /\ ~ (w[1].time <= w[x].time)
    BY <2>1
  <2>4. x # 1
    BY <1>1, <2>3
  <2>5. x \in 2 .. Len(w) /\ x - 1 \in 1 .. Len(w) /\ ~ (x <= x - 1) /\ 1 \in 1 .. Len(w)
    BY <2>3, <2>4
  <2>6. w[1].time <= w[x - 1].time
    BY <2>2, <2>5
  <2>7. w[x - 1].time <= w[x].time
    BY <2>5 DEF Ordered
  <2> QED
    BY <1>1, <2>3, <2>5, <2>6, <2>7
<1> QED
  BY <1>2

LEMMA RecentStep ==
  ASSUME WindowType, Next, Ordered(window), Ordered(window')
  PROVE  \A m \in DOMAIN window' : window'[Len(window')].time - window'[m].time <= decay'
<1>1. CASE Restart
  BY <1>1 DEF Restart
<1>2. ASSUME NEW f \in Flow, NEW t \in Time, NEW d \in Decay, Update(f, t, d)
      PROVE  \A m \in DOMAIN window' :
                window'[Len(window')].time - window'[m].time <= decay'
  <2> DEFINE n == Evicted(t, d)
             l == Len(window)
  <2>1. /\ n \in 0 .. l /\ l \in Nat
        /\ window' \in Seq(Entry)
        /\ Len(window') = l - n + 1
        /\ \A m \in 1 .. l - n : window'[m] = window[m + n]
        /\ window'[l - n + 1] = [flow |-> f, time |-> t]
    BY <1>2, WindowAfter
  <2>2. t \in Int /\ d \in Int /\ d >= 0 /\ window \in Seq(Entry) /\ decay' = d
    BY <1>2, TimeAssumption DEF WindowType, Update
  <2>3. Aged(t, d) \in 0 .. l /\ (Aged(t, d) < l => t - window[Aged(t, d) + 1].time <= d)
    BY <2>2, AgedStops
  <2>4. n < l => t - window[n + 1].time <= d
    <3>1. CASE n = Aged(t, d)
      BY <2>3, <3>1
    <3>2. CASE n # Aged(t, d)
      <4>1. Aged(t, d) = 0 /\ n = 1 /\ l = WindowSize
        BY <3>2 DEF Evicted
      <4> SUFFICES ASSUME n < l PROVE t - window[2].time <= d
        BY <4>1
      <4>2. /\ t - window[1].time <= d /\ 2 \in 2 .. l /\ 1 \in 1 .. l /\ 2 \in 1 .. l
        BY <2>1, <2>3, <4>1
      <4>3. window[1].time <= window[2].time
        BY <4>2 DEF Ordered
      <4>4. window[1].time \in Int /\ window[2].time \in Int
        <5>1. window[1] \in Entry /\ window[2] \in Entry
          BY <2>2, <4>2
        <5> QED
          BY <5>1, TimeAssumption DEF Entry
      <4> QED
        BY <2>2, <4>2, <4>3, <4>4
    <3> QED
      BY <3>1, <3>2
  <2> HIDE DEF n, l
  <2>5. ASSUME NEW m \in DOMAIN window'
        PROVE  window'[Len(window')].time - window'[m].time <= d
    <3>1. m \in 1 .. Len(window') /\ window'[Len(window')].time = t
      BY <2>1
    <3>2. window'[1].time <= window'[m].time
      BY <2>1, <3>1, FirstIsOldest
    <3>3. window'[m].time \in Int /\ window'[1].time \in Int
      <4>1. window'[m] \in Entry /\ window'[1] \in Entry
        BY <2>1, <3>1
      <4> QED
        BY <4>1, TimeAssumption DEF Entry
    <3>4. t - window'[1].time <= d
      <4>1. CASE n < l
        <5>1. 1 \in 1 .. l - n /\ window'[1] = window[1 + n] /\ 1 + n = n + 1
          BY <2>1, <4>1
        <5> QED
          BY <2>4, <4>1, <5>1
      <4>2. CASE ~ (n < l)
        <5>1. l - n + 1 = 1
          BY <2>1, <4>2
        <5>2. window'[1].time = t
          BY <2>1, <5>1
        <5> QED
          BY <2>2, <5>2
      <4> QED
        BY <4>1, <4>2
    <3> QED
      BY <2>2, <3>1, <3>2, <3>3, <3>4
  <2> QED
    BY <2>2, <2>5
<1> QED
  BY <1>1, <1>2 DEF Next

\* As long as the stamps come in order, nothing in the window is older than the
\* correlation window.
THEOREM RecentTheorem == Spec => RecentWhenOrdered
<1>1. Inv /\ [Next]_vars =>
        [Ordered(window) /\ Ordered(window') =>
           \A m \in DOMAIN window' :
             window'[Len(window')].time - window'[m].time <= decay']_window
  BY RecentStep DEF Inv, vars
<1> QED
  BY <1>1, InvHolds, PTL DEF Spec, RecentWhenOrdered
=============================================================================
