--------------------------- MODULE SequenceLemmas ---------------------------
(***************************************************************************)
(* Facts about numbers and sequences that the proofs of several components *)
(* need: least and largest elements of sets of indices, induction, and what *)
(* filtering a sequence by its indices keeps, in which order.              *)
(***************************************************************************)
EXTENDS SeqFilter, SequencesExt, FiniteSetTheorems, SequenceTheorems, TLAPS

\* A nonempty set of numbers up to n has a least one: if not, then i |-> i - 1
\* would map what lies above its members into itself without ever reaching n.
LEMMA LeastOf ==
    ASSUME NEW n \in Nat, NEW S \in SUBSET (1..n), S # {}
    PROVE  \E m \in S : \A k \in S : m <= k
  <1> SUFFICES ASSUME \A m \in S : \E k \in S : k < m PROVE FALSE
    OBVIOUS
  <1> DEFINE U == {i \in 1..n : \E m \in S : m <= i}
             f == [i \in U |-> i - 1]
  <1>1. IsFiniteSet(U) /\ n \in U
    <2>1. IsFiniteSet(1..n)
      BY FS_Interval
    <2>2. U \in SUBSET (1..n)
      OBVIOUS
    <2>3. n \in U
      <3>1. PICK m \in S : m \in 1..n
        OBVIOUS
      <3>2. n \in 1..n /\ m <= n
        BY <3>1
      <3> QED
        BY <3>2
    <2> HIDE DEF U
    <2> QED
      BY <2>1, <2>2, <2>3, FS_Subset
  <1>2. IsFiniteSet(U \ {n}) /\ Cardinality(U \ {n}) < Cardinality(U)
    <2> HIDE DEF U
    <2>1. Cardinality(U) \in Nat
      BY <1>1, FS_CardinalityType
    <2>2. IsFiniteSet(U \ {n}) /\ Cardinality(U \ {n}) = Cardinality(U) - 1
      BY <1>1, FS_RemoveElement
    <2> QED
      BY <2>1, <2>2
  <1>3. f \in [U -> U \ {n}]
    <2>1. ASSUME NEW i \in U PROVE i - 1 \in U \ {n}
      <3>1. PICK m \in S : m <= i
        OBVIOUS
      <3>2. PICK k \in S : k < m
        OBVIOUS
      <3> QED
        BY <3>1, <3>2
    <2> QED
      BY <2>1
  <1>4. \A x, y \in U : f[x] = f[y] => x = y
    OBVIOUS
  <1>5. \E x, y \in U : x # y /\ f[x] = f[y]
    <2> HIDE DEF U, f
    <2> QED
      BY <1>1, <1>2, <1>3, FS_PigeonHole
  <1> QED
    BY <1>4, <1>5

\* Induction over the numbers, for a set of them instead of a predicate.
LEMMA SetInduction ==
    ASSUME NEW S, 0 \in S, \A n \in Nat : n \in S => n + 1 \in S
    PROVE  Nat \subseteq S
  <1> SUFFICES ASSUME NEW n \in Nat, n \notin S PROVE FALSE
    OBVIOUS
  <1> DEFINE Bad == {i \in 1..n : i \notin S}
  <1>1. Bad \in SUBSET (1..n) /\ n \in Bad
    OBVIOUS
  <1>2. PICK m \in Bad : \A k \in Bad : m <= k
    <2> HIDE DEF Bad
    <2> QED
      BY <1>1, LeastOf
  <1>3. m - 1 \in Nat /\ m - 1 \notin S
    BY <1>2
  <1> QED
    BY <1>2, <1>3

IsMax(x, s) == x \in s /\ \A y \in s : y <= x

\* The largest of a nonempty set of indices is what Max chooses.
LEMMA MaxOfIndices ==
    ASSUME NEW n \in Nat, NEW s \in SUBSET (1..n), s # {}
    PROVE  IsMax(Max(s), s)
  <1> DEFINE Mirror == {i \in 1..n : n + 1 - i \in s}
  <1>1. Mirror \in SUBSET (1..n) /\ Mirror # {}
    <2>1. PICK j \in s : j \in 1..n
      OBVIOUS
    <2>2. n + 1 - j \in 1..n /\ n + 1 - (n + 1 - j) = j
      BY <2>1
    <2> QED
      BY <2>1, <2>2
  <1>2. PICK l \in Mirror : \A k \in Mirror : l <= k
    <2> HIDE DEF Mirror
    <2> QED
      BY <1>1, LeastOf
  <1>3. IsMax(n + 1 - l, s)
    <2>1. l \in 1..n /\ n + 1 - l \in s
      BY <1>2
    <2>2. ASSUME NEW y \in s PROVE y <= n + 1 - l
      <3>1. y \in 1..n
        OBVIOUS
      <3>2. n + 1 - y \in 1..n /\ n + 1 - (n + 1 - y) = y
        BY <3>1
      <3>3. n + 1 - y \in Mirror
        BY <3>2
      <3>4. l <= n + 1 - y
        BY <1>2, <3>3
      <3> QED
        BY <2>1, <3>1, <3>4
    <2> QED
      BY <2>1, <2>2 DEF IsMax
  <1> QED
    BY <1>3 DEF Max, IsMax

\* Max picks the one largest index.
LEMMA IndexMax ==
    ASSUME NEW m \in Nat, NEW s \in SUBSET (1..m)
    PROVE  /\ s # {} => IsMax(Max(s), s) /\ Max(s) \in 1..m
           /\ \A x \in 1..m : IsMax(x, s) => Max(s) = x /\ s # {}
  <1>1. s # {} => IsMax(Max(s), s) /\ Max(s) \in 1..m
    BY MaxOfIndices DEF IsMax
  <1>2. ASSUME NEW x \in 1..m, IsMax(x, s) PROVE Max(s) = x /\ s # {}
    <2>1. s # {}
      BY <1>2 DEF IsMax
    <2>2. Max(s) <= x /\ x <= Max(s) /\ Max(s) \in 1..m
      BY <1>1, <1>2, <2>1 DEF IsMax
    <2> QED
      BY <2>1, <2>2
  <1> QED
    BY <1>1, <1>2

\* Of two indices the higher one has the higher place, and places are numbers
\* up to the number of indices.
LEMMA PlacesGrow ==
    ASSUME NEW I \in SUBSET Nat, IsFiniteSet(I)
    PROVE  /\ Cardinality(I) \in Nat
           /\ \A i \in I : PlaceIn(I, i) \in 1..Cardinality(I)
           /\ \A i, j \in I : i < j => PlaceIn(I, i) < PlaceIn(I, j)
  <1> DEFINE Upto(i) == {j \in I : j <= i}
  <1>1. Cardinality(I) \in Nat
    BY FS_CardinalityType
  <1>2. ASSUME NEW i \in I
        PROVE  /\ IsFiniteSet(Upto(i)) /\ Cardinality(Upto(i)) \in Nat
               /\ Cardinality(Upto(i)) <= Cardinality(I) /\ Cardinality(Upto(i)) # 0
    <2>1. Upto(i) \in SUBSET I /\ i \in Upto(i)
      OBVIOUS
    <2> HIDE DEF Upto
    <2>2. IsFiniteSet(Upto(i)) /\ Cardinality(Upto(i)) <= Cardinality(I)
      BY <2>1, FS_Subset
    <2>3. Cardinality(Upto(i)) # 0
      BY <2>1, <2>2, FS_EmptySet
    <2> QED
      BY <2>2, <2>3, FS_CardinalityType
  <1>3. ASSUME NEW i \in I, NEW j \in I, i < j
        PROVE  Cardinality(Upto(i)) < Cardinality(Upto(j))
    <2>1. Upto(i) \in SUBSET Upto(j) /\ j \in Upto(j) /\ j \notin Upto(i)
      <3>1. i \in Nat /\ j \in Nat /\ \A x \in I : x \in Nat
        OBVIOUS
      <3>2. \A x \in I : x <= i => x <= j
        BY <1>3, <3>1
      <3>3. j <= j /\ ~(j <= i)
        BY <1>3, <3>1
      <3> QED
        BY <3>2, <3>3
    <2> HIDE DEF Upto
    <2>2. Cardinality(Upto(i)) <= Cardinality(Upto(j)) /\ Cardinality(Upto(j)) # Cardinality(Upto(i))
      BY <1>2, <2>1, FS_Subset
    <2> QED
      BY <1>2, <2>2
  <1>4. \A i : PlaceIn(I, i) = Cardinality(Upto(i))
    BY DEF PlaceIn
  <1> HIDE DEF Upto
  <1>5. \A i \in I : PlaceIn(I, i) \in 1..Cardinality(I)
    BY <1>1, <1>2, <1>4
  <1> QED
    BY <1>1, <1>3, <1>4, <1>5

\* Every place is taken.
LEMMA PlacesAreTaken ==
    ASSUME NEW I \in SUBSET Nat, IsFiniteSet(I), NEW k \in 1..Cardinality(I)
    PROVE  \E i \in I : PlaceIn(I, i) = k
  <1> SUFFICES ASSUME \A i \in I : PlaceIn(I, i) # k PROVE FALSE
    OBVIOUS
  <1> DEFINE f == [i \in I |-> PlaceIn(I, i)]
             T == (1..Cardinality(I)) \ {k}
  <1>1. Cardinality(I) \in Nat /\ f \in [I -> T] /\ \A i, j \in I : i < j => f[i] < f[j]
    BY PlacesGrow
  <1>2. IsFiniteSet(T) /\ Cardinality(T) = Cardinality(I) - 1
    <2>1. IsFiniteSet(1..Cardinality(I)) /\ Cardinality(1..Cardinality(I)) = Cardinality(I)
      <3>1. Cardinality(I) \in Int /\ 1 \in Int /\ ~(1 > Cardinality(I))
        BY <1>1
      <3> QED
        BY <1>1, <3>1, FS_Interval
    <2> QED
      BY <2>1, FS_RemoveElement
  <1>3. Cardinality(T) < Cardinality(I)
    BY <1>1, <1>2
  <1> HIDE DEF f, T
  <1>4. PICK i \in I, j \in I : i # j /\ f[i] = f[j]
    BY <1>1, <1>2, <1>3, FS_PigeonHole
  <1>5. i \in Nat /\ j \in Nat /\ (i < j \/ j < i)
    BY <1>4
  <1>6. PlaceIn(I, i) \in Nat /\ PlaceIn(I, j) \in Nat
    BY PlacesGrow
  <1> QED
    BY <1>1, <1>4, <1>5, <1>6 DEF f

\* What AtIndices gives: an increasing function g onto the indices says where
\* each element comes from.
Picks(g, I) ==
    /\ g \in [1..Cardinality(I) -> I]
    /\ \A k, l \in 1..Cardinality(I) : k < l => g[k] < g[l]
    /\ \A i \in I : \E k \in 1..Cardinality(I) : g[k] = i

\* AtIndices keeps the elements at the indices, each once and in their order.
LEMMA AtIndicesPicks ==
    ASSUME NEW S, NEW s \in Seq(S), NEW I \in SUBSET DOMAIN s
    PROVE  \E g : /\ Picks(g, I)
                  /\ AtIndices(s, I) = [k \in 1..Cardinality(I) |-> s[g[k]]]
                  /\ AtIndices(s, I) \in Seq(S) /\ Len(AtIndices(s, I)) = Cardinality(I)
                  /\ Cardinality(I) \in Nat
  <1>1. DOMAIN s = 1..Len(s) /\ Len(s) \in Nat /\ I \in SUBSET Nat
    OBVIOUS
  <1>2. IsFiniteSet(I)
    <2>1. IsFiniteSet(1..Len(s))
      BY <1>1, FS_Interval
    <2> QED
      BY <1>1, <2>1, FS_Subset
  <1> DEFINE n == Cardinality(I)
             g == [k \in 1..n |-> CHOOSE i \in I : PlaceIn(I, i) = k]
  <1>3. n \in Nat
    BY <1>2, FS_CardinalityType
  <1>4. ASSUME NEW k \in 1..n PROVE g[k] \in I /\ PlaceIn(I, g[k]) = k
    BY <1>1, <1>2, PlacesAreTaken
  <1>5. ASSUME NEW i \in I PROVE PlaceIn(I, i) \in 1..n /\ g[PlaceIn(I, i)] = i
    <2>1. PlaceIn(I, i) \in 1..n
      BY <1>1, <1>2, PlacesGrow
    <2> DEFINE j == g[PlaceIn(I, i)]
    <2>2. j \in I /\ PlaceIn(I, j) = PlaceIn(I, i)
      BY <1>4, <2>1
    <2> HIDE DEF j
    <2>3. i \in Nat /\ j \in Nat /\ ~(i < j) /\ ~(j < i)
      BY <1>1, <1>2, <2>1, <2>2, PlacesGrow
    <2>4. i = j
      BY <2>3
    <2> QED
      BY <2>1, <2>4 DEF j
  <1>6. ASSUME NEW k \in 1..n, NEW l \in 1..n, k < l PROVE g[k] < g[l]
    <2>1. PICK a \in I : a = g[k] /\ PlaceIn(I, a) = k
      BY <1>4
    <2>2. PICK b \in I : b = g[l] /\ PlaceIn(I, b) = l
      BY <1>4
    <2>3. ~(b < a) /\ a # b
      BY <1>1, <1>2, <1>6, <2>1, <2>2, PlacesGrow
    <2>4. a \in Nat /\ b \in Nat
      BY <1>1
    <2>5. a < b
      BY <2>3, <2>4
    <2> HIDE DEF g
    <2> QED
      BY <2>1, <2>2, <2>5
  <1>7. AtIndices(s, I) = [k \in 1..n |-> s[g[k]]]
    BY DEF AtIndices
  <1> HIDE DEF g
  <1>8. g \in [1..n -> I]
    <2>1. g = [k \in 1..n |-> g[k]]
      BY DEF g
    <2> QED
      BY <1>4, <2>1
  <1>9. Picks(g, I)
    BY <1>5, <1>6, <1>8 DEF Picks
  <1>10. AtIndices(s, I) \in Seq(S) /\ Len(AtIndices(s, I)) = n
    <2>1. \A k \in 1..n : s[g[k]] \in S
      BY <1>1, <1>8
    <2> HIDE DEF n
    <2> QED
      BY <1>3, <1>7, <2>1
  <1> QED
    BY <1>3, <1>7, <1>9, <1>10

\* Removing an element of a sequence leaves a sequence of the same elements,
\* and nothing of an empty one.
LEMMA RemoveFirstType ==
    ASSUME NEW S, NEW s \in Seq(S), NEW e
    PROVE  RemoveFirst(s, e) \in Seq(S) /\ (s = <<>> => RemoveFirst(s, e) = <<>>)
  <1>1. CASE ~\E i \in 1..Len(s) : s[i] = e
    BY <1>1 DEF RemoveFirst
  <1>2. CASE \E i \in 1..Len(s) : s[i] = e
    <2>1. s # <<>>
      BY <1>2
    <2> DEFINE I == {i \in 1..Len(s) : s[i] = e}
    <2>2. I \in SUBSET (1..Len(s)) /\ I # {} /\ Len(s) \in Nat
      BY <1>2
    <2>3. PICK k \in I : k = Min(I)
      <3>1. PICK x \in I : \A y \in I : x <= y
        <4> HIDE DEF I
        <4> QED
          BY <2>2, LeastOf
      <3> QED
        BY <3>1 DEF Min
    <2>4. RemoveFirst(s, e) = RemoveAt(s, k)
      BY <1>2, <2>2, <2>3 DEF RemoveFirst, SelectInSeq
    <2>5. k \in 1..Len(s)
      BY <2>2
    <2>6. RemoveAt(s, k) \in Seq(S)
      <3>1. k - 1 \in Int /\ k + 1 \in Int /\ Len(s) \in Int /\ 1 \in Int
        BY <2>2, <2>5
      <3>2. \A i \in 1..(k - 1) : s[i] \in S
        BY <2>5
      <3>3. \A i \in (k + 1)..Len(s) : s[i] \in S
        BY <2>5
      <3>4. SubSeq(s, 1, k - 1) \in Seq(S)
        BY <3>1, <3>2, SubSeqProperties
      <3>5. SubSeq(s, k + 1, Len(s)) \in Seq(S)
        BY <3>1, <3>3, SubSeqProperties
      <3> QED
        BY <3>4, <3>5, ConcatProperties DEF RemoveAt
    <2> QED
      BY <2>1, <2>4, <2>6
  <1> QED
    BY <1>1, <1>2
=============================================================================
