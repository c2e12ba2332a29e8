-------------------------- MODULE DecisionsProofs --------------------------
(***************************************************************************)
(* Proofs about the deciders for every input: resolve_agent_policy, the    *)
(* placement of a workload in a fleet, the advice from benchmarks and the  *)
(* market proposals.                                                       *)
(***************************************************************************)
EXTENDS AgentPolicy, FleetAdvisory, Market, FiniteSetTheorems, SequenceTheorems, TLAPS

(* Of the positions that pass a test one is the least. *)
LEMMA LeastPosition ==
  ASSUME NEW n \in Nat, NEW passing \in SUBSET (1..n), passing # {}
  PROVE  \E i \in passing : \A j \in passing : i <= j
<1> DEFINE R == {ss \in Nat \X Nat : ss[1] < ss[2]}
<1>1. IsWellFoundedOn(R, Nat)
  BY NatLessThanWellFounded DEF OpToRel
<1> HIDE DEF R
<1>2. PICK i \in passing : \A j \in passing : ~ (<<j, i>> \in R)
  BY <1>1, WFMin, passing \subseteq Nat
<1>3. ASSUME NEW j \in passing PROVE i <= j
  <2>1. <<j, i>> \notin R /\ i \in Nat /\ j \in Nat
    BY <1>2
  <2> QED
    BY <2>1 DEF R
<1> QED
  BY <1>3

Applies(rules, i) == rules[i] # <<>>

(* Applying finds the first rule that applies, if there is one. *)
LEMMA ApplyingIsFirst ==
  ASSUME NEW rules, NEW n \in Nat, DOMAIN rules = 1..n
  PROVE  \/ /\ Applying(rules) = 0
            /\ \A j \in 1..n : ~Applies(rules, j)
         \/ /\ Applying(rules) \in 1..n
            /\ Applies(rules, Applying(rules))
            /\ \A j \in 1..n : j < Applying(rules) => ~Applies(rules, j)
<1> DEFINE passing == {i \in DOMAIN rules : Applies(rules, i)}
           first == CHOOSE i \in passing : \A j \in passing : i <= j
<1>1. CASE passing = {}
  <2>1. Applying(rules) = 0
    BY <1>1 DEF Applying, FirstIn, Applies
  <2> QED
    BY <1>1, <2>1
<1>2. CASE passing # {}
  <2>1. \E i \in passing : \A j \in passing : i <= j
    BY <1>2, LeastPosition
  <2>2. first \in passing /\ \A j \in passing : first <= j
    BY <2>1
  <2>3. Applying(rules) = first
    BY <1>2 DEF Applying, FirstIn, Applies
  <2> QED
    BY <2>2, <2>3
<1> QED
  BY <1>1, <1>2
---------------------------------------------------------------------------
(* Sorted lists *)

Keys(n) == [1..n -> Int]

(* Tuples of one length are ordered totally by KeyBefore. *)
LEMMA KeysAreOrdered ==
  ASSUME NEW n \in Nat, NEW a \in Keys(n), NEW b \in Keys(n), NEW c \in Keys(n)
  PROVE  /\ ~ KeyBefore(a, a)
         /\ KeyBefore(a, b) /\ KeyBefore(b, c) => KeyBefore(a, c)
         /\ a = b \/ KeyBefore(a, b) \/ KeyBefore(b, a)
<1>1. ~ KeyBefore(a, a)
  BY DEF KeyBefore, Keys
<1>2. ASSUME KeyBefore(a, b), KeyBefore(b, c) PROVE KeyBefore(a, c)
  <2>1. PICK i \in 1..n : a[i] < b[i] /\ \A j \in 1..(i - 1) : a[j] = b[j]
    BY <1>2 DEF KeyBefore, Keys
  <2>2. PICK k \in 1..n : b[k] < c[k] /\ \A j \in 1..(k - 1) : b[j] = c[j]
    BY <1>2 DEF KeyBefore, Keys
  <2>3. CASE i <= k
    <3>1. a[i] < c[i]
      <4>1. b[i] = c[i] \/ b[i] < c[i]
        BY <2>2, <2>3
      <4> QED
        BY <2>1, <4>1 DEF Keys
    <3>2. \A j \in 1..(i - 1) : a[j] = c[j]
      BY <2>1, <2>2, <2>3
    <3> QED
      BY <3>1, <3>2 DEF KeyBefore, Keys
  <2>4. CASE k < i
    <3>1. a[k] < c[k] /\ \A j \in 1..(k - 1) : a[j] = c[j]
      BY <2>1, <2>2, <2>4 DEF Keys
    <3> QED
      BY <3>1 DEF KeyBefore, Keys
  <2> QED
    BY <2>3, <2>4
<1>3. ASSUME a # b PROVE KeyBefore(a, b) \/ KeyBefore(b, a)
  <2> DEFINE differ == {i \in 1..n : a[i] # b[i]}
  <2>1. differ # {}
    <3>1. a = [i \in 1..n |-> a[i]] /\ b = [i \in 1..n |-> b[i]]
      BY DEF Keys
    <3> QED
      BY <1>3, <3>1
  <2>2. PICK i \in differ : \A j \in differ : i <= j
    BY <2>1, LeastPosition
  <2>3. i \in 1..n /\ a[i] # b[i] /\ \A j \in 1..(i - 1) : a[j] = b[j]
    BY <2>2
  <2>4. a[i] < b[i] \/ b[i] < a[i]
    BY <2>3 DEF Keys
  <2> QED
    BY <2>3, <2>4 DEF KeyBefore, Keys
<1> QED
  BY <1>1, <1>2, <1>3

(* A list of positions with a key each. *)
Keyed(S, key, n) ==
  /\ S \in SUBSET Int /\ IsFiniteSet(S) /\ n \in Nat
  /\ \A i \in S : key[i] \in Keys(n)

LEMMA AheadIsAnOrder ==
  ASSUME NEW S, NEW key, NEW n, Keyed(S, key, n), NEW i \in S, NEW j \in S, NEW k \in S
  PROVE  /\ ~ Ahead(i, i, key)
         /\ Ahead(i, j, key) /\ Ahead(j, k, key) => Ahead(i, k, key)
         /\ i = j \/ Ahead(i, j, key) \/ Ahead(j, i, key)
<1>1. n \in Nat /\ key[i] \in Keys(n) /\ key[j] \in Keys(n) /\ key[k] \in Keys(n)
  BY DEF Keyed
<1>2. i \in Int /\ j \in Int /\ k \in Int
  BY DEF Keyed
<1>3. /\ ~ KeyBefore(key[i], key[i])
      /\ KeyBefore(key[i], key[j]) /\ KeyBefore(key[j], key[k]) => KeyBefore(key[i], key[k])
      /\ key[i] = key[j] \/ KeyBefore(key[i], key[j]) \/ KeyBefore(key[j], key[i])
  BY <1>1, KeysAreOrdered
<1> QED
  BY <1>2, <1>3 DEF Ahead

PlaceOf(S, key, i) == Cardinality({j \in S : Ahead(j, i, key)})

LEMMA PlacesAreInRange ==
  ASSUME NEW S, NEW key, NEW n, Keyed(S, key, n), NEW i \in S
  PROVE  /\ Cardinality(S) \in Nat /\ PlaceOf(S, key, i) \in 0..(Cardinality(S) - 1)
         /\ \A j \in S : Ahead(j, i, key) => PlaceOf(S, key, j) < PlaceOf(S, key, i)
<1> DEFINE before(q) == {j \in S : Ahead(j, q, key)}
<1>1. IsFiniteSet(S) /\ Cardinality(S) \in Nat
  BY FS_CardinalityType DEF Keyed
<1>2. ASSUME NEW T \in SUBSET S, NEW x \in S, x \notin T
      PROVE  /\ IsFiniteSet(T) /\ Cardinality(T) \in Nat
             /\ Cardinality(T \cup {x}) = Cardinality(T) + 1
             /\ Cardinality(T) < Cardinality(S)
  <2>1. IsFiniteSet(T) /\ Cardinality(T) \in Nat
    BY <1>1, FS_Subset, FS_CardinalityType
  <2>2. Cardinality(T \cup {x}) = Cardinality(T) + 1
    BY <1>2, <2>1, FS_AddElement
  <2>3. T \cup {x} \in SUBSET S
    OBVIOUS
  <2>4. Cardinality(T \cup {x}) <= Cardinality(S)
    BY <1>1, <2>3, FS_Subset
  <2> QED
    BY <1>1, <2>1, <2>2, <2>4
<1>3. before(i) \in SUBSET S /\ i \notin before(i)
  BY AheadIsAnOrder
<1>4. PlaceOf(S, key, i) \in 0..(Cardinality(S) - 1)
  <2> HIDE DEF before
  <2>1. Cardinality(before(i)) \in Nat /\ Cardinality(before(i)) < Cardinality(S)
    BY <1>2, <1>3
  <2> QED
    BY <1>1, <2>1 DEF PlaceOf, before
<1>5. ASSUME NEW j \in S, Ahead(j, i, key)
      PROVE  PlaceOf(S, key, j) < PlaceOf(S, key, i)
  <2>1. before(j) \in SUBSET S /\ j \notin before(j)
    BY AheadIsAnOrder
  <2>2. before(j) \cup {j} \subseteq before(i)
    BY <1>5, AheadIsAnOrder
  <2>3. Cardinality(before(j) \cup {j}) <= Cardinality(before(i))
    <3>1. IsFiniteSet(before(i))
      BY <1>2, <1>3
    <3> HIDE DEF before
    <3> QED
      BY <2>2, <3>1, FS_Subset
  <2>4. Cardinality(before(j) \cup {j}) = Cardinality(before(j)) + 1 /\ Cardinality(before(j)) \in Nat
    BY <1>2, <2>1
  <2>5. Cardinality(before(i)) \in Nat
    BY <1>2, <1>3
  <2> QED
    BY <2>3, <2>4, <2>5 DEF PlaceOf
<1> QED
  BY <1>1, <1>4, <1>5

(* Every place is taken by one position. *)
LEMMA EveryPlaceIsTaken ==
  ASSUME NEW S, NEW key, NEW n, Keyed(S, key, n)
  PROVE  /\ \A i, j \in S : PlaceOf(S, key, i) = PlaceOf(S, key, j) => i = j
         /\ \A k \in 1..Cardinality(S) : \E i \in S : PlaceOf(S, key, i) = k - 1
<1> DEFINE size == Cardinality(S)
           T == 0..(size - 1)
           f == [i \in S |-> PlaceOf(S, key, i)]
<1>1. size \in Nat /\ IsFiniteSet(S)
  BY FS_CardinalityType DEF Keyed
<1>2. \A i, j \in S : PlaceOf(S, key, i) = PlaceOf(S, key, j) => i = j
  <2> SUFFICES ASSUME NEW i \in S, NEW j \in S, i # j PROVE PlaceOf(S, key, i) # PlaceOf(S, key, j)
    OBVIOUS
  <2>1. Ahead(i, j, key) \/ Ahead(j, i, key)
    BY AheadIsAnOrder
  <2>2. PlaceOf(S, key, i) \in Int /\ PlaceOf(S, key, j) \in Int
    BY PlacesAreInRange
  <2> QED
    BY <2>1, <2>2, PlacesAreInRange
<1>3. f \in Injection(S, T)
  BY <1>2, PlacesAreInRange DEF Injection, IsInjective
<1>4. IsFiniteSet(T) /\ Cardinality(T) = Cardinality(S)
  BY <1>1, FS_Interval
<1>5. f \in Surjection(S, T)
  <2> HIDE DEF f, T
  <2> QED
    BY <1>1, <1>3, <1>4, FS_Injection
<1>6. \A t \in T : \E i \in S : f[i] = t
  BY <1>5 DEF Surjection
<1>7. ASSUME NEW k \in 1..size PROVE \E i \in S : PlaceOf(S, key, i) = k - 1
  <2>1. k - 1 \in T
    BY <1>1
  <2> QED
    BY <1>6, <2>1
<1> QED
  BY <1>2, <1>7

LEMMA SortedPlaces ==
  ASSUME NEW S, NEW key, NEW n, Keyed(S, key, n)
  PROVE  /\ Cardinality(S) \in Nat
         /\ Sorted(S, key) \in [1..Cardinality(S) -> S]
         /\ \A k \in 1..Cardinality(S) : PlaceOf(S, key, Sorted(S, key)[k]) = k - 1
<1>1. Cardinality(S) \in Nat
  BY FS_CardinalityType DEF Keyed
<1>2. ASSUME NEW k \in 1..Cardinality(S)
      PROVE  Sorted(S, key)[k] \in S /\ PlaceOf(S, key, Sorted(S, key)[k]) = k - 1
  <2>1. \E i \in S : PlaceOf(S, key, i) = k - 1
    BY EveryPlaceIsTaken
  <2> QED
    BY <2>1 DEF Sorted, PlaceOf
<1> QED
  BY <1>1, <1>2 DEF Sorted

(* Nothing is ahead of the first. *)
LEMMA FirstOfSorted ==
  ASSUME NEW S, NEW key, NEW n, Keyed(S, key, n), S # {}
  PROVE  /\ 1 \in DOMAIN Sorted(S, key) /\ Sorted(S, key)[1] \in S
         /\ \A j \in S : j = Sorted(S, key)[1] \/ Ahead(Sorted(S, key)[1], j, key)
<1> DEFINE first == Sorted(S, key)[1]
<1>1. Cardinality(S) \in Nat /\ Cardinality(S) # 0
  BY FS_CardinalityType, FS_EmptySet DEF Keyed
<1>2. 1 \in 1..Cardinality(S)
  BY <1>1
<1>3. first \in S /\ PlaceOf(S, key, first) = 0
  BY <1>2, SortedPlaces
<1>4. 1 \in DOMAIN Sorted(S, key)
  BY <1>2, SortedPlaces
<1> HIDE DEF first
<1>5. ASSUME NEW j \in S, j # first PROVE Ahead(first, j, key)
  <2>1. Ahead(first, j, key) \/ Ahead(j, first, key)
    BY <1>3, <1>5, AheadIsAnOrder
  <2>2. Ahead(j, first, key) => PlaceOf(S, key, j) < 0
    BY <1>3, PlacesAreInRange
  <2>3. PlaceOf(S, key, j) \in Nat
    BY PlacesAreInRange
  <2> QED
    BY <2>1, <2>2, <2>3
<1> QED
  BY <1>3, <1>4, <1>5 DEF first

(* Positions moved without changing their order are sorted the same way.   *)
LEMMA SortedMoves ==
  ASSUME NEW S, NEW key, NEW T, NEW moved, NEW n, Keyed(S, key, n), Keyed(T, moved, n),
         NEW h \in Bijection(S, T),
         \A i, j \in S : Ahead(i, j, key) <=> Ahead(h[i], h[j], moved)
  PROVE  /\ Cardinality(T) = Cardinality(S)
         /\ \A k \in 1..Cardinality(S) : Sorted(T, moved)[k] = h[Sorted(S, key)[k]]
<1>1. h \in [S -> T] /\ (\A i, j \in S : h[i] = h[j] => i = j) /\ \A t \in T : \E i \in S : h[i] = t
  BY DEF Bijection, Injection, Surjection, IsInjective
<1>2. Cardinality(T) = Cardinality(S)
  <2>1. ExistsBijection(S, T)
    BY DEF ExistsBijection
  <2> QED
    BY <2>1, FS_Bijection DEF Keyed
<1>3. ASSUME NEW i \in S PROVE PlaceOf(T, moved, h[i]) = PlaceOf(S, key, i)
  <2> DEFINE A == {j \in S : Ahead(j, i, key)}
             B == {t \in T : Ahead(t, h[i], moved)}
             g == [j \in A |-> h[j]]
  <2>1. g \in Bijection(A, B)
    <3>1. \A j \in A : h[j] \in B
      BY <1>1
    <3>2. \A t \in B : \E j \in A : h[j] = t
      BY <1>1
    <3>3. \A j, k \in A : h[j] = h[k] => j = k
      BY <1>1
    <3> HIDE DEF A, B
    <3> QED
      BY <3>1, <3>2, <3>3 DEF Bijection, Injection, Surjection, IsInjective
  <2>2. ExistsBijection(A, B)
    BY <2>1 DEF ExistsBijection
  <2>3. IsFiniteSet(A)
    BY FS_Subset DEF Keyed
  <2> HIDE DEF A, B
  <2>4. Cardinality(B) = Cardinality(A)
    BY <2>2, <2>3, FS_Bijection
  <2> QED
    BY <2>4 DEF PlaceOf, A, B
<1>4. ASSUME NEW k \in 1..Cardinality(S) PROVE Sorted(T, moved)[k] = h[Sorted(S, key)[k]]
  <2>1. Sorted(S, key)[k] \in S /\ PlaceOf(S, key, Sorted(S, key)[k]) = k - 1
    BY SortedPlaces
  <2>2. Sorted(T, moved)[k] \in T /\ PlaceOf(T, moved, Sorted(T, moved)[k]) = k - 1
    BY <1>2, SortedPlaces
  <2>3. h[Sorted(S, key)[k]] \in T /\ PlaceOf(T, moved, h[Sorted(S, key)[k]]) = k - 1
    BY <1>1, <1>3, <2>1
  <2> QED
    BY <2>2, <2>3, EveryPlaceIsTaken
<1> QED
  BY <1>2, <1>4

(* A list without its i-th position, and positions in it and in the list.  *)
Skip(i, j) == IF j < i THEN j ELSE j + 1

LEMMA SkippingMoves ==
  ASSUME NEW n \in Nat, NEW i \in 1..n, NEW S \in SUBSET (1..(n - 1)), NEW T \in SUBSET (1..n),
         i \notin T, \A j \in 1..(n - 1) : j \in S <=> Skip(i, j) \in T
  PROVE  /\ [j \in S |-> Skip(i, j)] \in Bijection(S, T)
         /\ \A j, k \in S : j < k <=> Skip(i, j) < Skip(i, k)
<1> DEFINE h == [j \in S |-> Skip(i, j)]
<1>1. \A j \in S : h[j] \in T
  OBVIOUS
<1>2. \A j, k \in S : j < k <=> Skip(i, j) < Skip(i, k)
  BY DEF Skip
<1>3. \A j, k \in S : h[j] = h[k] => j = k
  BY DEF Skip
<1>4. \A k \in T : \E j \in S : h[j] = k
  <2> SUFFICES ASSUME NEW k \in T PROVE \E j \in 1..(n - 1) : Skip(i, j) = k
    OBVIOUS
  <2>1. CASE k < i
    <3>1. k \in 1..(n - 1) /\ Skip(i, k) = k
      BY <2>1 DEF Skip
    <3> QED
      BY <3>1
  <2>2. CASE i < k
    <3>1. k - 1 \in 1..(n - 1) /\ Skip(i, k - 1) = k
      BY <2>2 DEF Skip
    <3> QED
      BY <3>1
  <2> QED
    BY <2>1, <2>2
<1>5. h \in [S -> T]
  BY <1>1
<1> HIDE DEF h
<1>6. h \in Bijection(S, T)
  BY <1>3, <1>4, <1>5 DEF Bijection, Injection, Surjection, IsInjective
<1> QED
  BY <1>2, <1>6 DEF h

LEMMA EmptyIsSorted ==
  ASSUME NEW S, NEW key, NEW n, Keyed(S, key, n)
  PROVE  /\ Sorted(S, key) = <<>> <=> S = {}
         /\ Len(Sorted(S, key)) = Cardinality(S)
         /\ Sorted(S, key) \in Seq(S)
<1>1. Cardinality(S) \in Nat /\ Sorted(S, key) \in [1..Cardinality(S) -> S]
  BY SortedPlaces
<1>2. Sorted(S, key) \in Seq(S) /\ Len(Sorted(S, key)) = Cardinality(S)
  BY <1>1
<1>3. S = {} <=> Cardinality(S) = 0
  BY FS_EmptySet DEF Keyed
<1> QED
  BY <1>2, <1>3
---------------------------------------------------------------------------
(* Comprehensions *)

LEMMA PositionsInOrder ==
  ASSUME NEW n \in Nat, NEW S \in SUBSET (1..n)
  PROVE  /\ Keyed(S, [i \in S |-> <<>>], 0)
         /\ \A i, j \in S : Ahead(i, j, [x \in S |-> <<>>]) <=> i < j
         /\ Cardinality(S) \in Nat
         /\ InOrder(S) \in [1..Cardinality(S) -> S]
         /\ InOrder(S) \in Bijection(1..Cardinality(S), S)
         /\ \A k, l \in 1..Cardinality(S) : k < l <=> InOrder(S)[k] < InOrder(S)[l]
<1> DEFINE key == [i \in S |-> <<>>]
           size == Cardinality(S)
           order == Sorted(S, key)
<1>1. IsFiniteSet(S)
  <2>1. IsFiniteSet(1..n)
    BY FS_Interval
  <2> QED
    BY <2>1, FS_Subset
<1>2. Keyed(S, key, 0)
  <2>1. \A i \in S : key[i] \in Keys(0)
    BY DEF Keys
  <2> HIDE DEF key
  <2> QED
    BY <1>1, <2>1 DEF Keyed
<1>3. \A i, j \in S : Ahead(i, j, key) <=> i < j
  BY DEF Ahead, KeyBefore
<1> HIDE DEF key
<1>4. /\ size \in Nat /\ order \in [1..size -> S]
      /\ \A k \in 1..size : PlaceOf(S, key, order[k]) = k - 1
  BY <1>2, SortedPlaces
<1>5. \A i \in S : PlaceOf(S, key, i) \in 0..(size - 1)
  BY <1>2, PlacesAreInRange
<1>6. \A i, j \in S : i < j => PlaceOf(S, key, i) < PlaceOf(S, key, j)
  BY <1>2, <1>3, PlacesAreInRange
<1>7. \A i, j \in S : PlaceOf(S, key, i) = PlaceOf(S, key, j) => i = j
  BY <1>2, EveryPlaceIsTaken
<1> HIDE DEF size, order
<1>8. \A k, l \in 1..size : order[k] = order[l] => k = l
  BY <1>4
<1>9. \A i \in S : \E k \in 1..size : order[k] = i
  <2> SUFFICES ASSUME NEW i \in S PROVE \E k \in 1..size : order[k] = i
    OBVIOUS
  <2> DEFINE k == PlaceOf(S, key, i) + 1
  <2>1. k \in 1..size /\ PlaceOf(S, key, i) = k - 1
    BY <1>4, <1>5
  <2> HIDE DEF k
  <2>2. order[k] = i
    BY <1>4, <1>7, <2>1
  <2> QED
    BY <2>1, <2>2
<1>10. ASSUME NEW k \in 1..size, NEW l \in 1..size PROVE k < l <=> order[k] < order[l]
  <2>1. /\ order[k] \in S /\ order[l] \in S
        /\ PlaceOf(S, key, order[k]) = k - 1 /\ PlaceOf(S, key, order[l]) = l - 1
    BY <1>4
  <2>2. order[k] \in Int /\ order[l] \in Int /\ k \in Int /\ l \in Int
    <3>1. \A i \in S : i \in Int
      OBVIOUS
    <3>2. \A i \in 1..size : i \in Int
      BY <1>4
    <3> QED
      BY <2>1, <3>1, <3>2
  <2>3. order[k] < order[l] => k < l
    BY <1>6, <2>1, <2>2
  <2>4. order[l] < order[k] => l < k
    BY <1>6, <2>1, <2>2
  <2>5. order[k] = order[l] => k = l
    BY <1>8
  <2> QED
    BY <2>2, <2>3, <2>4, <2>5
<1>11. order \in Bijection(1..size, S)
  BY <1>4, <1>8, <1>9 DEF Bijection, Injection, Surjection, IsInjective
<1>12. InOrder(S) = order
  BY DEF InOrder, order, key
<1> QED
  BY <1>2, <1>3, <1>4, <1>10, <1>11, <1>12 DEF key, size

(* What is left of a list is a list. *)
LEMMA WhereIs ==
  ASSUME NEW s, NEW n \in Nat, NEW S \in SUBSET (1..n)
  PROVE  /\ Cardinality(S) \in Nat /\ DOMAIN Where(s, S) = 1..Cardinality(S)
         /\ \A k \in 1..Cardinality(S) : Where(s, S)[k] = s[InOrder(S)[k]] /\ InOrder(S)[k] \in S
         /\ Where(s, S) = [k \in 1..Cardinality(S) |-> s[InOrder(S)[k]]]
<1>1. Cardinality(S) \in Nat /\ InOrder(S) \in [1..Cardinality(S) -> S]
  BY PositionsInOrder
<1>2. Where(s, S) = [k \in 1..Cardinality(S) |-> s[InOrder(S)[k]]]
  BY <1>1 DEF Where
<1> QED
  BY <1>1, <1>2

(* A condition that implies another may be asked after it. *)
LEMMA WhereTwice ==
  ASSUME NEW s, NEW n \in Nat, NEW H \in SUBSET (1..n), NEW P \in SUBSET H
  PROVE  Where(Where(s, H), {k \in 1..Cardinality(H) : InOrder(H)[k] \in P}) = Where(s, P)
<1> DEFINE size == Cardinality(H)
           order == InOrder(H)
           Q == {k \in 1..size : order[k] \in P}
           h == [k \in Q |-> order[k]]
           t == Where(s, H)
<1>1. /\ size \in Nat /\ order \in Bijection(1..size, H) /\ order \in [1..size -> H]
      /\ \A k, l \in 1..size : k < l <=> order[k] < order[l]
      /\ \A k \in 1..size : t[k] = s[order[k]]
  <2>1. /\ size \in Nat /\ order \in Bijection(1..size, H) /\ order \in [1..size -> H]
        /\ \A k, l \in 1..size : k < l <=> order[k] < order[l]
    BY PositionsInOrder
  <2>2. \A k \in 1..size : t[k] = s[order[k]]
    BY WhereIs
  <2> QED
    BY <2>1, <2>2
<1>2. (\A k, l \in 1..size : order[k] = order[l] => k = l) /\ \A i \in H : \E k \in 1..size : order[k] = i
  BY <1>1 DEF Bijection, Injection, Surjection, IsInjective
<1> HIDE DEF size, order, t
<1>3. Q \in SUBSET (1..size) /\ P \in SUBSET (1..n)
  OBVIOUS
<1>4. h \in Bijection(Q, P)
  <2>1. h \in [Q -> P]
    OBVIOUS
  <2>2. \A k, l \in Q : h[k] = h[l] => k = l
    BY <1>2
  <2>3. \A i \in P : \E k \in Q : h[k] = i
    BY <1>2
  <2> HIDE DEF h, Q
  <2> QED
    BY <2>1, <2>2, <2>3 DEF Bijection, Injection, Surjection, IsInjective
<1>5. \A k, l \in Q : k < l <=> h[k] < h[l]
  BY <1>1
<1>6. \A k \in Q : h[k] = order[k] /\ t[k] = s[h[k]] /\ h[k] \in P
  BY <1>1
<1> HIDE DEF Q, h
<1>7. /\ Keyed(Q, [k \in Q |-> <<>>], 0) /\ Keyed(P, [i \in P |-> <<>>], 0)
      /\ \A k, l \in Q : Ahead(k, l, [x \in Q |-> <<>>]) <=> k < l
      /\ \A i, j \in P : Ahead(i, j, [x \in P |-> <<>>]) <=> i < j
  BY <1>1, <1>3, PositionsInOrder
<1>8. \A k, l \in Q : Ahead(k, l, [x \in Q |-> <<>>]) <=> Ahead(h[k], h[l], [x \in P |-> <<>>])
  BY <1>5, <1>6, <1>7
<1>9. /\ Cardinality(P) = Cardinality(Q)
      /\ \A k \in 1..Cardinality(Q) : InOrder(P)[k] = h[InOrder(Q)[k]]
  BY <1>4, <1>7, <1>8, SortedMoves DEF InOrder
<1>10. /\ Where(t, Q) = [k \in 1..Cardinality(Q) |-> t[InOrder(Q)[k]]]
       /\ \A k \in 1..Cardinality(Q) : InOrder(Q)[k] \in Q
  BY <1>1, <1>3, WhereIs
<1>11. Where(s, P) = [k \in 1..Cardinality(P) |-> s[InOrder(P)[k]]]
  BY <1>3, WhereIs
<1>12. \A k \in 1..Cardinality(Q) : t[InOrder(Q)[k]] = s[InOrder(P)[k]]
  BY <1>6, <1>9, <1>10
<1>13. Where(t, Q) = Where(s, P)
  BY <1>9, <1>10, <1>11, <1>12
<1> QED
  BY <1>13 DEF t, Q, size, order
---------------------------------------------------------------------------
(* resolve_agent_policy *)

(* The rules of resolve_agent_policy, one by one: seven that no fact but    *)
(* active_work touches, and three that refuse for want of a fact.          *)
LEMMA RuleByRule ==
  ASSUME NEW t, NEW f
  PROVE  LET U == Unexecuted(t, f)
         IN  /\ DOMAIN U = 1..10
             /\ U[1] = Rule(Confidence(t) < Threshold.route, "clarify")
             /\ U[2] = Rule(Route(t) = "act" /\ Violations(t) \cap UnsafeShape # {},
                            "propose_action")
             /\ U[3] = Rule("create_tasks_without_task_graph" \in Violations(t), "clarify")
             /\ U[4] = Rule(Route(t) = "cancel",
                            IF "active_work" \in f THEN "cancel" ELSE "chat")
             /\ U[5] = Rule(Route(t) \in {"act", "create_tasks"}
                              /\ t.context_sufficient < Threshold.context, "clarify")
             /\ U[6] = Rule(Route(t) # "act", Route(t))
             /\ U[7] = Rule(Confidence(t) < Threshold.act, "propose_action")
             /\ U[8] = Rule("speaker_verified" \notin f, "clarify")
             /\ U[9] = Rule("actions_allowed" \notin f, "propose_action")
             /\ U[10] = Rule(OutOfAuthority(t, f), "propose_action")
  BY DEF Unexecuted

(* What a permitted action becomes. *)
LEMMA WhatIsPermitted ==
  ASSUME NEW t, NEW f
  PROVE  Answer(Permitted(t, f)) =
           IF ~NeedsApproval(t) THEN "act"
           ELSE IF "approval_gate_available" \in f THEN "act_with_approval"
           ELSE "propose_action"
<1> DEFINE P == Permitted(t, f)
<1>1. /\ DOMAIN P = 1..3
      /\ P[1] = Rule(~NeedsApproval(t), "act")
      /\ P[2] = Rule("approval_gate_available" \in f, "act_with_approval")
      /\ P[3] = Rule(TRUE, "propose_action")
  BY DEF Permitted
<1>2. /\ (Applies(P, 1) <=> ~NeedsApproval(t)) /\ (Applies(P, 1) => P[1][1] = "act")
      /\ Applies(P, 2) <=> "approval_gate_available" \in f
      /\ Applies(P, 2) => P[2][1] = "act_with_approval"
      /\ Applies(P, 3) /\ P[3][1] = "propose_action"
  BY <1>1 DEF Rule, Applies
<1> HIDE DEF P
<1>3. \/ Applying(P) = 0 /\ \A j \in 1..3 : ~Applies(P, j)
      \/ /\ Applying(P) \in 1..3 /\ Applies(P, Applying(P))
         /\ \A j \in 1..3 : j < Applying(P) => ~Applies(P, j)
  BY <1>1, ApplyingIsFirst
<1>4. Answer(P) = P[Applying(P)][1]
  BY DEF Answer
<1>5. CASE ~NeedsApproval(t)
  <2>1. Applying(P) = 1
    BY <1>2, <1>3, <1>5
  <2> QED
    BY <2>1, <1>2, <1>4, <1>5 DEF P
<1>6. CASE NeedsApproval(t) /\ "approval_gate_available" \in f
  <2>1. Applying(P) = 2
    BY <1>2, <1>3, <1>6
  <2> QED
    BY <2>1, <1>2, <1>4, <1>6 DEF P
<1>7. CASE NeedsApproval(t) /\ "approval_gate_available" \notin f
  <2>1. Applying(P) = 3
    BY <1>2, <1>3, <1>7
  <2> QED
    BY <2>1, <1>2, <1>4, <1>7 DEF P
<1> QED
  BY <1>5, <1>6, <1>7

(* The disposition is the answer of the first rule, or what a permitted    *)
(* action becomes.                                                         *)
LEMMA FirstRuleDecides ==
  ASSUME NEW t, NEW f
  PROVE  LET U == Unexecuted(t, f)
             d == Resolution(t, f).disposition
         IN  \/ /\ Applying(U) = 0 /\ d = Answer(Permitted(t, f))
                /\ \A j \in 1..10 : ~Applies(U, j)
             \/ /\ Applying(U) \in 1..10 /\ d = U[Applying(U)][1]
                /\ Applies(U, Applying(U))
                /\ \A j \in 1..10 : j < Applying(U) => ~Applies(U, j)
<1> DEFINE U == Unexecuted(t, f)
<1>1. DOMAIN U = 1..10
  BY RuleByRule
<1>2. Resolution(t, f).disposition = Answer(IF Applying(U) # 0 THEN U ELSE Permitted(t, f))
  BY DEF Resolution
<1> HIDE DEF U
<1>3. \/ Applying(U) = 0 /\ \A j \in 1..10 : ~Applies(U, j)
      \/ /\ Applying(U) \in 1..10 /\ Applies(U, Applying(U))
         /\ \A j \in 1..10 : j < Applying(U) => ~Applies(U, j)
  BY <1>1, ApplyingIsFirst
<1>4. Answer(U) = U[Applying(U)][1]
  BY DEF Answer
<1> QED
  BY <1>2, <1>3, <1>4 DEF U

(* The power of what is not executed, and of the rest. *)
LEMMA PowerIs ==
  /\ Power["act"] = 3 /\ Power["act_with_approval"] = 2
  /\ Power["create_tasks"] = 1 /\ Power["cancel"] = 1
  /\ Power["chat"] = 0 /\ Power["propose_action"] = 0
  /\ Power["clarify"] = 0 /\ Power["abstain"] = 0
  BY DEF Power, Dispositions

(* The route is one of the six: among their scores there is a greatest.    *)
LEMMA RouteIsOne ==
  ASSUME NEW t \in Turns
  PROVE  Route(t) \in {"chat", "create_tasks", "act", "clarify", "cancel", "abstain"}
<1> DEFINE score == t.route
           Greatest(i) == \A p \in DOMAIN score : score[Routes[i]] >= score[p]
           passing == {i \in DOMAIN Routes : Greatest(i)}
           first == CHOOSE i \in passing : \A j \in passing : i <= j
<1>1. /\ DOMAIN Routes = 1..6
      /\ Routes[1] = "chat" /\ Routes[2] = "create_tasks" /\ Routes[3] = "act"
      /\ Routes[4] = "clarify" /\ Routes[5] = "cancel" /\ Routes[6] = "abstain"
  BY DEF Routes
<1>2. /\ DOMAIN score = {Routes[i] : i \in 1..6}
      /\ \A i \in 1..6 : score[Routes[i]] \in Int
  BY <1>1, TurnsAssumption
<1>3. \E i \in 1..6 : \A j \in 1..6 : score[Routes[i]] >= score[Routes[j]]
  <2> DEFINE v == [i \in 1..6 |-> score[Routes[i]]]
  <2>1. v \in [1..6 -> Int]
    BY <1>2
  <2> HIDE DEF v
  <2>2. /\ v[1] \in Int /\ v[2] \in Int /\ v[3] \in Int
        /\ v[4] \in Int /\ v[5] \in Int /\ v[6] \in Int
    BY <2>1
  <2>3. \E i \in 1..6 : /\ v[i] >= v[1] /\ v[i] >= v[2] /\ v[i] >= v[3]
                        /\ v[i] >= v[4] /\ v[i] >= v[5] /\ v[i] >= v[6]
    BY <2>2
  <2>4. \E i \in 1..6 : \A j \in 1..6 : v[i] >= v[j]
    BY <2>3
  <2> QED
    BY <2>4 DEF v
<1>4. \E i \in 1..6 : Greatest(i)
  BY <1>2, <1>3
<1>5. passing # {} /\ passing \subseteq 1..6
  BY <1>1, <1>4
<1>6. first \in passing
  <2>1. \E i \in passing : \A j \in passing : i <= j
    BY <1>5, LeastPosition
  <2> QED
    BY <2>1
<1>7. Route(t) = Routes[first]
  BY <1>5 DEF Route, Choice, FirstIn
<1>8. first \in 1..6
  BY <1>5, <1>6
<1> HIDE DEF first
<1>9. first \in {1, 2, 3, 4, 5, 6}
  BY <1>8
<1> QED
  BY <1>1, <1>7, <1>9

(* With a fact fewer the first seven rules apply as they did (only what a   *)
(* cancellation becomes may change), and the last three all the more.      *)
LEMMA FewerFactsRefuseMore ==
  ASSUME NEW t, NEW f, NEW x
  PROVE  LET U == Unexecuted(t, f)
             V == Unexecuted(t, f \ {x})
         IN  /\ \A i \in 1..7 : Applies(V, i) <=> Applies(U, i)
             /\ \A i \in {1, 2, 3, 5, 6, 7} : V[i] = U[i]
             /\ \A i \in 8..10 : Applies(U, i) => Applies(V, i)
<1> DEFINE U == Unexecuted(t, f)
           V == Unexecuted(t, f \ {x})
<1>1. \A i \in {1, 2, 3, 5, 6, 7} : V[i] = U[i]
  BY RuleByRule
<1>2. Applies(U, 4) <=> Route(t) = "cancel"
  <2>1. U[4] = Rule(Route(t) = "cancel", IF "active_work" \in f THEN "cancel" ELSE "chat")
    BY RuleByRule
  <2> QED
    BY <2>1 DEF Rule, Applies
<1>3. Applies(V, 4) <=> Route(t) = "cancel"
  <2>1. V[4] = Rule(Route(t) = "cancel",
                    IF "active_work" \in f \ {x} THEN "cancel" ELSE "chat")
    BY RuleByRule
  <2> QED
    BY <2>1 DEF Rule, Applies
<1>4. Applies(U, 8) => Applies(V, 8)
  <2>1. /\ U[8] = Rule("speaker_verified" \notin f, "clarify")
        /\ V[8] = Rule("speaker_verified" \notin f \ {x}, "clarify")
    BY RuleByRule
  <2> QED
    BY <2>1 DEF Rule, Applies
<1>5. Applies(U, 9) => Applies(V, 9)
  <2>1. /\ U[9] = Rule("actions_allowed" \notin f, "propose_action")
        /\ V[9] = Rule("actions_allowed" \notin f \ {x}, "propose_action")
    BY RuleByRule
  <2> QED
    BY <2>1 DEF Rule, Applies
<1>6. Applies(U, 10) => Applies(V, 10)
  <2>1. /\ U[10] = Rule(OutOfAuthority(t, f), "propose_action")
        /\ V[10] = Rule(OutOfAuthority(t, f \ {x}), "propose_action")
    BY RuleByRule
  <2>2. OutOfAuthority(t, f) => OutOfAuthority(t, f \ {x})
    BY DEF OutOfAuthority
  <2> QED
    BY <2>1, <2>2 DEF Rule, Applies
<1> HIDE DEF U, V
<1>7. \A i \in {1, 2, 3, 5, 6, 7} : Applies(V, i) <=> Applies(U, i)
  BY <1>1 DEF Applies
<1>8. \A i \in 1..7 : i \in {1, 2, 3, 5, 6, 7} \/ i = 4
  OBVIOUS
<1>9. \A i \in 8..10 : i = 8 \/ i = 9 \/ i = 10
  OBVIOUS
<1>10. \A i \in 1..7 : Applies(V, i) <=> Applies(U, i)
  BY <1>2, <1>3, <1>7, <1>8
<1>11. \A i \in 8..10 : Applies(U, i) => Applies(V, i)
  BY <1>4, <1>5, <1>6, <1>9
<1> QED
  BY <1>1, <1>10, <1>11 DEF U, V

(* What each rule answers when it applies. *)
LEMMA WhatRulesAnswer ==
  ASSUME NEW t, NEW f
  PROVE  LET U == Unexecuted(t, f)
         IN  /\ \A i \in {1, 3, 5, 8} : Applies(U, i) => U[i][1] = "clarify"
             /\ \A i \in {2, 7, 9, 10} : Applies(U, i) => U[i][1] = "propose_action"
             /\ Applies(U, 4) =>
                  U[4][1] = IF "active_work" \in f THEN "cancel" ELSE "chat"
             /\ Applies(U, 6) => U[6][1] = Route(t)
<1> DEFINE U == Unexecuted(t, f)
<1>1. Applies(U, 1) => U[1][1] = "clarify"
  <2>1. U[1] = Rule(Confidence(t) < Threshold.route, "clarify")
    BY RuleByRule
  <2> QED
    BY <2>1 DEF Rule, Applies
<1>2. Applies(U, 2) => U[2][1] = "propose_action"
  <2>1. U[2] = Rule(Route(t) = "act" /\ Violations(t) \cap UnsafeShape # {}, "propose_action")
    BY RuleByRule
  <2> QED
    BY <2>1 DEF Rule, Applies
<1>3. Applies(U, 3) => U[3][1] = "clarify"
  <2>1. U[3] = Rule("create_tasks_without_task_graph" \in Violations(t), "clarify")
    BY RuleByRule
  <2> QED
    BY <2>1 DEF Rule, Applies
<1>4. Applies(U, 4) => U[4][1] = IF "active_work" \in f THEN "cancel" ELSE "chat"
  <2>1. U[4] = Rule(Route(t) = "cancel",
                  IF "active_work" \in f THEN "cancel" ELSE "chat")
    BY RuleByRule
  <2> QED
    BY <2>1 DEF Rule, Applies
<1>5. Applies(U, 5) => U[5][1] = "clarify"
  <2>1. U[5] = Rule(Route(t) \in {"act", "create_tasks"}
                    /\ t.context_sufficient < Threshold.context, "clarify")
    BY RuleByRule
  <2> QED
    BY <2>1 DEF Rule, Applies
<1>6. Applies(U, 6) => U[6][1] = Route(t)
  <2>1. U[6] = Rule(Route(t) # "act", Route(t))
    BY RuleByRule
  <2> QED
    BY <2>1 DEF Rule, Applies
<1>7. Applies(U, 7) => U[7][1] = "propose_action"
  <2>1. U[7] = Rule(Confidence(t) < Threshold.act, "propose_action")
    BY RuleByRule
  <2> QED
    BY <2>1 DEF Rule, Applies
<1>8. Applies(U, 8) => U[8][1] = "clarify"
  <2>1. U[8] = Rule("speaker_verified" \notin f, "clarify")
    BY RuleByRule
  <2> QED
    BY <2>1 DEF Rule, Applies
<1>9. Applies(U, 9) => U[9][1] = "propose_action"
  <2>1. U[9] = Rule("actions_allowed" \notin f, "propose_action")
    BY RuleByRule
  <2> QED
    BY <2>1 DEF Rule, Applies
<1>10. Applies(U, 10) => U[10][1] = "propose_action"
  <2>1. U[10] = Rule(OutOfAuthority(t, f), "propose_action")
    BY RuleByRule
  <2> QED
    BY <2>1 DEF Rule, Applies
<1> QED
  BY <1>1, <1>2, <1>3, <1>4, <1>5, <1>6, <1>7, <1>8, <1>9, <1>10

(* A refusal for want of a fact executes nothing. *)
LEMMA RefusalHasNoPower ==
  ASSUME NEW t, NEW f, NEW i \in 8..10, Applies(Unexecuted(t, f), i)
  PROVE  Power[Unexecuted(t, f)[i][1]] = 0
<1>1. i = 8 \/ i \in {9, 10}
  OBVIOUS
<1> QED
  BY <1>1, WhatRulesAnswer, PowerIs

(* Every rule that applies answers with a disposition. *)
LEMMA AnswersAreDispositions ==
  ASSUME NEW t \in Turns, NEW f, NEW i \in 1..10, Applies(Unexecuted(t, f), i)
  PROVE  Unexecuted(t, f)[i][1] \in Dispositions
<1>1. i \in {1, 3, 5, 8} \/ i \in {2, 7, 9, 10} \/ i = 4 \/ i = 6
  OBVIOUS
<1> QED
  BY <1>1, WhatRulesAnswer, RouteIsOne DEF Dispositions

(* A cancellation without work to cancel has no more power than one with.  *)
LEMMA CancellationNarrows ==
  ASSUME NEW t, NEW f, NEW x, Applies(Unexecuted(t, f), 4)
  PROVE  Power[Unexecuted(t, f \ {x})[4][1]] <= Power[Unexecuted(t, f)[4][1]]
<1>1. Applies(Unexecuted(t, f \ {x}), 4)
  <2>1. \A i \in 1..7 :
          Applies(Unexecuted(t, f \ {x}), i) <=> Applies(Unexecuted(t, f), i)
    BY FewerFactsRefuseMore
  <2>2. 4 \in 1..7
    OBVIOUS
  <2> QED
    BY <2>1, <2>2
<1> QED
  BY <1>1, WhatRulesAnswer, PowerIs

(* The same scores never get further with a fact fewer: a rule that stopped *)
(* them stops them as it did, or one of the last three does, and a gate    *)
(* fewer turns a gated action into a proposal.                             *)
LEMMA FewerFactsNeverWiden ==
  ASSUME NEW t \in Turns, NEW f, NEW x
  PROVE  Power[Resolution(t, f \ {x}).disposition] <= Power[Resolution(t, f).disposition]
<1> DEFINE U == Unexecuted(t, f)
           V == Unexecuted(t, f \ {x})
           k == Applying(U)
           m == Applying(V)
           d == Resolution(t, f).disposition
           e == Resolution(t, f \ {x}).disposition
<1>1. \/ k = 0 /\ d = Answer(Permitted(t, f)) /\ \A j \in 1..10 : ~Applies(U, j)
      \/ /\ k \in 1..10 /\ d = U[k][1] /\ Applies(U, k)
         /\ \A j \in 1..10 : j < k => ~Applies(U, j)
  BY FirstRuleDecides
<1>2. \/ m = 0 /\ e = Answer(Permitted(t, f \ {x})) /\ \A j \in 1..10 : ~Applies(V, j)
      \/ /\ m \in 1..10 /\ e = V[m][1] /\ Applies(V, m)
         /\ \A j \in 1..10 : j < m => ~Applies(V, j)
  BY FirstRuleDecides
<1>3. /\ \A i \in 1..7 : Applies(V, i) <=> Applies(U, i)
      /\ \A i \in {1, 2, 3, 5, 6, 7} : V[i] = U[i]
      /\ \A i \in 8..10 : Applies(U, i) => Applies(V, i)
  BY FewerFactsRefuseMore
<1>4. \A i \in 1..10 : Applies(U, i) => U[i][1] \in Dispositions
  BY AnswersAreDispositions
<1>5. \A i \in 8..10 : Applies(V, i) => Power[V[i][1]] = 0
  BY RefusalHasNoPower
<1>6. Applies(U, 4) => Power[V[4][1]] <= Power[U[4][1]]
  BY CancellationNarrows
<1>7. d = U[k][1] \/ d \in {"act", "act_with_approval", "propose_action"}
  BY <1>1, WhatIsPermitted
<1>8. \A q \in Dispositions : Power[q] \in 0..3
  BY PowerIs DEF Dispositions
<1> HIDE DEF U, V, k, m, d, e
<1>9. d \in Dispositions
  <2>1. CASE k = 0
    BY <2>1, <1>1, WhatIsPermitted DEF d, Dispositions
  <2>2. CASE k # 0
    BY <2>2, <1>1, <1>4
  <2> QED
    BY <2>1, <2>2
<1>10. CASE k \in 1..7
  <2>1. m = k
    BY <1>1, <1>2, <1>3, <1>10
  <2>2. CASE k = 4
    <3>1. Applies(U, 4) /\ d = U[4][1] /\ e = V[4][1]
      BY <2>1, <2>2, <1>1, <1>2
    <3> QED
      BY <3>1, <1>6 DEF d, e
  <2>3. CASE k # 4
    <3>1. k \in {1, 2, 3, 5, 6, 7}
      BY <1>10, <2>3
    <3>2. e = d
      BY <2>1, <3>1, <1>1, <1>2, <1>3
    <3> QED
      BY <3>2, <1>8, <1>9 DEF d, e
  <2> QED
    BY <2>2, <2>3 DEF d, e
<1>11. CASE m \in 8..10
  <2>1. Power[e] = 0
    BY <1>11, <1>2, <1>5
  <2>2. Power[d] \in 0..3
    BY <1>8, <1>9
  <2> QED
    BY <2>1, <2>2 DEF d, e
<1>12. CASE k = 0 /\ m = 0
  <2>1. d = Answer(Permitted(t, f)) /\ e = Answer(Permitted(t, f \ {x}))
    BY <1>1, <1>2, <1>12
  <2> QED
    BY <2>1, WhatIsPermitted, PowerIs DEF d, e
<1>13. k \in 1..7 \/ m \in 8..10 \/ (k = 0 /\ m = 0)
  <2>1. k \in 8..10 => m \in 8..10
    BY <1>1, <1>2, <1>3
  <2>2. k = 0 => m = 0 \/ m \in 8..10
    BY <1>1, <1>2, <1>3
  <2> QED
    BY <2>1, <2>2, <1>1
<1> QED
  BY <1>10, <1>11, <1>12, <1>13 DEF d, e

-----------------------------------------------------------------------------
(* What a more careful answer keeps, and in which direction the rest goes. *)
LEMMA WhatCareChanges ==
  ASSUME NEW t \in Turns, NEW c \in MoreCareful(t)
  PROVE  /\ c.route = t.route /\ c.action_scope = t.action_scope
         /\ c.needs_task_graph = t.needs_task_graph
         /\ Says(c.needs_tools) => Says(t.needs_tools)
         /\ Says(c.external_effect) => Says(t.external_effect)
         /\ t.context_sufficient < Threshold.context => c.context_sufficient < Threshold.context
         /\ NeedsApproval(t) => NeedsApproval(c)
<1> DEFINE sure == [r \in DOMAIN t.risk |-> IF r = "critical" THEN 100 ELSE 0]
<1>1. /\ {"route", "action_scope", "risk", "needs_tools", "needs_task_graph",
          "context_sufficient", "external_effect", "approval_likely"} \subseteq DOMAIN t
      /\ sure["high"] = 0 /\ sure["critical"] = 100
  BY TurnsAssumption
<1> HIDE DEF sure
<1>2. \/ c = [t EXCEPT !.approval_likely = 100] \/ c = [t EXCEPT !.context_sufficient = 0]
      \/ c = [t EXCEPT !.needs_tools = 0] \/ c = [t EXCEPT !.external_effect = 0]
      \/ c = [t EXCEPT !.risk = sure]
  BY DEF MoreCareful, sure
<1>3. /\ c.route = t.route /\ c.action_scope = t.action_scope
      /\ c.needs_task_graph = t.needs_task_graph
      /\ c.needs_tools = t.needs_tools \/ c.needs_tools = 0
      /\ c.external_effect = t.external_effect \/ c.external_effect = 0
      /\ c.context_sufficient = t.context_sufficient \/ c.context_sufficient = 0
      /\ c.approval_likely = t.approval_likely \/ c.approval_likely = 100
      /\ c.risk = t.risk \/ c.risk = sure
  BY <1>1, <1>2
<1>4. ~Says(0) /\ 0 < Threshold.context
  BY DEF Says, Threshold
<1>5. NeedsApproval(t) => NeedsApproval(c)
  <2>1. 100 >= Threshold.approval /\ sure["high"] + sure["critical"] >= Threshold.high_risk
    BY <1>1 DEF Threshold
  <2>2. Scope(c) = Scope(t)
    BY <1>3 DEF Scope
  <2> QED
    BY <1>3, <2>1, <2>2 DEF NeedsApproval
<1> QED
  BY <1>3, <1>4, <1>5

(* The violations that the rules look at. *)
LEMMA ViolationsAre ==
  ASSUME NEW t
  PROVE  /\ "create_tasks_without_task_graph" \in Violations(t) <=>
              Route(t) = "create_tasks" /\ ~Says(t.needs_task_graph)
         /\ Violations(t) \cap UnsafeShape # {} <=>
              \/ Route(t) = "act" /\ (~Says(t.needs_tools) \/ Scope(t) = "none")
              \/ /\ Scope(t) \in {"local_write", "external_side_effect", "privileged"}
                 /\ ~Says(t.needs_tools)
              \/ /\ Scope(t) \in {"external_side_effect", "privileged"}
                 /\ ~Says(t.external_effect)
<1> DEFINE audit == Audit(t)
           mutation == Scope(t) \in {"local_write", "external_side_effect", "privileged"}
           outside == Scope(t) \in {"external_side_effect", "privileged"}
<1>1. /\ UnsafeShape \cup {"create_tasks_without_task_graph"} \subseteq DOMAIN audit
      /\ audit["create_tasks_without_task_graph"] =
           (Route(t) = "create_tasks" /\ ~Says(t.needs_task_graph))
      /\ audit["act_without_tools"] = (Route(t) = "act" /\ ~Says(t.needs_tools))
      /\ audit["act_with_none_scope"] = (Route(t) = "act" /\ Scope(t) = "none")
      /\ audit["mutation_scope_without_tools"] = (mutation /\ ~Says(t.needs_tools))
      /\ audit["external_scope_without_external_effect"] = (outside /\ ~Says(t.external_effect))
  BY DEF Audit, UnsafeShape
<1>2. Violations(t) = {v \in DOMAIN audit : audit[v]}
  BY DEF Violations
<1> HIDE DEF audit
<1>3. Violations(t) \cap UnsafeShape # {} <=>
        \/ audit["act_without_tools"] \/ audit["act_with_none_scope"]
        \/ audit["mutation_scope_without_tools"]
        \/ audit["external_scope_without_external_effect"]
  BY <1>1, <1>2 DEF UnsafeShape
<1> QED
  BY <1>1, <1>2, <1>3

(* A more careful answer meets the rules that were met, with the same      *)
(* answers; only the second and the fifth may be met anew.                 *)
LEMMA CareRefusesMore ==
  ASSUME NEW t \in Turns, NEW c \in MoreCareful(t), NEW f
  PROVE  LET U == Unexecuted(t, f)
             V == Unexecuted(c, f)
         IN  /\ \A i \in 1..10 : Applies(U, i) => Applies(V, i) /\ V[i][1] = U[i][1]
             /\ \A i \in 1..10 : Applies(V, i) => Applies(U, i) \/ i \in {2, 5}
<1> DEFINE U == Unexecuted(t, f)
           V == Unexecuted(c, f)
<1>1. Route(c) = Route(t) /\ Scope(c) = Scope(t) /\ Confidence(c) = Confidence(t)
  BY WhatCareChanges DEF Route, Scope, Confidence
<1>2. /\ "create_tasks_without_task_graph" \in Violations(c)
           <=> "create_tasks_without_task_graph" \in Violations(t)
      /\ Violations(t) \cap UnsafeShape # {} => Violations(c) \cap UnsafeShape # {}
  BY <1>1, ViolationsAre, WhatCareChanges
<1>3. OutOfAuthority(c, f) <=> OutOfAuthority(t, f)
  BY <1>1 DEF OutOfAuthority
<1>4. \A i \in {1, 4, 6, 7, 8, 9} : V[i] = U[i]
  BY <1>1, RuleByRule
<1>5. V[3] = U[3] /\ V[10] = U[10]
  <2>1. /\ U[3] = Rule("create_tasks_without_task_graph" \in Violations(t), "clarify")
        /\ V[3] = Rule("create_tasks_without_task_graph" \in Violations(c), "clarify")
        /\ U[10] = Rule(OutOfAuthority(t, f), "propose_action")
        /\ V[10] = Rule(OutOfAuthority(c, f), "propose_action")
    BY RuleByRule
  <2> QED
    BY <1>2, <1>3, <2>1 DEF Rule
<1>6. Applies(U, 2) => Applies(V, 2) /\ V[2][1] = U[2][1]
  <2>1. /\ U[2] = Rule(Route(t) = "act" /\ Violations(t) \cap UnsafeShape # {}, "propose_action")
        /\ V[2] = Rule(Route(c) = "act" /\ Violations(c) \cap UnsafeShape # {}, "propose_action")
    BY RuleByRule
  <2> QED
    BY <1>1, <1>2, <2>1 DEF Rule, Applies
<1>7. Applies(U, 5) => Applies(V, 5) /\ V[5][1] = U[5][1]
  <2>1. /\ U[5] = Rule(Route(t) \in {"act", "create_tasks"}
                         /\ t.context_sufficient < Threshold.context, "clarify")
        /\ V[5] = Rule(Route(c) \in {"act", "create_tasks"}
                         /\ c.context_sufficient < Threshold.context, "clarify")
    BY RuleByRule
  <2>2. t.context_sufficient < Threshold.context => c.context_sufficient < Threshold.context
    BY WhatCareChanges
  <2> QED
    BY <1>1, <2>1, <2>2 DEF Rule, Applies
<1> HIDE DEF U, V
<1>8. \A i \in 1..10 : i \in {1, 4, 6, 7, 8, 9} \/ i = 3 \/ i = 10 \/ i = 2 \/ i = 5
  OBVIOUS
<1>9. \A i \in 1..10 : V[i] = U[i] \/ i = 2 \/ i = 5
  BY <1>4, <1>5, <1>8
<1> QED
  BY <1>6, <1>7, <1>9 DEF Applies, U, V

(* A more careful answer never gets further: it is stopped where it was,   *)
(* or earlier by a rule that executes nothing, or asks for an approval.    *)
LEMMA MoreCareNeverWidens ==
  ASSUME NEW t \in Turns, NEW c \in MoreCareful(t), NEW f
  PROVE  Power[Resolution(c, f).disposition] <= Power[Resolution(t, f).disposition]
<1> DEFINE U == Unexecuted(t, f)
           V == Unexecuted(c, f)
           k == Applying(U)
           m == Applying(V)
           d == Resolution(t, f).disposition
           e == Resolution(c, f).disposition
<1>1. \/ k = 0 /\ d = Answer(Permitted(t, f)) /\ \A j \in 1..10 : ~Applies(U, j)
      \/ /\ k \in 1..10 /\ d = U[k][1] /\ Applies(U, k)
         /\ \A j \in 1..10 : j < k => ~Applies(U, j)
  BY FirstRuleDecides
<1>2. \/ m = 0 /\ e = Answer(Permitted(c, f)) /\ \A j \in 1..10 : ~Applies(V, j)
      \/ /\ m \in 1..10 /\ e = V[m][1] /\ Applies(V, m)
         /\ \A j \in 1..10 : j < m => ~Applies(V, j)
  BY FirstRuleDecides
<1>3. /\ \A i \in 1..10 : Applies(U, i) => Applies(V, i) /\ V[i][1] = U[i][1]
      /\ \A i \in 1..10 : Applies(V, i) => Applies(U, i) \/ i \in {2, 5}
  BY CareRefusesMore
<1>4. \A i \in 1..10 : Applies(U, i) => U[i][1] \in Dispositions
  BY AnswersAreDispositions
<1>5. \A i \in {2, 5} : Applies(V, i) => Power[V[i][1]] = 0
  BY WhatRulesAnswer, PowerIs
<1>6. NeedsApproval(t) => NeedsApproval(c)
  BY WhatCareChanges
<1>7. \A q \in Dispositions : Power[q] \in 0..3
  BY PowerIs DEF Dispositions
<1> HIDE DEF U, V, k, m, d, e
<1>8. d \in Dispositions
  <2>1. CASE k = 0
    BY <2>1, <1>1, WhatIsPermitted DEF d, Dispositions
  <2>2. CASE k # 0
    BY <2>2, <1>1, <1>4
  <2> QED
    BY <2>1, <2>2
<1>9. CASE k = 0 /\ m = 0
  <2>1. d = Answer(Permitted(t, f)) /\ e = Answer(Permitted(c, f))
    BY <1>1, <1>2, <1>9
  <2> QED
    BY <2>1, <1>6, WhatIsPermitted, PowerIs DEF d, e
<1>10. CASE m \in 1..10 /\ m = k
  <2>1. e = d
    BY <1>1, <1>2, <1>3, <1>10
  <2> QED
    BY <2>1, <1>7, <1>8 DEF d, e
<1>11. CASE m \in 1..10 /\ m # k
  <2>1. ~Applies(U, m)
    BY <1>1, <1>2, <1>3, <1>11
  <2>2. m \in {2, 5}
    BY <1>2, <1>3, <1>11, <2>1
  <2>3. Power[e] = 0
    BY <1>2, <1>5, <1>11, <2>2
  <2> QED
    BY <2>3, <1>7, <1>8 DEF d, e
<1>12. k # 0 => m # 0
  BY <1>1, <1>2, <1>3
<1> QED
  BY <1>1, <1>2, <1>9, <1>10, <1>11, <1>12 DEF d, e

-----------------------------------------------------------------------------
(* A rule that stops a turn executes nothing. *)
LEMMA StoppedIsNotExecuted ==
  ASSUME NEW t \in Turns, NEW f, NEW i \in 1..10, Applies(Unexecuted(t, f), i)
  PROVE  Unexecuted(t, f)[i][1] \notin {"act", "act_with_approval"}
<1> DEFINE U == Unexecuted(t, f)
<1>1. Applies(U, 6) => Route(t) # "act"
  <2>1. U[6] = Rule(Route(t) # "act", Route(t))
    BY RuleByRule
  <2> QED
    BY <2>1 DEF Rule, Applies
<1>2. i \in {1, 3, 5, 8} \/ i \in {2, 7, 9, 10} \/ i = 4 \/ i = 6
  OBVIOUS
<1> QED
  BY <1>1, <1>2, WhatRulesAnswer, RouteIsOne

(* What is executed has met no rule, so its route is "act" and its shape   *)
(* is none of the unsafe ones.                                             *)
LEMMA ExecutedMetNoRule ==
  ASSUME NEW t \in Turns, NEW f,
         Resolution(t, f).disposition \in {"act", "act_with_approval"}
  PROVE  Route(t) = "act" /\ Violations(t) \cap UnsafeShape = {}
<1> DEFINE U == Unexecuted(t, f)
<1>1. \A j \in 1..10 : ~Applies(U, j)
  BY FirstRuleDecides, StoppedIsNotExecuted
<1>2. ~Applies(U, 2) /\ ~Applies(U, 6)
  BY <1>1
<1>3. U[2] = Rule(Route(t) = "act" /\ Violations(t) \cap UnsafeShape # {},
                  "propose_action")
  BY RuleByRule
<1>4. U[6] = Rule(Route(t) # "act", Route(t))
  BY RuleByRule
<1> HIDE DEF U
<1>5. Route(t) = "act"
  BY <1>2, <1>4 DEF Rule, Applies
<1>6. ~(Route(t) = "act" /\ Violations(t) \cap UnsafeShape # {})
  BY <1>2, <1>3 DEF Rule, Applies
<1> QED
  BY <1>5, <1>6

(* The audit says of an action only what makes it unsafe to execute. *)
LEMMA ActionsHaveUnsafeShapesOnly ==
  ASSUME NEW t, Route(t) = "act"
  PROVE  Violations(t) \subseteq UnsafeShape
<1> DEFINE audit == Audit(t)
<1>1. /\ DOMAIN audit = UnsafeShape \cup {"create_tasks_without_task_graph",
                             "chat_with_task_graph", "chat_with_external_effect",
                             "chat_with_action_scope"}
      /\ audit["create_tasks_without_task_graph"] = FALSE
      /\ audit["chat_with_task_graph"] = FALSE
      /\ audit["chat_with_external_effect"] = FALSE
      /\ audit["chat_with_action_scope"] = FALSE
  BY DEF Audit, UnsafeShape
<1>2. Violations(t) = {v \in DOMAIN audit : audit[v]}
  BY DEF Violations
<1> HIDE DEF audit
<1> QED
  BY <1>1, <1>2

-----------------------------------------------------------------------------
(* What a step keeps: the scores are a turn's, and a decision is what  *)
(* the resolver makes of them.                                             *)
PolicyInv == /\ turn \in Turns /\ facts \subseteq Facts
             /\ decision = None \/ decision = Resolution(turn, facts)

LEMMA PolicyStarts == PolicyInit => PolicyInv
  BY DEF PolicyInit, PolicyInv

LEMMA PolicyStep == PolicyInv /\ [Resolve]_policyVars => PolicyInv'
<1>1. PolicyInv /\ Resolve => PolicyInv'
  BY DEF PolicyInv, Resolve
<1>2. PolicyInv /\ UNCHANGED policyVars => PolicyInv'
  BY DEF PolicyInv, policyVars
<1> QED
  BY <1>1, <1>2

(* A decision is always the one of its turn and facts. *)
LEMMA PolicyInvariant == PolicySpec => []PolicyInv
  BY PolicyStarts, PolicyStep, PTL DEF PolicySpec

(* Any scores and facts: what comes out is a disposition, and whether it   *)
(* needs an approval is decided (resolve_agent_policy).                    *)
THEOREM PolicyTypes == PolicySpec => []PolicyTypeOK
<1>1. ASSUME PolicyInv, decision # None
      PROVE  decision.disposition \in Dispositions /\ decision.approval_required \in BOOLEAN
  <2> DEFINE U == Unexecuted(turn, facts)
  <2>1. turn \in Turns /\ decision = Resolution(turn, facts)
    BY <1>1 DEF PolicyInv
  <2>2. decision.approval_required \in BOOLEAN
    BY <2>1 DEF Resolution, NeedsApproval
  <2>3. CASE Applying(U) = 0
    <3>1. decision.disposition = Answer(Permitted(turn, facts))
      BY <2>1, <2>3, FirstRuleDecides
    <3>2. decision.disposition \in {"act", "act_with_approval", "propose_action"}
      BY <3>1, WhatIsPermitted
    <3> QED
      BY <2>2, <3>2 DEF Dispositions
  <2>4. CASE Applying(U) # 0
    <3>1. /\ Applying(U) \in 1..10 /\ Applies(U, Applying(U))
          /\ decision.disposition = U[Applying(U)][1]
      BY <2>1, <2>4, FirstRuleDecides
    <3> QED
      BY <2>1, <2>2, <3>1, AnswersAreDispositions
  <2> QED
    BY <2>3, <2>4
<1>2. PolicyInv => PolicyTypeOK
  BY <1>1 DEF PolicyInv, PolicyTypeOK
<1> QED
  BY <1>2, PolicyInvariant, PTL

(* For every vector of scores and every set of facts: a fact fewer never   *)
(* lets the same scores get further (resolve_agent_policy).                *)
THEOREM AuthorityNeverWidens == PolicySpec => []AuthorityMonotone
<1>1. PolicyInv => AuthorityMonotone
  BY FewerFactsNeverWiden DEF PolicyInv, AuthorityMonotone
<1> QED
  BY <1>1, PolicyInvariant, PTL

(* For every vector of scores and every set of facts: an answer made more   *)
(* careful never lets the turn get further (resolve_agent_policy).         *)
THEOREM CautionNeverWidens == PolicySpec => []CautionMonotone
<1>1. PolicyInv => CautionMonotone
  BY MoreCareNeverWidens DEF PolicyInv, CautionMonotone
<1> QED
  BY <1>1, PolicyInvariant, PTL

(* For every vector of scores and every set of facts: what is executed     *)
(* has no violation at all, although the resolver asks for four of eight.  *)
THEOREM ExecutedPassesTheAudit == PolicySpec => []ExecutedIsConsistent
<1>1. PolicyInv => ExecutedIsConsistent
  <2> SUFFICES ASSUME PolicyInv, decision # None,
                      decision.disposition \in {"act", "act_with_approval"}
               PROVE  decision.violations = {}
    BY DEF ExecutedIsConsistent
  <2>1. turn \in Turns /\ decision = Resolution(turn, facts)
    BY DEF PolicyInv
  <2>2. Route(turn) = "act" /\ Violations(turn) \cap UnsafeShape = {}
    BY <2>1, ExecutedMetNoRule
  <2>3. Violations(turn) \subseteq UnsafeShape
    BY <2>2, ActionsHaveUnsafeShapesOnly
  <2>4. decision.violations = Violations(turn)
    BY <2>1 DEF Resolution
  <2> QED
    BY <2>2, <2>3, <2>4
<1> QED
  BY <1>1, PolicyInvariant, PTL

(* Which dispositions AssistX is told to act on. *)
LEMMA ActionIs ==
  ASSUME NEW d, d.disposition \in Dispositions
  PROVE  LET action == Payload(d).policy_action
         IN  /\ action = "direct_action" <=> d.disposition = "act"
             /\ action = "direct_action_with_approval"
                  <=> d.disposition = "act_with_approval"
             /\ d.disposition = "propose_action" => action = "review_dispatch"
  BY DEF Payload, Dispositions

(* For every vector of scores and every set of facts AssistX and Hermes    *)
(* are told the same about the gate.                                       *)
THEOREM AdaptersTellTheSame == PolicySpec => []AdaptersAgree
<1>1. PolicyInv => AdaptersAgree
  <2> SUFFICES ASSUME PolicyInv, decision # None
               PROVE  AdaptersAgree
    BY DEF AdaptersAgree
  <2> DEFINE U == Unexecuted(turn, facts)
             d == decision.disposition
             gated == decision.approval_required
  <2>1. turn \in Turns /\ decision = Resolution(turn, facts)
    BY DEF PolicyInv
  <2>2. gated <=> Applying(U) = 0 /\ NeedsApproval(turn)
    BY <2>1 DEF Resolution
  <2>3. \/ Applying(U) = 0 /\ d = Answer(Permitted(turn, facts))
        \/ /\ Applying(U) \in 1..10 /\ d = U[Applying(U)][1]
           /\ Applies(U, Applying(U))
    BY <2>1, FirstRuleDecides
  <2>4. CASE Applying(U) = 0
    <3>1. d = IF ~NeedsApproval(turn) THEN "act"
              ELSE IF "approval_gate_available" \in facts THEN "act_with_approval"
              ELSE "propose_action"
      BY <2>3, <2>4, WhatIsPermitted
    <3>2. d \in Dispositions
      BY <3>1 DEF Dispositions
    <3> HIDE DEF d, gated, U
    <3>3. gated <=> NeedsApproval(turn)
      BY <2>2, <2>4
    <3> QED
      BY <3>1, <3>2, <3>3, ActionIs DEF AdaptersAgree, Directive, d, gated
  <2>5. CASE Applying(U) # 0
    <3>1. d \in Dispositions /\ d \notin {"act", "act_with_approval"}
      BY <2>1, <2>3, <2>5, AnswersAreDispositions, StoppedIsNotExecuted
    <3>2. ~gated
      BY <2>2, <2>5
    <3> QED
      BY <3>1, <3>2, ActionIs DEF AdaptersAgree, Directive
  <2> QED
    BY <2>4, <2>5
<1> QED
  BY <1>1, PolicyInvariant, PTL
---------------------------------------------------------------------------
(* The order of the nodes *)

NodeKey(w) == [i \in Eligible(w) |-> RankKey(w.nodes[i], w)]

LEMMA EligibleHaveKeys ==
  ASSUME NEW w, IsWorkload(w)
  PROVE  /\ Keyed(Eligible(w), NodeKey(w), 6)
         /\ Eligible(w) \subseteq 1..Len(w.nodes) /\ Len(w.nodes) \in Nat /\ DOMAIN w.nodes = 1..Len(w.nodes)
         /\ Ranked(w) = Sorted(Eligible(w), NodeKey(w))
<1>1. Len(w.nodes) \in Nat /\ DOMAIN w.nodes = 1..Len(w.nodes)
  BY DEF IsWorkload
<1>2. Eligible(w) \in SUBSET (1..Len(w.nodes))
  BY <1>1 DEF Eligible
<1>3. IsFiniteSet(Eligible(w))
  <2>1. IsFiniteSet(1..Len(w.nodes))
    BY <1>1, FS_Interval
  <2> QED
    BY <1>2, <2>1, FS_Subset
<1>4. ASSUME NEW i \in Eligible(w) PROVE NodeKey(w)[i] \in Keys(6)
  <2> DEFINE n == w.nodes[i]
  <2>1. i \in DOMAIN w.nodes
    BY <1>1, <1>2
  <2>2. /\ n.id \in DOMAIN IdRank /\ n.ram \in Int /\ n.vram \in Int /\ n.cpu \in Int /\ n.claims \in Int
        /\ w.ram \in Int /\ w.vram \in Int
    BY <2>1 DEF IsWorkload
  <2>3. IdRank[n.id] \in Int
    BY <2>2, IdsAssumption
  <2>4. Preferred(n, w) \in Int
    <3>1. w.preferred \cap n.capabilities \in SUBSET w.preferred /\ IsFiniteSet(w.preferred)
      BY DEF IsWorkload
    <3>2. Cardinality(w.preferred \cap n.capabilities) \in Nat
      BY <3>1, FS_Subset, FS_CardinalityType
    <3> QED
      BY <3>2 DEF Preferred
  <2> HIDE DEF n
  <2>5. RankKey(n, w) \in [1..6 -> Int]
    BY <2>2, <2>3, <2>4 DEF RankKey
  <2> QED
    BY <2>5 DEF NodeKey, Keys, n
<1>5. Ranked(w) = Sorted(Eligible(w), NodeKey(w))
  BY DEF Ranked, NodeKey
<1> QED
  BY <1>1, <1>2, <1>3, <1>4, <1>5 DEF Keyed

Top(w) == w.nodes[Ranked(w)[1]].id

(* All that a placement sees of the nodes. *)
LEMMA SameSight ==
  ASSUME NEW p, NEW v, NEW w, IsWorkload(v), IsWorkload(w), v.pinned = w.pinned,
         v.checkpoint = w.checkpoint,
         Cardinality(Eligible(v)) = Cardinality(Eligible(w)),
         Eligible(w) # {} => Top(v) = Top(w)
  PROVE  Placement(p, v) = Placement(p, w)
<1>1. Ranked(v) = <<>> <=> Ranked(w) = <<>>
  <2>1. IsFiniteSet(Eligible(v)) /\ IsFiniteSet(Eligible(w))
    BY EligibleHaveKeys DEF Keyed
  <2>2. Eligible(v) = {} <=> Eligible(w) = {}
    BY <2>1, FS_EmptySet
  <2> QED
    BY <2>2, EligibleHaveKeys, EmptyIsSorted
<1>2. Len(Ranked(v)) = Len(Ranked(w))
  BY EligibleHaveKeys, EmptyIsSorted
<1>3. CanSplit(v) = CanSplit(w)
  BY <1>2 DEF CanSplit
<1>4. Ranked(w) # <<>> => Top(v) = Top(w)
  BY EligibleHaveKeys, EmptyIsSorted
<1>5. (Ranked(v) = <<>>) = (Ranked(w) = <<>>)
  BY <1>1
<1> QED
  BY <1>3, <1>4, <1>5 DEF Placement, Top

(* A node that does not fit has no influence. *)
LEMMA WithoutIllegal ==
  ASSUME NEW p, NEW w, IsWorkload(w), NEW i \in DOMAIN w.nodes, ~ Fits(w.nodes[i], w)
  PROVE  Placement(p, Without(w, i)) = Placement(p, w)
<1> DEFINE v == Without(w, i)
           len == Len(w.nodes)
<1>1. len \in Nat /\ DOMAIN w.nodes = 1..len /\ i \in 1..len
  BY EligibleHaveKeys
<1>2. /\ v.nodes = [j \in 1..(len - 1) |-> w.nodes[Skip(i, j)]]
      /\ v.required = w.required /\ v.preferred = w.preferred /\ v.ram = w.ram /\ v.vram = w.vram
      /\ v.pinned = w.pinned /\ v.checkpoint = w.checkpoint /\ DOMAIN v = DOMAIN w
  BY DEF Without, IsWorkload, Skip
<1> HIDE DEF v
<1>3. \A j \in 1..(len - 1) : Skip(i, j) \in 1..len /\ v.nodes[j] = w.nodes[Skip(i, j)]
  BY <1>1, <1>2 DEF Skip
<1>4. DOMAIN v.nodes = 1..(len - 1) /\ len - 1 \in Nat
  BY <1>1, <1>2
<1>5. IsWorkload(v)
  <2>1. v.nodes \in Seq({v.nodes[j] : j \in DOMAIN v.nodes})
    BY <1>2, <1>4
  <2>2. \A j \in DOMAIN v.nodes : Skip(i, j) \in DOMAIN w.nodes /\ v.nodes[j] = w.nodes[Skip(i, j)]
    BY <1>1, <1>3, <1>4
  <2> QED
    BY <1>2, <2>1, <2>2 DEF IsWorkload
<1>6. \A n : Fits(n, v) <=> Fits(n, w)
  BY <1>2 DEF Fits
<1>7. \A n : RankKey(n, v) = RankKey(n, w)
  BY <1>2 DEF RankKey, Preferred
<1> DEFINE h == [j \in Eligible(v) |-> Skip(i, j)]
<1>8. Eligible(v) \in SUBSET (1..(len - 1)) /\ Eligible(w) \in SUBSET (1..len) /\ i \notin Eligible(w)
  BY <1>1, <1>4 DEF Eligible
<1>9. \A j \in 1..(len - 1) : j \in Eligible(v) <=> Skip(i, j) \in Eligible(w)
  BY <1>1, <1>3, <1>4, <1>6 DEF Eligible
<1>10. /\ h \in Bijection(Eligible(v), Eligible(w))
       /\ \A j, k \in Eligible(v) : j < k <=> Skip(i, j) < Skip(i, k)
  <2> HIDE DEF len
  <2> QED
    BY <1>1, <1>8, <1>9, SkippingMoves
<1>11. \A j \in Eligible(v) : NodeKey(v)[j] = NodeKey(w)[h[j]]
  <2>1. \A j \in Eligible(v) : Skip(i, j) \in Eligible(w) /\ v.nodes[j] = w.nodes[Skip(i, j)]
    BY <1>3, <1>8, <1>9
  <2> QED
    BY <1>7, <2>1 DEF NodeKey
<1>12. \A j, k \in Eligible(v) : j < k <=> h[j] < h[k]
  BY <1>10
<1>13. \A j \in Eligible(v) : v.nodes[j] = w.nodes[h[j]]
  BY <1>3, <1>8
<1> HIDE DEF h
<1>14. \A j, k \in Eligible(v) : Ahead(j, k, NodeKey(v)) <=> Ahead(h[j], h[k], NodeKey(w))
  BY <1>11, <1>12 DEF Ahead
<1>15. Keyed(Eligible(v), NodeKey(v), 6) /\ Keyed(Eligible(w), NodeKey(w), 6)
  BY <1>5, EligibleHaveKeys
<1>16. /\ Cardinality(Eligible(w)) = Cardinality(Eligible(v))
       /\ \A k \in 1..Cardinality(Eligible(v)) : Ranked(w)[k] = h[Ranked(v)[k]]
  BY <1>5, <1>10, <1>14, <1>15, SortedMoves, EligibleHaveKeys
<1>17. ASSUME Eligible(w) # {} PROVE Top(v) = Top(w)
  <2>1. Eligible(v) # {} /\ Cardinality(Eligible(v)) \in Nat /\ Cardinality(Eligible(v)) # 0
    BY <1>15, <1>16, <1>17, FS_EmptySet, FS_CardinalityType DEF Keyed
  <2>2. Ranked(v)[1] \in Eligible(v)
    BY <1>5, <1>15, <2>1, FirstOfSorted, EligibleHaveKeys
  <2>3. Ranked(w)[1] = h[Ranked(v)[1]]
    BY <1>16, <2>1
  <2> QED
    BY <1>13, <2>2, <2>3 DEF Top
<1>18. Placement(p, v) = Placement(p, w)
  BY <1>2, <1>5, <1>16, <1>17, SameSight
<1> QED
  BY <1>18 DEF v

(* Snapshots in the opposite order: the nodes that rank first have the same *)
(* key, and so the same id.                                                *)
LEMMA ReversedIsTheSame ==
  ASSUME NEW p, NEW w, IsWorkload(w)
  PROVE  Placement(p, Reversed(w)) = Placement(p, w)
<1> DEFINE v == Reversed(w)
           len == Len(w.nodes)
           old(j) == len + 1 - j
<1>1. len \in Nat /\ DOMAIN w.nodes = 1..len
  BY EligibleHaveKeys
<1>2. /\ v.nodes = [j \in 1..len |-> w.nodes[old(j)]]
      /\ v.required = w.required /\ v.preferred = w.preferred /\ v.ram = w.ram /\ v.vram = w.vram
      /\ v.pinned = w.pinned /\ v.checkpoint = w.checkpoint /\ DOMAIN v = DOMAIN w
  BY <1>1 DEF Reversed, IsWorkload
<1> HIDE DEF v
<1>3. \A j \in 1..len : old(j) \in 1..len /\ v.nodes[j] = w.nodes[old(j)] /\ old(old(j)) = j
  BY <1>1, <1>2
<1>4. DOMAIN v.nodes = 1..len
  BY <1>2
<1>5. IsWorkload(v)
  <2>1. v.nodes \in Seq({v.nodes[j] : j \in DOMAIN v.nodes})
    <3> DEFINE values == {v.nodes[j] : j \in DOMAIN v.nodes}
    <3>1. v.nodes = [j \in 1..len |-> v.nodes[j]]
      BY <1>2
    <3>2. \A j \in 1..len : v.nodes[j] \in values
      BY <1>4
    <3> HIDE DEF len, values
    <3> QED
      BY <1>1, <3>1, <3>2 DEF values
  <2>2. \A j \in DOMAIN v.nodes : old(j) \in DOMAIN w.nodes /\ v.nodes[j] = w.nodes[old(j)]
    BY <1>1, <1>3, <1>4
  <2> HIDE DEF old
  <2> QED
    BY <1>2, <2>1, <2>2 DEF IsWorkload
<1>6. \A n : Fits(n, v) <=> Fits(n, w)
  BY <1>2 DEF Fits
<1>7. \A n : RankKey(n, v) = RankKey(n, w)
  BY <1>2 DEF RankKey, Preferred
<1> DEFINE h == [j \in Eligible(w) |-> old(j)]
<1>8. Eligible(v) \subseteq 1..len /\ Eligible(w) \subseteq 1..len
  BY <1>1, <1>4 DEF Eligible
<1>9. \A j \in 1..len : j \in Eligible(v) <=> old(j) \in Eligible(w)
  BY <1>1, <1>3, <1>4, <1>6 DEF Eligible
<1>10. Cardinality(Eligible(v)) = Cardinality(Eligible(w))
  <2>1. \A j \in Eligible(w) : old(j) \in Eligible(v)
    BY <1>3, <1>8, <1>9
  <2>2. \A j, k \in Eligible(w) : old(j) = old(k) => j = k
    BY <1>1, <1>8
  <2>3. \A k \in Eligible(v) : old(k) \in Eligible(w) /\ old(old(k)) = k
    BY <1>3, <1>8, <1>9
  <2> HIDE DEF old
  <2>4. h \in Bijection(Eligible(w), Eligible(v))
    BY <2>1, <2>2, <2>3 DEF Bijection, Injection, Surjection, IsInjective
  <2>5. ExistsBijection(Eligible(w), Eligible(v))
    BY <2>4 DEF ExistsBijection
  <2> QED
    BY <2>5, EligibleHaveKeys, FS_Bijection DEF Keyed
<1>11. \A j \in Eligible(v) : old(j) \in Eligible(w) /\ NodeKey(v)[j] = NodeKey(w)[old(j)]
                             /\ v.nodes[j] = w.nodes[old(j)]
  BY <1>3, <1>7, <1>8, <1>9 DEF NodeKey
<1>12. \A j \in Eligible(w) : old(j) \in Eligible(v) /\ NodeKey(v)[old(j)] = NodeKey(w)[j]
  BY <1>3, <1>8, <1>9, <1>11
<1>13. Keyed(Eligible(v), NodeKey(v), 6) /\ Keyed(Eligible(w), NodeKey(w), 6)
  BY <1>5, EligibleHaveKeys
<1> HIDE DEF old
<1>14. ASSUME Eligible(w) # {} PROVE Top(v) = Top(w)
  <2> DEFINE a == Ranked(w)[1]
             b == Ranked(v)[1]
  <2>1. Eligible(v) # {}
    BY <1>12, <1>14
  <2>2. a \in Eligible(w) /\ \A j \in Eligible(w) : j = a \/ Ahead(a, j, NodeKey(w))
    BY <1>13, <1>14, FirstOfSorted, EligibleHaveKeys
  <2>3. b \in Eligible(v) /\ \A j \in Eligible(v) : j = b \/ Ahead(b, j, NodeKey(v))
    BY <1>5, <1>13, <2>1, FirstOfSorted, EligibleHaveKeys
  <2> HIDE DEF a, b
  <2> DEFINE c == old(b)
             keyA == NodeKey(w)[a]
             keyC == NodeKey(w)[c]
  <2>4. c \in Eligible(w) /\ NodeKey(v)[b] = keyC /\ v.nodes[b] = w.nodes[c]
    BY <1>11, <2>3
  <2>5. old(a) \in Eligible(v) /\ NodeKey(v)[old(a)] = keyA
    BY <1>12, <2>2
  <2>6. keyA = keyC \/ KeyBefore(keyA, keyC)
    BY <2>2, <2>4 DEF Ahead
  <2>7. keyA = keyC \/ KeyBefore(keyC, keyA)
    BY <2>3, <2>4, <2>5 DEF Ahead
  <2>8. keyA \in Keys(6) /\ keyC \in Keys(6)
    BY <1>13, <2>2, <2>4 DEF Keyed
  <2>9. keyA = keyC
    BY <2>6, <2>7, <2>8, KeysAreOrdered
  <2>10. RankKey(w.nodes[a], w) = RankKey(w.nodes[c], w)
    BY <2>2, <2>4, <2>9 DEF NodeKey
  <2>11. IdRank[w.nodes[a].id] = IdRank[w.nodes[c].id]
    BY <2>10 DEF RankKey
  <2>12. a \in DOMAIN w.nodes /\ c \in DOMAIN w.nodes
    BY <1>1, <1>8, <2>2, <2>4
  <2>13. w.nodes[a].id = w.nodes[c].id
    BY <2>11, <2>12, IdsAssumption DEF IsWorkload
  <2> QED
    BY <2>4, <2>13 DEF Top, a, b
<1>15. Placement(p, v) = Placement(p, w)
  BY <1>2, <1>5, <1>10, <1>14, SameSight
<1> QED
  BY <1>15 DEF v

(* An answer is the one of its workload and proposal.                      *)
PlacementInv ==
  /\ workload \in Workloads
  /\ proposal \in Proposals
  /\ Placed => /\ placement = Placement(proposal, workload)
               /\ Scored(Shapes, proposal.placement)

LEMMA PlacementStarts == FleetInit => PlacementInv
  BY DEF FleetInit, PlacementInv, Placed

LEMMA PlacementStep == PlacementInv /\ [FleetNext]_fleetVars => PlacementInv'
<1> SUFFICES ASSUME PlacementInv, [FleetNext]_fleetVars PROVE PlacementInv'
  OBVIOUS
<1>1. CASE Place
  BY <1>1 DEF Place, PlacementInv
<1>2. CASE PlaceRefused
  BY <1>2 DEF PlaceRefused, PlacementInv, Placed, Outcome
<1>3. CASE UNCHANGED fleetVars
  BY <1>3 DEF fleetVars, PlacementInv, Placed
<1> QED
  BY <1>1, <1>2, <1>3 DEF FleetNext

LEMMA PlacementInvariance == FleetSpec => []PlacementInv
  BY PlacementStarts, PlacementStep, PTL DEF FleetSpec

(* Among the scores of a distribution over the shapes there is a greatest. *)
LEMMA ShapeIsOne ==
  ASSUME NEW scores, Scored(Shapes, scores), \A o \in DOMAIN scores : scores[o] \in Int
  PROVE  Choice(Shapes, scores) \in {Shapes[i] : i \in DOMAIN Shapes}
<1> DEFINE v == [i \in 1..6 |-> scores[Shapes[i]]]
           passing == {i \in DOMAIN Shapes : \A p \in DOMAIN scores : scores[Shapes[i]] >= scores[p]}
           first == CHOOSE i \in passing : \A j \in passing : i <= j
<1>1. DOMAIN Shapes = 1..6
  BY DEF Shapes
<1>2. DOMAIN scores = {Shapes[i] : i \in 1..6}
  BY <1>1 DEF Scored
<1>3. v \in [1..6 -> Int]
  BY <1>2
<1>4. PICK i \in 1..6 : \A j \in 1..6 : v[i] >= v[j]
  <2> HIDE DEF v
  <2>1. /\ v[1] \in Int /\ v[2] \in Int /\ v[3] \in Int
        /\ v[4] \in Int /\ v[5] \in Int /\ v[6] \in Int
    BY <1>3
  <2>2. \E i \in 1..6 : /\ v[i] >= v[1] /\ v[i] >= v[2] /\ v[i] >= v[3]
                        /\ v[i] >= v[4] /\ v[i] >= v[5] /\ v[i] >= v[6]
    BY <2>1
  <2> QED
    BY <2>2
<1>5. i \in passing
  BY <1>1, <1>2, <1>4
<1>6. first \in passing
  <2>1. \E k \in passing : \A j \in passing : k <= j
    BY <1>1, <1>5, LeastPosition
  <2> QED
    BY <2>1
<1>7. Choice(Shapes, scores) = Shapes[first]
  BY <1>5 DEF Choice, FirstIn
<1> QED
  BY <1>6, <1>7

(* For any fleet and any scores: the shape is one of the six, and a node   *)
(* that is selected is one the workload may use, the pinned one too        *)
(* (resolve_fleet_placement).                                              *)
THEOREM PlacementTypes == FleetSpec => []FleetTypeOK
<1>1. ASSUME PlacementInv, Placed
      PROVE  /\ placement.shape \in {Shapes[i] : i \in DOMAIN Shapes}
             /\ placement.selected \in Ids(workload) \cup {None}
  <2> DEFINE w == workload
             shape == Choice(Shapes, proposal.placement)
  <2>1. /\ IsWorkload(w) /\ placement = Placement(proposal, w)
        /\ shape \in {Shapes[i] : i \in DOMAIN Shapes}
    BY <1>1, WorkloadsAssumption, ProposalsAssumption, ShapeIsOne DEF PlacementInv
  <2>2. {"local", "defer", "abstain", "split"} \subseteq {Shapes[i] : i \in DOMAIN Shapes}
    <3>1. /\ DOMAIN Shapes = 1..6 /\ Shapes[1] = "local" /\ Shapes[4] = "split"
          /\ Shapes[5] = "defer" /\ Shapes[6] = "abstain"
      BY DEF Shapes
    <3> QED
      BY <3>1
  <2>3. ASSUME Ranked(w) # <<>>
        PROVE  /\ Top(w) \in Ids(w)
               /\ w.pinned # None => w.pinned \in Ids(w)
    <3>1. Eligible(w) # {}
      BY <2>1, <2>3, EligibleHaveKeys, EmptyIsSorted
    <3>2. Ranked(w)[1] \in Eligible(w)
      BY <2>1, <3>1, EligibleHaveKeys, FirstOfSorted
    <3>3. Fits(w.nodes[Ranked(w)[1]], w)
      BY <3>2 DEF Eligible
    <3> QED
      BY <3>2, <3>3 DEF Top, Ids, Fits
  <2>4. placement \in {Outcome("defer", None), Outcome("abstain", None), Outcome("split", None),
                       Outcome(shape, None)}
          \/ /\ Ranked(w) # <<>>
             /\ \/ w.pinned # None /\ placement = Outcome("local", w.pinned)
                \/ placement = Outcome(shape, Top(w))
    <3> DEFINE ranked == Ranked(w)
               rules == <<
                 Rule(ranked = <<>>, Outcome("defer", None)),
                 Rule(ConfidenceRank(Choice(Confidences, proposal.confidence))
                        < ConfidenceRank(MinimumConfidence), Outcome("abstain", None)),
                 Rule(shape \in {"defer", "abstain"}, Outcome(shape, None)),
                 Rule(w.pinned # None, Outcome("local", w.pinned)),
                 Rule(shape = "local", Outcome("defer", None)),
                 Rule(shape = "split" /\ ~CanSplit(w), Outcome("defer", None)),
                 Rule(shape = "split", Outcome("split", None)),
                 Rule(TRUE, Outcome(shape, IF ranked = <<>> THEN None ELSE Top(w))) >>
    <3>1. placement = Answer(rules)
      BY <2>1 DEF Placement, Top
    <3> HIDE DEF rules, ranked, shape
    <3>2. DOMAIN rules = 1..8 /\ Applies(rules, 8)
      BY DEF rules, Applies, Rule
    <3> DEFINE k == Applying(rules)
    <3>3. k \in 1..8 /\ Applies(rules, k) /\ \A j \in 1..8 : j < k => ~Applies(rules, j)
      <4>1. 8 \in Nat /\ 8 \in 1..8
        OBVIOUS
      <4>2. \/ k = 0 /\ \A j \in 1..8 : ~Applies(rules, j)
            \/ k \in 1..8 /\ Applies(rules, k) /\ \A j \in 1..8 : j < k => ~Applies(rules, j)
        BY <3>2, <4>1, ApplyingIsFirst
      <4> QED
        BY <3>2, <4>1, <4>2
    <3>4. placement = rules[k][1]
      BY <3>1 DEF Answer
    <3> HIDE DEF k
    <3>5. k # 1 => ranked # <<>>
      BY <3>3 DEF rules, Applies, Rule
    <3>6. k = 1 \/ k = 2 \/ k = 3 \/ k = 4 \/ k = 5 \/ k = 6 \/ k = 7 \/ k = 8
      BY <3>3
    <3>7. k = 1 => placement = Outcome("defer", None)
      BY <3>3, <3>4 DEF rules, Applies, Rule
    <3>8. k = 2 => placement = Outcome("abstain", None)
      BY <3>3, <3>4 DEF rules, Applies, Rule
    <3>9. k = 3 => placement = Outcome(shape, None)
      BY <3>3, <3>4 DEF rules, Applies, Rule
    <3>10. k = 4 => w.pinned # None /\ placement = Outcome("local", w.pinned)
      BY <3>3, <3>4 DEF rules, Applies, Rule
    <3>11. k \in {5, 6} => placement = Outcome("defer", None)
      BY <3>3, <3>4 DEF rules, Applies, Rule
    <3>12. k = 7 => placement = Outcome("split", None)
      BY <3>3, <3>4 DEF rules, Applies, Rule
    <3>13. k = 8 => placement = Outcome(shape, Top(w))
      BY <3>4, <3>5 DEF rules, Applies, Rule
    <3> QED
      BY <3>5, <3>6, <3>7, <3>8, <3>9, <3>10, <3>11, <3>12, <3>13 DEF ranked
  <2> HIDE DEF shape, w
  <2> QED
    BY <2>1, <2>2, <2>3, <2>4 DEF Outcome, w
<1>2. PlacementInv => FleetTypeOK
  BY <1>1 DEF FleetTypeOK
<1> QED
  BY <1>2, PlacementInvariance, PTL

(* For any fleet and any scores: the snapshot of a node that may not be    *)
(* used has no influence (eligible_nodes, resolve_fleet_placement).        *)
THEOREM IllegalNodesNeverCount == FleetSpec => []IllegalNodesAreInvisible
<1>1. PlacementInv => IllegalNodesAreInvisible
  BY WithoutIllegal, WorkloadsAssumption DEF PlacementInv, IllegalNodesAreInvisible
<1> QED
  BY <1>1, PlacementInvariance, PTL

(* For any fleet and any scores: snapshots in the opposite order lead to   *)
(* the same answer, ids that occur twice included (rank_eligible_nodes).   *)
THEOREM ArrivalOrderNeverDecides == FleetSpec => []ArrivalOrderIrrelevant
<1>1. PlacementInv => ArrivalOrderIrrelevant
  BY ReversedIsTheSame, WorkloadsAssumption DEF PlacementInv, ArrivalOrderIrrelevant
<1> QED
  BY <1>1, PlacementInvariance, PTL
---------------------------------------------------------------------------
(* The advice *)

LanesOK(m) ==
  /\ m \in Seq({m[i] : i \in DOMAIN m})
  /\ \A i \in DOMAIN m : IsLane(m[i])

LaneKey(m, r, S) == [i \in S |-> <<-Score(m[i], r), IdRank[m[i].node]>>]

LEMMA LanesHaveKeys ==
  ASSUME NEW m, LanesOK(m), NEW r, r.now \in Int, NEW role, NEW barred
  PROVE  LET Q == Qualified(m, r, role, barred)
         IN Keyed(Q, LaneKey(m, r, Q), 2) /\ Q \subseteq DOMAIN m
<1> DEFINE Q == Qualified(m, r, role, barred)
<1>1. Len(m) \in Nat /\ DOMAIN m = 1..Len(m)
  BY DEF LanesOK
<1>2. Q \in SUBSET (1..Len(m))
  BY <1>1 DEF Qualified
<1>3. IsFiniteSet(Q)
  <2>1. IsFiniteSet(1..Len(m))
    BY <1>1, FS_Interval
  <2> HIDE DEF Q
  <2> QED
    BY <1>2, <2>1, FS_Subset
<1>4. ASSUME NEW i \in Q PROVE <<-Score(m[i], r), IdRank[m[i].node]>> \in [1..2 -> Int]
  <2> DEFINE l == m[i]
  <2>1. IsLane(l)
    BY <1>1, <1>2 DEF LanesOK
  <2> HIDE DEF l
  <2>2. /\ l.confidence \in Int /\ l.speed \in Int /\ l.pressure \in Int /\ l.freshness \in Int
        /\ l.observed \in Int /\ MaxAge \in Int /\ MaxHealthAge \in Int
    BY <2>1, LimitsAssumption DEF IsLane
  <2>3. MaxAge - Age(l, r) \in Int /\ MaxHealthAge - l.freshness \in Int /\ 10 - l.pressure \in Int
    BY <2>2 DEF Age
  <2>4. \A a, b \in Int : a * b \in Int
    OBVIOUS
  <2>5. Score(l, r) \in Int
    BY <2>2, <2>3, <2>4 DEF Score
  <2>6. IdRank[l.node] \in Int
    BY <2>1, IdsAssumption DEF IsLane
  <2> QED
    BY <2>5, <2>6 DEF l
<1> HIDE DEF Q
<1>5. Keyed(Q, LaneKey(m, r, Q), 2)
  BY <1>1, <1>2, <1>3, <1>4 DEF Keyed, Keys, LaneKey
<1> QED
  BY <1>1, <1>2, <1>5 DEF Q

(* The lanes a list of preferences names, in the order of their scores.    *)
Listed(n) == {j \in 1..n : j <= MaxPriority}

LEMMA ListedIsAPrefix ==
  ASSUME NEW n \in Nat
  PROVE  \E p \in Nat : Listed(n) = 1..p /\ (p = 0 <=> n = 0) /\ p <= n
<1>1. MaxPriority \in Nat /\ MaxPriority # 0
  BY LimitsAssumption
<1>2. CASE n <= MaxPriority
  BY <1>1, <1>2 DEF Listed
<1>3. CASE MaxPriority < n
  <2>1. Listed(n) = 1..MaxPriority
    BY <1>1, <1>3 DEF Listed
  <2> QED
    BY <1>1, <1>3, <2>1
<1> QED
  BY <1>1, <1>2, <1>3

LEMMA PreferencesAre ==
  ASSUME NEW m, LanesOK(m), NEW r, r.now \in Int, NEW role, NEW barred
  PROVE  LET Q == Qualified(m, r, role, barred)
             prefs == Preferences(m, r, role, barred)
             sorted == Sorted(Q, LaneKey(m, r, Q))
         IN  /\ Cardinality(Q) \in Nat
             /\ DOMAIN prefs = Listed(Cardinality(Q))
             /\ \A k \in Listed(Cardinality(Q)) : prefs[k] = Preference(m[sorted[k]], r, role)
             /\ sorted \in [1..Cardinality(Q) -> Q]
             /\ prefs \in Seq({Preference(m[i], r, role) : i \in Q})
             /\ prefs = <<>> <=> Q = {}
<1> DEFINE Q == Qualified(m, r, role, barred)
           prefs == Preferences(m, r, role, barred)
           sorted == Sorted(Q, LaneKey(m, r, Q))
           n == Cardinality(Q)
           values == {Preference(m[i], r, role) : i \in Q}
<1>1. Keyed(Q, LaneKey(m, r, Q), 2)
  BY LanesHaveKeys
<1>2. n \in Nat /\ sorted \in [1..n -> Q]
  BY <1>1, SortedPlaces
<1>3. prefs = [k \in Listed(n) |-> Preference(m[sorted[k]], r, role)]
  <2>1. DOMAIN sorted = 1..n
    BY <1>2
  <2> QED
    BY <2>1 DEF Preferences, LaneKey, Listed
<1>4. Q = {} <=> n = 0
  BY <1>1, FS_EmptySet DEF Keyed
<1>5. PICK p \in Nat : Listed(n) = 1..p /\ (p = 0 <=> n = 0) /\ p <= n
  BY <1>2, ListedIsAPrefix
<1> HIDE DEF Q, prefs, sorted, n
<1>6. \A k \in 1..p : Preference(m[sorted[k]], r, role) \in values
  <2>1. \A k \in 1..p : sorted[k] \in Q
    BY <1>2, <1>5
  <2> QED
    BY <2>1
<1> HIDE DEF values
<1>7. prefs \in [1..p -> values]
  BY <1>3, <1>5, <1>6
<1>8. prefs \in Seq(values) /\ Len(prefs) = p
  BY <1>7
<1>9. prefs = <<>> <=> Q = {}
  BY <1>4, <1>5, <1>8, EmptySeq
<1>10. /\ DOMAIN prefs = Listed(n)
       /\ \A k \in Listed(n) : prefs[k] = Preference(m[sorted[k]], r, role)
  BY <1>3
<1> QED
  BY <1>2, <1>8, <1>9, <1>10 DEF Q, prefs, sorted, n, values

(* A preference names a lane that qualifies for the role, on a node that   *)
(* is not barred.                                                          *)
LEMMA PreferredQualify ==
  ASSUME NEW m, LanesOK(m), NEW r, r.now \in Int, NEW role, NEW barred,
         Preferences(m, r, role, barred) # <<>>
  PROVE  LET prefs == Preferences(m, r, role, barred)
         IN  /\ prefs \in Seq(Range(prefs)) /\ Len(prefs) \in Nat \ {0} /\ DOMAIN prefs = 1..Len(prefs)
             /\ \A i \in DOMAIN prefs : prefs[i].role = role /\ prefs[i].node # barred
<1> DEFINE Q == Qualified(m, r, role, barred)
           prefs == Preferences(m, r, role, barred)
           values == {Preference(m[i], r, role) : i \in Q}
<1>1. prefs \in Seq(values) /\ prefs # <<>>
  BY PreferencesAre
<1>2. \A v \in values : v.role = role /\ v.node # barred
  BY DEF Preference, Qualified
<1> HIDE DEF Q, prefs, values
<1>3. Len(prefs) \in Nat /\ DOMAIN prefs = 1..Len(prefs) /\ \A i \in 1..Len(prefs) : prefs[i] \in values
  BY <1>1
<1>4. Len(prefs) # 0
  BY <1>1, EmptySeq
<1>5. prefs \in Seq(Range(prefs))
  BY <1>1, <1>3 DEF Range
<1> QED
  BY <1>2, <1>3, <1>4, <1>5 DEF prefs

(* What the advice may be. *)
LEMMA AdviceIs ==
  ASSUME NEW m, NEW r, Advice(m, r).shape # "refused"
  PROVE  LET a == Advice(m, r)
             primary == Preferences(m, r, "code", None)
             reviewers == Preferences(m, r, "review", primary[1].node)
         IN  \/ a.shape = "defer"
             \/ a.shape = "preferred_node" /\ Eligible(r.workload) # {}
             \/ /\ a.shape = "split" /\ Eligible(r.workload) # {} /\ MaySplit(r.workload)
                /\ a.preferred = primary \o reviewers /\ primary # <<>> /\ reviewers # <<>>
<1> DEFINE role == RoleFor[r.intent]
           primary == Preferences(m, r, role, None)
           scouts == Preferences(m, r, "scout", None)
           reviewers == Preferences(m, r, "review", primary[1].node)
           single == Advised("preferred_node", role, None, primary, primary[1].node)
<1>1. Advice(m, r) =
        IF Eligible(r.workload) = {} THEN Deferred(None)
        ELSE IF HandlesRefused(primary) THEN AdviceRefused
        ELSE IF primary = <<>> THEN
               IF role # "code" \/ scouts = <<>> THEN Deferred(None)
               ELSE IF HandlesRefused(scouts) THEN AdviceRefused
               ELSE Deferred("scout")
        ELSE IF role # "code" THEN single
        ELSE IF HandlesRefused(reviewers) THEN AdviceRefused
        ELSE IF reviewers # <<>> /\ MaySplit(r.workload)
             THEN Advised("split", "code", None, primary \o reviewers, None)
        ELSE single
  BY DEF Advice
<1>2. /\ Deferred(None).shape = "defer" /\ Deferred("scout").shape = "defer"
      /\ AdviceRefused.shape = "refused" /\ single.shape = "preferred_node"
      /\ LET split == Advised("split", "code", None, primary \o reviewers, None)
         IN split.shape = "split" /\ split.preferred = primary \o reviewers
  BY DEF Deferred, AdviceRefused, Advised
<1>3. role = "code" => /\ primary = Preferences(m, r, "code", None)
                       /\ reviewers = Preferences(m, r, "review", primary[1].node)
  OBVIOUS
<1> HIDE DEF role, scouts, primary, reviewers, single
<1> QED
  BY <1>1, <1>2, <1>3

(* The options are n values, of which the k-th is like no other.           *)
OnlyAt(options, n, k) ==
  /\ n \in Nat /\ DOMAIN options = 1..n /\ k \in 1..n
  /\ \A i \in 1..n : options[i] = options[k] => i = k

(* Of a score of ten on one option, that is the choice. *)
LEMMA ChoiceOfAllOn ==
  ASSUME NEW options, NEW n, NEW k, OnlyAt(options, n, k)
  PROVE  Choice(options, AllOn(options, options[k])) = options[k]
<1> DEFINE scores == AllOn(options, options[k])
           passing == {i \in DOMAIN options : \A p \in DOMAIN scores : scores[options[i]] >= scores[p]}
<1>1. /\ DOMAIN scores = {options[i] : i \in 1..n}
      /\ scores[options[k]] = 10
      /\ \A i \in 1..n : i # k => scores[options[i]] = 0
  BY DEF AllOn, OnlyAt
<1>2. passing = {k}
  <2> HIDE DEF scores
  <2>1. k \in passing
    <3>1. ASSUME NEW p \in DOMAIN scores PROVE scores[options[k]] >= scores[p]
      <4>1. PICK i \in 1..n : p = options[i]
        BY <1>1
      <4>2. scores[p] = 10 \/ scores[p] = 0
        BY <1>1, <4>1
      <4> QED
        BY <1>1, <4>2
    <3> QED
      BY <3>1 DEF OnlyAt
  <2>2. ASSUME NEW i \in passing PROVE i = k
    <3>1. i \in 1..n /\ options[k] \in DOMAIN scores
      BY <1>1 DEF OnlyAt
    <3>2. scores[options[i]] >= 10
      BY <1>1, <3>1
    <3> QED
      BY <1>1, <3>1, <3>2
  <2> QED
    BY <2>1, <2>2
<1>3. FirstIn(options, LAMBDA o : \A p \in DOMAIN scores : scores[o] >= scores[p])
        = IF passing = {} THEN 0 ELSE CHOOSE i \in passing : \A j \in passing : i <= j
  BY DEF FirstIn
<1>4. (CHOOSE i \in {k} : \A j \in {k} : i <= j) = k
  BY DEF OnlyAt
<1>5. FirstIn(options, LAMBDA o : \A p \in DOMAIN scores : scores[o] >= scores[p]) = k
  <2> HIDE DEF passing, scores
  <2> QED
    BY <1>2, <1>3, <1>4
<1> QED
  BY <1>5 DEF Choice

LEMMA ConfidenceIsRanked ==
  ASSUME NEW k, OnlyAt(Confidences, 5, k)
  PROVE  ConfidenceRank(Confidences[k]) = k
<1> DEFINE passing == {i \in DOMAIN Confidences : Confidences[i] = Confidences[k]}
<1>1. passing = {k}
  BY DEF OnlyAt
<1>2. ConfidenceRank(Confidences[k])
        = IF passing = {} THEN 0 ELSE CHOOSE i \in passing : \A j \in passing : i <= j
  BY DEF ConfidenceRank, FirstIn
<1>3. (CHOOSE i \in {k} : \A j \in {k} : i <= j) = k
  BY DEF OnlyAt
<1> HIDE DEF passing
<1> QED
  BY <1>1, <1>2, <1>3

LEMMA AllOnIsChosen ==
  /\ \A s \in {"preferred_node", "split", "defer"} : Choice(Shapes, AllOn(Shapes, s)) = s
  /\ Choice(Confidences, AllOn(Confidences, "high")) = "high"
  /\ ConfidenceRank("high") = 4 /\ ConfidenceRank(MinimumConfidence) = 3
<1>1. /\ OnlyAt(Shapes, 6, 2) /\ OnlyAt(Shapes, 6, 4) /\ OnlyAt(Shapes, 6, 5)
      /\ Shapes[2] = "preferred_node" /\ Shapes[4] = "split" /\ Shapes[5] = "defer"
  BY DEF OnlyAt, Shapes
<1>2. /\ OnlyAt(Confidences, 5, 3) /\ OnlyAt(Confidences, 5, 4)
      /\ Confidences[3] = MinimumConfidence /\ Confidences[4] = "high"
  BY DEF OnlyAt, Confidences, MinimumConfidence
<1>3. Choice(Shapes, AllOn(Shapes, Shapes[2])) = Shapes[2]
  BY <1>1, ChoiceOfAllOn
<1>4. Choice(Shapes, AllOn(Shapes, Shapes[4])) = Shapes[4]
  BY <1>1, ChoiceOfAllOn
<1>5. Choice(Shapes, AllOn(Shapes, Shapes[5])) = Shapes[5]
  BY <1>1, ChoiceOfAllOn
<1>6. Choice(Confidences, AllOn(Confidences, Confidences[4])) = Confidences[4]
  BY <1>2, ChoiceOfAllOn
<1>7. ConfidenceRank(Confidences[4]) = 4 /\ ConfidenceRank(Confidences[3]) = 3
  BY <1>2, ConfidenceIsRanked
<1> QED
  BY <1>1, <1>2, <1>3, <1>4, <1>5, <1>6, <1>7

(* The resolver follows a shape that the fleet has room for. *)
LEMMA ShapeIsFollowed ==
  ASSUME NEW w, IsWorkload(w), w.pinned = None,
         NEW shape \in {"preferred_node", "split", "defer"},
         shape # "defer" => Eligible(w) # {},
         shape = "split" => CanSplit(w)
  PROVE  Placement([placement |-> AllOn(Shapes, shape),
                    confidence |-> AllOn(Confidences, "high")], w).shape = shape
<1> DEFINE p == [placement |-> AllOn(Shapes, shape), confidence |-> AllOn(Confidences, "high")]
           ranked == Ranked(w)
           top == IF ranked = <<>> THEN None ELSE w.nodes[ranked[1]].id
           R == << Rule(ranked = <<>>, Outcome("defer", None)),
                   Rule(ConfidenceRank("high") < ConfidenceRank(MinimumConfidence), Outcome("abstain", None)),
                   Rule(shape \in {"defer", "abstain"}, Outcome(shape, None)),
                   Rule(w.pinned # None, Outcome("local", w.pinned)),
                   Rule(shape = "local", Outcome("defer", None)),
                   Rule(shape = "split" /\ ~CanSplit(w), Outcome("defer", None)),
                   Rule(shape = "split", Outcome("split", None)),
                   Rule(TRUE, Outcome(shape, top)) >>
<1>1. Placement(p, w) = Answer(R)
  <2>1. Choice(Shapes, p.placement) = shape /\ Choice(Confidences, p.confidence) = "high"
    BY AllOnIsChosen
  <2> HIDE DEF p
  <2> QED
    BY <2>1 DEF Placement
<1>2. ranked = <<>> <=> Eligible(w) = {}
  BY EligibleHaveKeys, EmptyIsSorted
<1>3. /\ DOMAIN R = 1..8
      /\ R[1] = Rule(ranked = <<>>, Outcome("defer", None))
      /\ R[2] = Rule(ConfidenceRank("high") < ConfidenceRank(MinimumConfidence), Outcome("abstain", None))
      /\ R[3] = Rule(shape \in {"defer", "abstain"}, Outcome(shape, None))
      /\ R[4] = Rule(w.pinned # None, Outcome("local", w.pinned))
      /\ R[5] = Rule(shape = "local", Outcome("defer", None))
      /\ R[6] = Rule(shape = "split" /\ ~CanSplit(w), Outcome("defer", None))
      /\ R[7] = Rule(shape = "split", Outcome("split", None))
      /\ R[8] = Rule(TRUE, Outcome(shape, top))
  OBVIOUS
<1> HIDE DEF R, ranked, top
<1>4. /\ Applies(R, 1) <=> ranked = <<>>
      /\ Applies(R, 1) => R[1][1].shape = "defer"
  BY <1>3 DEF Applies, Rule, Outcome
<1>5. ~ Applies(R, 2)
  BY <1>3, AllOnIsChosen DEF Applies, Rule
<1>6. (Applies(R, 3) <=> shape = "defer") /\ (Applies(R, 3) => R[3][1].shape = "defer")
  BY <1>3 DEF Applies, Rule, Outcome
<1>7. ~ Applies(R, 4) /\ ~ Applies(R, 5) /\ ~ Applies(R, 6)
  BY <1>3 DEF Applies, Rule
<1>8. (Applies(R, 7) => shape = "split" /\ R[7][1].shape = "split") /\ Applies(R, 8) /\ R[8][1].shape = shape
  BY <1>3 DEF Applies, Rule, Outcome
<1>9. /\ Applying(R) \in 1..8 /\ Applies(R, Applying(R))
      /\ \A j \in 1..8 : j < Applying(R) => ~ Applies(R, j)
  <2>1. 8 \in Nat /\ DOMAIN R = 1..8 /\ 8 \in 1..8
    BY <1>3
  <2>2. \/ /\ Applying(R) = 0
           /\ \A j \in 1..8 : ~ Applies(R, j)
        \/ /\ Applying(R) \in 1..8 /\ Applies(R, Applying(R))
           /\ \A j \in 1..8 : j < Applying(R) => ~ Applies(R, j)
    BY <2>1, ApplyingIsFirst
  <2> QED
    BY <1>8, <2>1, <2>2
<1>10. R[Applying(R)][1].shape = shape
  BY <1>2, <1>4, <1>5, <1>6, <1>7, <1>8, <1>9
<1> QED
  BY <1>1, <1>10 DEF Answer, p

LEMMA TwoIdsAreTwoNodes ==
  ASSUME NEW w, IsWorkload(w), MaySplit(w)
  PROVE  CanSplit(w)
<1> DEFINE f == [i \in Eligible(w) |-> w.nodes[i].id]
<1>1. f \in Surjection(Eligible(w), Ids(w))
  BY DEF Surjection, Ids
<1>2. IsFiniteSet(Eligible(w)) /\ Cardinality(Eligible(w)) \in Nat
  BY EligibleHaveKeys, FS_CardinalityType DEF Keyed
<1> HIDE DEF f
<1>3. Cardinality(Ids(w)) <= Cardinality(Eligible(w)) /\ Cardinality(Ids(w)) \in Nat
  BY <1>1, <1>2, FS_Surjection, FS_CardinalityType
<1>4. Len(Ranked(w)) = Cardinality(Eligible(w))
  BY EligibleHaveKeys, EmptyIsSorted
<1> QED
  BY <1>2, <1>3, <1>4 DEF CanSplit, MaySplit
(* The join gives lanes with numbers in them. *)
LEMMA MatrixIsOK ==
  ASSUME NEW c, IsCampaign(c)
  PROVE  LanesOK(Matrix(c))
<1> DEFINE joined == {i \in Known(c) : Joinable(c, i)}
           key == [i \in joined |-> <<IdRank[c.entries[i].node]>>]
           order == Sorted(joined, key)
           n == Cardinality(joined)
<1>1. Len(c.entries) \in Nat /\ DOMAIN c.entries = 1..Len(c.entries)
  BY DEF IsCampaign
<1>2. joined \in SUBSET (1..Len(c.entries))
  BY <1>1 DEF Known
<1>3. IsFiniteSet(joined)
  <2>1. IsFiniteSet(1..Len(c.entries))
    BY <1>1, FS_Interval
  <2> HIDE DEF joined
  <2> QED
    BY <1>2, <2>1, FS_Subset
<1>4. \A i \in joined : c.entries[i].node \in DOMAIN IdRank
  BY DEF Known, IsCampaign
<1>5. Keyed(joined, key, 1)
  <2>1. \A i \in joined : key[i] = <<IdRank[c.entries[i].node]>> /\ IdRank[c.entries[i].node] \in Int
    BY <1>4, IdsAssumption
  <2>2. \A i \in joined : key[i] \in Keys(1)
    BY <2>1 DEF Keys
  <2> HIDE DEF joined, key
  <2> QED
    BY <1>1, <1>2, <1>3, <2>2 DEF Keyed
<1>6. n \in Nat /\ order \in [1..n -> joined]
  <2> HIDE DEF joined, key
  <2> QED
    BY <1>5, SortedPlaces
<1>7. ASSUME NEW i \in joined PROVE IsLane(Lane(c, i))
  <2> DEFINE e == c.entries[i]
             h == c.health[e.node]
  <2>1. /\ e.node \in DOMAIN IdRank /\ e.confidence \in Int /\ e.speed \in Int
        /\ h.pressure \in Int /\ h.freshness \in Int /\ c.generated \in Int
    BY <1>4 DEF Known, Joinable, IsCampaign
  <2> QED
    BY <2>1 DEF Lane, IsLane
<1> HIDE DEF joined, key, order, n
<1>8. Matrix(c) = [k \in 1..n |-> Lane(c, order[k])]
  BY <1>6 DEF Matrix, joined, key, order
<1>9. \A k \in 1..n : Matrix(c)[k] = Lane(c, order[k]) /\ order[k] \in joined
  BY <1>6, <1>8
<1>10. DOMAIN Matrix(c) = 1..n
  BY <1>8
<1>11. Matrix(c) \in Seq({Matrix(c)[k] : k \in DOMAIN Matrix(c)})
  <2>1. Matrix(c) \in [1..n -> {Matrix(c)[k] : k \in DOMAIN Matrix(c)}]
    BY <1>8, <1>10
  <2> QED
    BY <1>6, <2>1
<1> QED
  BY <1>7, <1>9, <1>10, <1>11 DEF LanesOK

AdviceInv ==
  /\ campaign # None => campaign \in Campaigns
  /\ lanes # None => LanesOK(lanes)
  /\ advice # None => /\ lanes # None /\ request \in Requests
                      /\ advice = Advice(lanes, request)

LEMMA AdviceStarts == AdviceInit => AdviceInv
  BY EvidenceAssumption DEF AdviceInit, AdviceInv, LanesOK

LEMMA AdviceStep == AdviceInv /\ [AdviceNext]_adviceVars => AdviceInv'
<1> SUFFICES ASSUME AdviceInv, [AdviceNext]_adviceVars PROVE AdviceInv'
  OBVIOUS
<1>1. CASE Join
  <2>1. LanesOK(Matrix(campaign))
    BY <1>1, MatrixIsOK, EvidenceAssumption DEF Join, AdviceInv
  <2> QED
    BY <1>1, <2>1 DEF Join, AdviceInv
<1>2. CASE Advise
  BY <1>2 DEF Advise, AdviceInv
<1>3. CASE UNCHANGED adviceVars
  BY <1>3 DEF adviceVars, AdviceInv
<1> QED
  BY <1>1, <1>2, <1>3 DEF AdviceNext

LEMMA AdviceInvariance == AdviceSpec => []AdviceInv
  BY AdviceStarts, AdviceStep, PTL DEF AdviceSpec

(* For any fleet, evidence and request: what is not refused is one of the  *)
(* three shapes, for a role that was asked for or for none                 *)
(* (build_fleet_benchmark_advisory).                                       *)
THEOREM AdviceTypes == AdviceSpec => []AdviceTypeOK
<1>1. ASSUME AdviceInv, IsAdvised
      PROVE  /\ advice.shape \in {"defer", "preferred_node", "split"}
             /\ advice.role \in {"code", "review", "scout", "summary", None}
  <2> DEFINE role == RoleFor[request.intent]
             primary == Preferences(lanes, request, role, None)
             reviewers == Preferences(lanes, request, "review", primary[1].node)
             split == Advised("split", "code", None, primary \o reviewers, None)
             single == Advised("preferred_node", role, None, primary, primary[1].node)
  <2>1. advice = Advice(lanes, request) /\ advice.shape # "refused" /\ role \in {"code", "review", "scout", "summary"}
    BY <1>1, IntentsAssumption DEF AdviceInv, IsAdvised, RoleFor
  <2>2. advice \in {Deferred(None), Deferred("scout"), AdviceRefused, single, split}
    <3> HIDE DEF role, primary, reviewers
    <3> QED
      BY <2>1 DEF Advice, role, primary, reviewers
  <2> HIDE DEF role, primary, reviewers
  <2> QED
    BY <2>1, <2>2 DEF Deferred, AdviceRefused, Advised
<1>2. AdviceInv => AdviceTypeOK
  BY <1>1 DEF AdviceTypeOK
<1> QED
  BY <1>2, AdviceInvariance, PTL

(* The coder that comes first and the reviewer that comes first of a split. *)
LEMMA SplitIsOnTwoNodes ==
  ASSUME NEW m, LanesOK(m), NEW r, r.now \in Int,
         Advice(m, r).shape = "split"
  PROVE  LET preferred == Advice(m, r).preferred
         IN \E i, j \in DOMAIN preferred :
              /\ preferred[i].role = "code" /\ preferred[j].role = "review"
              /\ preferred[i].node # preferred[j].node
<1> DEFINE primary == Preferences(m, r, "code", None)
           leader == primary[1].node
           reviewers == Preferences(m, r, "review", leader)
           both == primary \o reviewers
<1>1. Advice(m, r).preferred = both /\ primary # <<>> /\ reviewers # <<>>
  BY AdviceIs
<1>2. /\ primary \in Seq(Range(primary)) /\ Len(primary) \in Nat \ {0} /\ DOMAIN primary = 1..Len(primary)
      /\ \A i \in DOMAIN primary : primary[i].role = "code"
  BY <1>1, PreferredQualify
<1>3. /\ reviewers \in Seq(Range(reviewers)) /\ Len(reviewers) \in Nat \ {0}
      /\ DOMAIN reviewers = 1..Len(reviewers)
      /\ \A i \in DOMAIN reviewers : reviewers[i].role = "review" /\ reviewers[i].node # leader
  BY <1>1, PreferredQualify
<1> DEFINE second == Len(primary) + 1
<1> HIDE DEF primary, reviewers
<1>4. /\ DOMAIN both = 1..(Len(primary) + Len(reviewers))
      /\ both[1] = primary[1] /\ both[second] = reviewers[1]
  BY <1>2, <1>3
<1>5. 1 \in DOMAIN both /\ second \in DOMAIN both
  BY <1>2, <1>3, <1>4
<1>6. both[1].role = "code" /\ both[second].role = "review" /\ both[1].node # both[second].node
  BY <1>2, <1>3, <1>4
<1> QED
  BY <1>1, <1>5, <1>6

(* For any fleet, evidence and request: the shape that is advised is the    *)
(* shape the resolver gives when the model asks for it with confidence,    *)
(* and a split names a coder and a reviewer on two nodes                   *)
(* (build_fleet_benchmark_advisory, resolve_fleet_placement).              *)
THEOREM AdviceIsFollowable == AdviceSpec => []AdviceCanBeFollowed
<1>1. ASSUME AdviceInv, IsAdvised, request.workload.pinned = None
      PROVE  /\ Placement([placement |-> AllOn(Shapes, advice.shape),
                           confidence |-> AllOn(Confidences, "high")], request.workload).shape
                  = advice.shape
             /\ advice.shape = "split" =>
                  \E i, j \in DOMAIN advice.preferred :
                    /\ advice.preferred[i].role = "code" /\ advice.preferred[j].role = "review"
                    /\ advice.preferred[i].node # advice.preferred[j].node
  <2> DEFINE w == request.workload
  <2>1. /\ LanesOK(lanes) /\ IsWorkload(w) /\ request.now \in Int
        /\ advice = Advice(lanes, request) /\ advice.shape # "refused"
    BY <1>1, RequestsAssumption DEF AdviceInv, IsAdvised
  <2>2. /\ advice.shape \in {"preferred_node", "split", "defer"}
        /\ advice.shape # "defer" => Eligible(w) # {}
        /\ advice.shape = "split" => MaySplit(w)
    BY <2>1, AdviceIs
  <2>3. advice.shape = "split" => CanSplit(w)
    BY <2>1, <2>2, TwoIdsAreTwoNodes
  <2>4. Placement([placement |-> AllOn(Shapes, advice.shape),
                   confidence |-> AllOn(Confidences, "high")], w).shape = advice.shape
    BY <1>1, <2>1, <2>2, <2>3, ShapeIsFollowed
  <2>5. advice.shape = "split" =>
          \E i, j \in DOMAIN advice.preferred :
            /\ advice.preferred[i].role = "code" /\ advice.preferred[j].role = "review"
            /\ advice.preferred[i].node # advice.preferred[j].node
    BY <2>1, SplitIsOnTwoNodes
  <2> QED
    BY <2>4, <2>5
<1>2. AdviceInv => AdviceCanBeFollowed
  BY <1>1 DEF AdviceCanBeFollowed
<1> QED
  BY <1>2, AdviceInvariance, PTL

(* Without a lane that is not used the preferences are the same. *)
LEMMA UnusedIsNotPreferred ==
  ASSUME NEW m, LanesOK(m), NEW r, r.now \in Int, NEW i \in DOMAIN m, ~ Usable(m[i], r),
         NEW role, NEW barred
  PROVE  Preferences(DropLane(m, i), r, role, barred) = Preferences(m, r, role, barred)
<1> DEFINE d == DropLane(m, i)
           len == Len(m)
           Q == Qualified(m, r, role, barred)
           D == Qualified(d, r, role, barred)
           key == LaneKey(m, r, Q)
           moved == LaneKey(d, r, D)
           h == [j \in D |-> Skip(i, j)]
<1>1. len \in Nat /\ DOMAIN m = 1..len /\ i \in 1..len
  BY DEF LanesOK
<1>2. d = [j \in 1..(len - 1) |-> m[Skip(i, j)]]
  BY DEF DropLane, Skip
<1> HIDE DEF d
<1>3. \A j \in 1..(len - 1) : Skip(i, j) \in 1..len /\ d[j] = m[Skip(i, j)]
  BY <1>1, <1>2 DEF Skip
<1>4. DOMAIN d = 1..(len - 1) /\ len - 1 \in Nat
  BY <1>1, <1>2
<1>5. LanesOK(d)
  <2>1. d \in Seq({d[j] : j \in DOMAIN d})
    BY <1>2, <1>4
  <2> QED
    BY <1>1, <1>3, <1>4, <2>1 DEF LanesOK
<1>6. D \in SUBSET (1..(len - 1)) /\ Q \in SUBSET (1..len) /\ i \notin Q
  BY <1>1, <1>4 DEF Qualified
<1>7. \A j \in 1..(len - 1) : j \in D <=> Skip(i, j) \in Q
  BY <1>1, <1>3, <1>4 DEF Qualified
<1>8. /\ h \in Bijection(D, Q)
      /\ \A j, k \in D : j < k <=> Skip(i, j) < Skip(i, k)
  <2> HIDE DEF len, D, Q
  <2> QED
    BY <1>1, <1>6, <1>7, SkippingMoves
<1>9. Keyed(Q, key, 2) /\ Keyed(D, moved, 2)
  BY <1>5, LanesHaveKeys
<1> DEFINE before == Preferences(m, r, role, barred)
           after == Preferences(d, r, role, barred)
<1>10. /\ DOMAIN after = Listed(Cardinality(D)) /\ after \in Seq({Preference(d[j], r, role) : j \in D})
       /\ \A k \in Listed(Cardinality(D)) : after[k] = Preference(d[Sorted(D, moved)[k]], r, role)
  BY <1>5, PreferencesAre
<1>11. /\ DOMAIN before = Listed(Cardinality(Q)) /\ before \in Seq({Preference(m[j], r, role) : j \in Q})
       /\ \A k \in Listed(Cardinality(Q)) : before[k] = Preference(m[Sorted(Q, key)[k]], r, role)
  BY PreferencesAre
<1> HIDE DEF D, Q, before, after
<1>12. \A j \in D : h[j] = Skip(i, j) /\ h[j] \in Q /\ d[j] = m[h[j]]
  BY <1>3, <1>6, <1>7
<1>13. \A j \in D : moved[j] = key[h[j]]
  BY <1>12 DEF LaneKey
<1>14. \A j, k \in D : j < k <=> h[j] < h[k]
  BY <1>8, <1>12
<1> HIDE DEF h, key, moved
<1>15. \A j, k \in D : Ahead(j, k, moved) <=> Ahead(h[j], h[k], key)
  BY <1>13, <1>14 DEF Ahead
<1>16. /\ Cardinality(Q) = Cardinality(D)
       /\ \A k \in 1..Cardinality(D) : Sorted(Q, key)[k] = h[Sorted(D, moved)[k]]
  BY <1>8, <1>9, <1>15, SortedMoves
<1>17. \A k \in 1..Cardinality(D) : Sorted(D, moved)[k] \in D
  BY <1>9, SortedPlaces
<1>18. \A k \in Listed(Cardinality(D)) : d[Sorted(D, moved)[k]] = m[Sorted(Q, key)[k]]
  BY <1>12, <1>16, <1>17 DEF Listed
<1>19. after = before
  BY <1>16, <1>18, <1>10, <1>11
<1> QED
  BY <1>19 DEF after, before, d

LEMMA UnusedIsNotAdvised ==
  ASSUME NEW m, LanesOK(m), NEW r, r.now \in Int, NEW i \in DOMAIN m, ~ Usable(m[i], r)
  PROVE  Advice(DropLane(m, i), r) = Advice(m, r)
<1>1. \A role, barred :
        Preferences(DropLane(m, i), r, role, barred) = Preferences(m, r, role, barred)
  BY UnusedIsNotPreferred
<1> QED
  BY <1>1 DEF Advice

LEMMA TwoPartsAdd ==
  ASSUME NEW S, IsFiniteSet(S), NEW A \in SUBSET S, NEW B \in SUBSET S, A \cap B = {}
  PROVE  /\ Cardinality(A \cup B) = Cardinality(A) + Cardinality(B)
         /\ Cardinality(A) \in Nat /\ Cardinality(B) \in Nat
<1>1. IsFiniteSet(A) /\ IsFiniteSet(B)
  BY FS_Subset
<1>2. Cardinality(A) \in Nat /\ Cardinality(B) \in Nat
  BY <1>1, FS_CardinalityType
<1>3. Cardinality(A \cup B) = Cardinality(A) + Cardinality(B) - Cardinality(A \cap B)
  BY <1>1, FS_Union
<1>4. Cardinality(A \cap B) = 0
  BY FS_EmptySet
<1> QED
  BY <1>2, <1>3, <1>4

(* Each lane is used or under one count. *)
LEMMA EachLaneIsCountedOnce ==
  ASSUME NEW m, LanesOK(m), NEW r, r.now \in Int
  PROVE  LET usable == {i \in DOMAIN m : Usable(m[i], r)}
             counts == Ignored(m, r)
         IN Cardinality(usable) + counts.stale + counts.future + counts.low
              + counts.unhealthy + counts.ineligible = Len(m)
<1> DEFINE D == DOMAIN m
           used == {i \in D : Usable(m[i], r)}
           stale == {i \in D : ~ Fresh(m[i], r) /\ Age(m[i], r) >= 0}
           future == {i \in D : Age(m[i], r) < 0}
           low == {i \in D : Fresh(m[i], r) /\ ~ Trusted(m[i])}
           unhealthy == {i \in D : Fresh(m[i], r) /\ Trusted(m[i]) /\ ~ HealthFresh(m[i])}
           ineligible == {i \in D : /\ Fresh(m[i], r) /\ Trusted(m[i]) /\ HealthFresh(m[i])
                                    /\ ~ InFleet(m[i], r)}
           counts == Ignored(m, r)
<1>1. Len(m) \in Nat /\ D = 1..Len(m)
  BY DEF LanesOK
<1>2. IsFiniteSet(D) /\ Cardinality(D) = Len(m)
  <2> DEFINE n == Len(m)
  <2>1. n \in Nat /\ 1 \in Int /\ n \in Int
    BY <1>1
  <2> HIDE DEF n
  <2>2. IsFiniteSet(1..n) /\ Cardinality(1..n) = IF 1 > n THEN 0 ELSE n - 1 + 1
    BY <2>1, FS_Interval
  <2>3. Cardinality(1..n) = n
    BY <2>1, <2>2
  <2> HIDE DEF D
  <2> QED
    BY <1>1, <2>2, <2>3 DEF n
<1>3. /\ counts.stale = Cardinality(stale) /\ counts.future = Cardinality(future)
      /\ counts.low = Cardinality(low) /\ counts.unhealthy = Cardinality(unhealthy)
      /\ counts.ineligible = Cardinality(ineligible)
  BY DEF Ignored
<1>4. \A i \in D : Age(m[i], r) \in Int /\ MaxAge \in Int
  BY LimitsAssumption DEF LanesOK, IsLane, Age
<1>5. \A i \in D : Fresh(m[i], r) => ~ (Age(m[i], r) < 0)
  BY <1>4 DEF Fresh
<1>6. \A i \in D : ~ (Age(m[i], r) < 0) <=> Age(m[i], r) >= 0
  BY <1>4
<1> HIDE DEF counts, D
<1>7. used \cup stale \cup future \cup low \cup unhealthy \cup ineligible = D
  BY <1>6 DEF Usable
<1>8. /\ used \cap stale = {} /\ (used \cup stale) \cap future = {}
      /\ (used \cup stale \cup future) \cap low = {}
      /\ (used \cup stale \cup future \cup low) \cap unhealthy = {}
      /\ (used \cup stale \cup future \cup low \cup unhealthy) \cap ineligible = {}
  BY <1>5, <1>6 DEF Usable
<1>9. /\ used \in SUBSET D /\ stale \in SUBSET D /\ future \in SUBSET D
      /\ low \in SUBSET D /\ unhealthy \in SUBSET D /\ ineligible \in SUBSET D
  OBVIOUS
<1> HIDE DEF used, stale, future, low, unhealthy, ineligible
<1> DEFINE two == used \cup stale
           three == two \cup future
           four == three \cup low
           five == four \cup unhealthy
           six == five \cup ineligible
<1>10. /\ two \in SUBSET D /\ three \in SUBSET D /\ four \in SUBSET D /\ five \in SUBSET D
       /\ two \cap future = {} /\ three \cap low = {} /\ four \cap unhealthy = {}
       /\ five \cap ineligible = {} /\ six = D
  BY <1>7, <1>8, <1>9
<1> HIDE DEF two, three, four, five, six
<1>11. Cardinality(two) = Cardinality(used) + Cardinality(stale)
  BY <1>2, <1>8, <1>9, TwoPartsAdd DEF two
<1>12. Cardinality(three) = Cardinality(two) + Cardinality(future)
  <2>1. two \in SUBSET D /\ future \in SUBSET D /\ two \cap future = {}
    BY <1>9, <1>10
  <2> QED
    BY <1>2, <2>1, TwoPartsAdd DEF three
<1>13. Cardinality(four) = Cardinality(three) + Cardinality(low)
  <2>1. three \in SUBSET D /\ low \in SUBSET D /\ three \cap low = {}
    BY <1>9, <1>10
  <2> QED
    BY <1>2, <2>1, TwoPartsAdd DEF four
<1>14. /\ Cardinality(five) = Cardinality(four) + Cardinality(unhealthy)
       /\ Cardinality(six) = Cardinality(five) + Cardinality(ineligible)
  <2>1. four \in SUBSET D /\ unhealthy \in SUBSET D /\ four \cap unhealthy = {}
    BY <1>9, <1>10
  <2>2. five \in SUBSET D /\ ineligible \in SUBSET D /\ five \cap ineligible = {}
    BY <1>9, <1>10
  <2>3. Cardinality(five) = Cardinality(four) + Cardinality(unhealthy)
    BY <1>2, <2>1, TwoPartsAdd DEF five
  <2>4. Cardinality(six) = Cardinality(five) + Cardinality(ineligible)
    BY <1>2, <2>2, TwoPartsAdd DEF six
  <2> QED
    BY <2>3, <2>4
<1>15. Cardinality(used) + counts.stale + counts.future + counts.low
         + counts.unhealthy + counts.ineligible = Len(m)
  BY <1>2, <1>3, <1>10, <1>11, <1>12, <1>13, <1>14
<1> QED
  BY <1>15 DEF used, counts, D

(* For any evidence and request: a lane that is too old, in the future, of   *)
(* low quality, of bad health or on a node that may not be used has no     *)
(* influence on the advice, and is under one count and no other (_assess). *)
THEOREM IgnoredLanesNeverCount == AdviceSpec => []IgnoredIsInert
<1>1. ASSUME AdviceInv, IsAdvised PROVE IgnoredIsInert
  <2>1. LanesOK(lanes) /\ request.now \in Int /\ advice = Advice(lanes, request)
    BY <1>1, RequestsAssumption DEF AdviceInv, IsAdvised
  <2>2. \A i \in DOMAIN lanes :
          ~ Usable(lanes[i], request) => Advice(DropLane(lanes, i), request) = advice
    BY <2>1, UnusedIsNotAdvised
  <2>3. LET usable == {i \in DOMAIN lanes : Usable(lanes[i], request)}
            counts == Ignored(lanes, request)
        IN Cardinality(usable) + counts.stale + counts.future + counts.low
             + counts.unhealthy + counts.ineligible = Len(lanes)
    BY <2>1, EachLaneIsCountedOnce
  <2> QED
    BY <2>2, <2>3 DEF IgnoredIsInert
<1>2. AdviceInv => IgnoredIsInert
  BY <1>1 DEF IgnoredIsInert
<1> QED
  BY <1>2, AdviceInvariance, PTL
---------------------------------------------------------------------------
(* The market proposals *)

(* The document without the venues that cannot be reached. *)
OnlyHeard(d, t) ==
  [d EXCEPT !.observations = Heard(@, d, t), !.history = Heard(@, d, t)]

HeardAt(quotes, d, t) == {i \in DOMAIN quotes : VenueLive(quotes[i].source, d.liveness, t)}

(* A call whose class asks for reachable venues. *)
Asks(c) == IsCall(c) /\ c.document.class # None /\ Policies[c.document.class].liveness

LEMMA TheDocumentsAreAlike ==
  ASSUME NEW c, Asks(c)
  PROVE  LET d == c.document
             t == c.moment
             e == OnlyHeard(d, t)
         IN  /\ e.class = d.class /\ e.liveness = d.liveness
             /\ e.observations = Heard(d.observations, d, t) /\ e.history = Heard(d.history, d, t)
             /\ \A q : UsableQuote(q, e, t) <=> UsableQuote(q, d, t)
             /\ \A q : Believable(q, e, t) <=> Believable(q, d, t)
             /\ \A q : UsableQuote(q, d, t) \/ Believable(q, d, t) => VenueLive(q.source, d.liveness, t)
<1> DEFINE d == c.document
           t == c.moment
           e == OnlyHeard(d, t)
<1>1. /\ e.class = d.class /\ e.liveness = d.liveness
      /\ e.observations = Heard(d.observations, d, t) /\ e.history = Heard(d.history, d, t)
  BY DEF OnlyHeard, Asks, IsCall
<1> HIDE DEF e
<1>2. \A q : UsableQuote(q, e, t) <=> UsableQuote(q, d, t)
  BY <1>1 DEF UsableQuote
<1>3. \A q : Believable(q, e, t) <=> Believable(q, d, t)
  BY <1>1 DEF Believable
<1>4. \A q : UsableQuote(q, d, t) \/ Believable(q, d, t) => VenueLive(q.source, d.liveness, t)
  BY DEF UsableQuote, Believable, LiveFor, Asks
<1> QED
  BY <1>1, <1>2, <1>3, <1>4 DEF e

LEMMA HearingChangesNoGate ==
  ASSUME NEW c, Asks(c)
  PROVE  LET d == c.document
             t == c.moment
             e == OnlyHeard(d, t)
         IN  /\ Where(e.observations, UsableQuotes(e, t)) = Where(d.observations, UsableQuotes(d, t))
             /\ Where(e.history, BelievablePrints(e, t)) = Where(d.history, BelievablePrints(d, t))
<1> DEFINE d == c.document
           t == c.moment
           e == OnlyHeard(d, t)
<1>1. /\ e.observations = Heard(d.observations, d, t) /\ e.history = Heard(d.history, d, t)
      /\ \A q : UsableQuote(q, e, t) <=> UsableQuote(q, d, t)
      /\ \A q : Believable(q, e, t) <=> Believable(q, d, t)
      /\ \A q : UsableQuote(q, d, t) \/ Believable(q, d, t) => VenueLive(q.source, d.liveness, t)
  BY TheDocumentsAreAlike
<1>2. /\ Len(d.observations) \in Nat /\ DOMAIN d.observations = 1..Len(d.observations)
      /\ Len(d.history) \in Nat /\ DOMAIN d.history = 1..Len(d.history)
  BY DEF Asks, IsCall
<1> HIDE DEF d, t, e
<1>3. Where(e.observations, UsableQuotes(e, t)) = Where(d.observations, UsableQuotes(d, t))
  <2> DEFINE s == d.observations
             n == Len(s)
             H == HeardAt(s, d, t)
             P == UsableQuotes(d, t)
  <2>1. n \in Nat /\ DOMAIN s = 1..n /\ H \in SUBSET (1..n) /\ P \in SUBSET H
    BY <1>1, <1>2 DEF UsableQuotes, HeardAt
  <2>2. e.observations = Where(s, H)
    BY <1>1 DEF Heard, HeardAt
  <2>3. \A i : i \in P <=> i \in DOMAIN s /\ UsableQuote(s[i], d, t)
    BY DEF UsableQuotes
  <2>4. \A k : k \in UsableQuotes(e, t) <=> k \in DOMAIN Where(s, H) /\ UsableQuote(Where(s, H)[k], e, t)
    BY <2>2 DEF UsableQuotes
  <2> HIDE DEF s, n, H, P
  <2>5. /\ DOMAIN Where(s, H) = 1..Cardinality(H)
        /\ \A k \in 1..Cardinality(H) : Where(s, H)[k] = s[InOrder(H)[k]] /\ InOrder(H)[k] \in H
    BY <2>1, WhereIs
  <2>6. UsableQuotes(e, t) = {k \in 1..Cardinality(H) : InOrder(H)[k] \in P}
    BY <1>1, <2>1, <2>3, <2>4, <2>5
  <2>7. Where(Where(s, H), {k \in 1..Cardinality(H) : InOrder(H)[k] \in P}) = Where(s, P)
    BY <2>1, WhereTwice
  <2> QED
    BY <2>2, <2>6, <2>7 DEF s, P
<1>4. Where(e.history, BelievablePrints(e, t)) = Where(d.history, BelievablePrints(d, t))
  <2> DEFINE s == d.history
             n == Len(s)
             H == HeardAt(s, d, t)
             P == BelievablePrints(d, t)
  <2>1. n \in Nat /\ DOMAIN s = 1..n /\ H \in SUBSET (1..n) /\ P \in SUBSET H
    BY <1>1, <1>2 DEF BelievablePrints, HeardAt
  <2>2. e.history = Where(s, H)
    BY <1>1 DEF Heard, HeardAt
  <2>3. \A i : i \in P <=> i \in DOMAIN s /\ Believable(s[i], d, t)
    BY DEF BelievablePrints
  <2>4. \A k : k \in BelievablePrints(e, t) <=> k \in DOMAIN Where(s, H) /\ Believable(Where(s, H)[k], e, t)
    BY <2>2 DEF BelievablePrints
  <2> HIDE DEF s, n, H, P
  <2>5. /\ DOMAIN Where(s, H) = 1..Cardinality(H)
        /\ \A k \in 1..Cardinality(H) : Where(s, H)[k] = s[InOrder(H)[k]] /\ InOrder(H)[k] \in H
    BY <2>1, WhereIs
  <2>6. BelievablePrints(e, t) = {k \in 1..Cardinality(H) : InOrder(H)[k] \in P}
    BY <1>1, <2>1, <2>3, <2>4, <2>5
  <2>7. Where(Where(s, H), {k \in 1..Cardinality(H) : InOrder(H)[k] \in P}) = Where(s, P)
    BY <2>1, WhereTwice
  <2> QED
    BY <2>2, <2>6, <2>7 DEF s, P
<1> QED
  BY <1>3, <1>4 DEF d, t, e

(* decide_market_action sees one quote, which is heard or may not be used. *)
LEMMA OneQuoteHeard ==
  ASSUME NEW c, Asks(c), c.by = "decide_market_action"
  PROVE  QuoteDecision(OnlyHeard(c.document, c.moment), c.moment)
           = QuoteDecision(c.document, c.moment)
<1> DEFINE d == c.document
           t == c.moment
           e == OnlyHeard(d, t)
           s == d.observations
           H == HeardAt(s, d, t)
<1>1. /\ e.class = d.class /\ e.observations = Heard(s, d, t)
      /\ \A q : UsableQuote(q, e, t) <=> UsableQuote(q, d, t)
      /\ \A q : UsableQuote(q, d, t) => VenueLive(q.source, d.liveness, t)
  BY TheDocumentsAreAlike
<1>2. s \in Seq({s[i] : i \in DOMAIN s}) /\ Len(s) \in {0, 1} /\ DOMAIN s = 1..Len(s)
  <2>1. s \in Seq({s[i] : i \in DOMAIN s}) /\ Len(s) <= 1
    BY DEF Asks, IsCall
  <2> HIDE DEF s
  <2>2. Len(s) \in Nat /\ DOMAIN s = 1..Len(s)
    BY <2>1
  <2> QED
    BY <2>1, <2>2
<1> HIDE DEF d, t, e, s
<1>3. H \in SUBSET (1..Len(s)) /\ e.observations = Where(s, H) /\ Len(s) \in Nat
  BY <1>1, <1>2 DEF HeardAt, Heard
<1>4. /\ Cardinality(H) \in Nat
      /\ Where(s, H) = [k \in 1..Cardinality(H) |-> s[InOrder(H)[k]]]
      /\ \A k \in 1..Cardinality(H) : InOrder(H)[k] \in H
  BY <1>3, WhereIs
<1>5. CASE H = {}
  <2>1. Cardinality(H) = 0
    BY <1>5, FS_EmptySet
  <2>2. e.observations = <<>>
    BY <1>3, <1>4, <2>1
  <2>3. s = <<>> \/ ~ UsableQuote(Head(s), d, t)
    <3>1. CASE Len(s) = 0
      BY <1>2, <3>1, EmptySeq
    <3>2. CASE Len(s) = 1
      <4>1. Head(s) = s[1] /\ 1 \in DOMAIN s
        BY <1>2, <3>2
      <4>2. ~ VenueLive(s[1].source, d.liveness, t)
        BY <1>5, <4>1 DEF HeardAt
      <4> QED
        BY <1>1, <4>1, <4>2
    <3> QED
      BY <1>2, <3>1, <3>2
  <2>4. QuoteDecision(e, t) = Abstain /\ QuoteDecision(d, t) = Abstain
    BY <2>2, <2>3 DEF QuoteDecision, s
  <2> QED
    BY <2>4 DEF e, d, t
<1>6. CASE H # {}
  <2>1. Len(s) = 1 /\ H = {1}
    BY <1>2, <1>3, <1>6
  <2>2. Cardinality(H) = 1
    BY <2>1, FS_Singleton
  <2>3. e.observations = s
    <3>1. \A k \in 1..1 : s[InOrder(H)[k]] = s[k]
      BY <1>4, <2>1, <2>2
    <3>2. Where(s, H) = [k \in 1..1 |-> s[k]]
      BY <1>4, <2>2, <3>1
    <3>3. s = [k \in 1..1 |-> s[k]]
      BY <1>2, <2>1
    <3> QED
      BY <1>3, <3>2, <3>3
  <2>4. QuoteDecision(e, t) = QuoteDecision(d, t)
    BY <1>1, <2>3 DEF QuoteDecision, s
  <2> QED
    BY <2>4 DEF e, d, t
<1> QED
  BY <1>5, <1>6

LEMMA DecisionOfTheHeard ==
  ASSUME NEW c, Asks(c)
  PROVE  Decision(c.by, OnlyHeard(c.document, c.moment), c.moment)
           = Decision(c.by, c.document, c.moment)
<1> DEFINE d == c.document
           t == c.moment
           e == OnlyHeard(d, t)
<1>1. CASE c.by = "decide_market_action"
  BY <1>1, OneQuoteHeard DEF Decision
<1>2. CASE c.by # "decide_market_action"
  <2>1. /\ e.class = d.class
        /\ Where(e.observations, UsableQuotes(e, t)) = Where(d.observations, UsableQuotes(d, t))
        /\ Where(e.history, BelievablePrints(e, t)) = Where(d.history, BelievablePrints(d, t))
    BY TheDocumentsAreAlike, HearingChangesNoGate
  <2> HIDE DEF d, t, e
  <2>2. InstrumentDecision(e, t) = InstrumentDecision(d, t)
    BY <2>1 DEF InstrumentDecision
  <2>3. Decision(c.by, e, t) = Decision(c.by, d, t)
    BY <1>2, <2>2 DEF Decision
  <2> QED
    BY <2>3 DEF d, t, e
<1> QED
  BY <1>1, <1>2

MarketInv ==
  /\ call # None => call \in MarketCalls
  /\ Decided => /\ call # None /\ call.document.class \in DOMAIN Policies
                /\ proposed = Decision(call.by, call.document, call.moment)

LEMMA MarketStarts == MarketInit => MarketInv
  BY DEF MarketInit, MarketInv, Decided

LEMMA MarketStep == MarketInv /\ [MarketNext]_marketVars => MarketInv'
<1> SUFFICES ASSUME MarketInv, [MarketNext]_marketVars PROVE MarketInv'
  OBVIOUS
<1>1. CASE Decide
  BY <1>1 DEF Decide, MarketInv, Decided
<1>2. CASE DecideRefused
  BY <1>2 DEF DecideRefused, MarketInv, Decided, Advisory
<1>3. CASE UNCHANGED marketVars
  BY <1>3 DEF marketVars, MarketInv, Decided
<1> QED
  BY <1>1, <1>2, <1>3 DEF MarketNext

LEMMA MarketInvariance == MarketSpec => []MarketInv
  BY MarketStarts, MarketStep, PTL DEF MarketSpec

(* A nonempty list of numbers holds a least and a greatest one.            *)
LEMMA LeastOfList ==
  ASSUME NEW n \in Nat \ {0}, NEW v \in [1..n -> Int], NEW rank \in [1..n -> Int]
  PROVE  \E i \in 1..n : \A j \in 1..n :
           ~ (v[j] < v[i] \/ (v[j] = v[i] /\ rank[j] < rank[i]))
<1> DEFINE S == 1..n
           key == [i \in S |-> <<v[i], rank[i]>>]
           first == Sorted(S, key)[1]
<1>1. ASSUME NEW i \in S PROVE key[i] \in Keys(2)
  BY DEF Keys
<1>2. IsFiniteSet(S) /\ S # {} /\ S \in SUBSET Int
  <2>1. n \in Int /\ 1 \in Int /\ 1 \in S /\ S \in SUBSET Int
    OBVIOUS
  <2>2. IsFiniteSet(S)
    BY <2>1, FS_Interval
  <2> QED
    BY <2>1, <2>2
<1>3. Keyed(S, key, 2)
  BY <1>1, <1>2 DEF Keyed
<1> HIDE DEF key
<1>4. first \in S /\ \A j \in S : j = first \/ Ahead(first, j, key)
  BY <1>2, <1>3, FirstOfSorted
<1> HIDE DEF first
<1>5. ASSUME NEW j \in S PROVE ~ KeyBefore(key[j], key[first])
  <2>1. ~ Ahead(j, first, key)
    BY <1>3, <1>4, AheadIsAnOrder
  <2> QED
    BY <2>1 DEF Ahead
<1>6. ASSUME NEW j \in S, v[j] < v[first] \/ (v[j] = v[first] /\ rank[j] < rank[first])
      PROVE  FALSE
  <2>1. /\ DOMAIN key[j] = {1, 2} /\ key[j][1] = v[j] /\ key[j][2] = rank[j]
        /\ key[first][1] = v[first] /\ key[first][2] = rank[first]
    BY <1>4 DEF key
  <2>2. KeyBefore(key[j], key[first])
    <3>1. v[j] < v[first] => \A k \in 1..(1 - 1) : key[j][k] = key[first][k]
      OBVIOUS
    <3>2. v[j] = v[first] => \A k \in 1..(2 - 1) : key[j][k] = key[first][k]
      BY <2>1
    <3> QED
      BY <1>6, <2>1, <3>1, <3>2 DEF KeyBefore
  <2> QED
    BY <1>5, <2>2
<1> QED
  BY <1>4, <1>6

LEMMA EndsOfList ==
  ASSUME NEW n \in Nat \ {0}, NEW v \in [1..n -> Int], NEW values, values = {v[i] : i \in 1..n}
  PROVE  Sets!Min(values) \in Int /\ Sets!Max(values) \in Int
<1> DEFINE same == [i \in 1..n |-> 0]
           minus == [i \in 1..n |-> -v[i]]
<1>1. same \in [1..n -> Int] /\ minus \in [1..n -> Int]
  OBVIOUS
<1>2. \E x \in values : \A y \in values : x <= y
  <2> HIDE DEF same
  <2>1. PICK i \in 1..n : \A j \in 1..n : ~ (v[j] < v[i] \/ (v[j] = v[i] /\ same[j] < same[i]))
    BY <1>1, LeastOfList
  <2>2. v[i] \in values /\ \A j \in 1..n : v[i] <= v[j]
    BY <2>1
  <2> QED
    BY <2>2
<1>3. \E x \in values : \A y \in values : x >= y
  <2> HIDE DEF same, minus
  <2>1. PICK i \in 1..n : \A j \in 1..n : ~ (minus[j] < minus[i] \/ (minus[j] = minus[i] /\ same[j] < same[i]))
    BY <1>1, LeastOfList
  <2>2. v[i] \in values /\ \A j \in 1..n : v[i] >= v[j]
    BY <2>1 DEF minus
  <2> QED
    BY <2>2
<1>4. values \subseteq Int
  OBVIOUS
<1> QED
  BY <1>2, <1>3, <1>4 DEF Sets!Min, Sets!Max

QuoteList(quotes, n) == DOMAIN quotes = 1..n /\ \A i \in 1..n : IsQuote(quotes[i])

(* How far twice a value is from the middle of a doubled range. *)
Off(v, low, high) == IF 2 * v >= low + high THEN 2 * v - low - high ELSE low + high - 2 * v

(* No other quote is nearer to the middle, by its value and its venue. *)
Closest(quotes, v, low, high, i) ==
  \A j \in DOMAIN quotes :
    ~ \/ Off(v[j], low, high) < Off(v[i], low, high)
      \/ /\ Off(v[j], low, high) = Off(v[i], low, high)
         /\ VenueRank[quotes[j].source] < VenueRank[quotes[i].source]

(* Of some quotes with a value one is the first of the closest. *)
LEMMA OneIsClosest ==
  ASSUME NEW quotes, NEW n \in Nat \ {0}, QuoteList(quotes, n), NEW v \in [1..n -> Int],
         NEW low \in Int, NEW high \in Int
  PROVE  \E i \in 1..n : /\ Closest(quotes, v, low, high, i)
                         /\ \A j \in 1..n : Closest(quotes, v, low, high, j) => i <= j
<1> DEFINE passing == {i \in 1..n : Closest(quotes, v, low, high, i)}
           off == [i \in 1..n |-> Off(v[i], low, high)]
           rank == [i \in 1..n |-> VenueRank[quotes[i].source]]
<1>1. ASSUME NEW i \in 1..n PROVE Off(v[i], low, high) \in Int
  BY DEF Off
<1>2. \A i \in 1..n : VenueRank[quotes[i].source] \in Int
  BY VenuesAssumption DEF QuoteList, IsQuote
<1>3. off \in [1..n -> Int] /\ rank \in [1..n -> Int]
  BY <1>1, <1>2
<1>4. \A i \in 1..n : off[i] = Off(v[i], low, high) /\ rank[i] = VenueRank[quotes[i].source]
  OBVIOUS
<1>5. DOMAIN quotes = 1..n
  BY DEF QuoteList
<1> HIDE DEF off, rank, passing
<1>6. PICK i \in 1..n : \A j \in 1..n : ~ (off[j] < off[i] \/ (off[j] = off[i] /\ rank[j] < rank[i]))
  BY <1>3, LeastOfList
<1>7. Closest(quotes, v, low, high, i)
  BY <1>4, <1>5, <1>6 DEF Closest
<1>8. passing # {} /\ passing \in SUBSET (1..n)
  BY <1>7 DEF passing
<1>9. \E k \in passing : \A j \in passing : k <= j
  BY <1>8, LeastPosition
<1> QED
  BY <1>9 DEF passing

(* The first of the nearest quotes is a quote, by both of the values that  *)
(* are compared: the middle price and the last.                            *)
LEMMA NearestMiddle ==
  ASSUME NEW quotes, NEW n \in Nat \ {0}, QuoteList(quotes, n), NEW low \in Int, NEW high \in Int,
         \A i \in 1..n : Midpoint(quotes[i]) \in Int
  PROVE  Nearest(quotes, Midpoint, low, high) \in {quotes[i] : i \in 1..n}
<1> DEFINE v == [i \in 1..n |-> Midpoint(quotes[i])]
           passing == {i \in DOMAIN quotes : Closest(quotes, v, low, high, i)}
           first == CHOOSE i \in passing : \A j \in passing : i <= j
<1>1. v \in [1..n -> Int] /\ \A i \in DOMAIN quotes : v[i] = Midpoint(quotes[i])
  BY DEF QuoteList
<1> HIDE DEF v
<1>2. passing = {i \in DOMAIN quotes : \A j \in DOMAIN quotes :
                   ~ \/ Off(Midpoint(quotes[j]), low, high) < Off(Midpoint(quotes[i]), low, high)
                     \/ /\ Off(Midpoint(quotes[j]), low, high) = Off(Midpoint(quotes[i]), low, high)
                        /\ VenueRank[quotes[j].source] < VenueRank[quotes[i].source]}
  BY <1>1 DEF Closest
<1>3. \E i \in passing : \A j \in passing : i <= j
  <2>1. PICK i \in 1..n : /\ Closest(quotes, v, low, high, i)
                         /\ \A j \in 1..n : Closest(quotes, v, low, high, j) => i <= j
    BY <1>1, OneIsClosest
  <2> QED
    BY <2>1 DEF QuoteList
<1>4. passing \subseteq 1..n
  BY DEF QuoteList
<1> HIDE DEF passing
<1>5. passing # {} /\ first \in 1..n
  BY <1>3, <1>4
<1>6. Nearest(quotes, Midpoint, low, high) = quotes[first]
  BY <1>2, <1>5 DEF Nearest, FirstIn, Off
<1> HIDE DEF first
<1> QED
  BY <1>5, <1>6

LEMMA NearestLast ==
  ASSUME NEW quotes, NEW n \in Nat \ {0}, QuoteList(quotes, n), NEW low \in Int, NEW high \in Int,
         \A i \in 1..n : Last2(quotes[i]) \in Int
  PROVE  Nearest(quotes, Last2, low, high) \in {quotes[i] : i \in 1..n}
<1> DEFINE v == [i \in 1..n |-> Last2(quotes[i])]
           passing == {i \in DOMAIN quotes : Closest(quotes, v, low, high, i)}
           first == CHOOSE i \in passing : \A j \in passing : i <= j
<1>1. v \in [1..n -> Int] /\ \A i \in DOMAIN quotes : v[i] = Last2(quotes[i])
  BY DEF QuoteList
<1> HIDE DEF v
<1>2. passing = {i \in DOMAIN quotes : \A j \in DOMAIN quotes :
                   ~ \/ Off(Last2(quotes[j]), low, high) < Off(Last2(quotes[i]), low, high)
                     \/ /\ Off(Last2(quotes[j]), low, high) = Off(Last2(quotes[i]), low, high)
                        /\ VenueRank[quotes[j].source] < VenueRank[quotes[i].source]}
  BY <1>1 DEF Closest
<1>3. \E i \in passing : \A j \in passing : i <= j
  <2>1. PICK i \in 1..n : /\ Closest(quotes, v, low, high, i)
                         /\ \A j \in 1..n : Closest(quotes, v, low, high, j) => i <= j
    BY <1>1, OneIsClosest
  <2> QED
    BY <2>1 DEF QuoteList
<1>4. passing \subseteq 1..n
  BY DEF QuoteList
<1> HIDE DEF passing
<1>5. passing # {} /\ first \in 1..n
  BY <1>3, <1>4
<1>6. Nearest(quotes, Last2, low, high) = quotes[first]
  BY <1>2, <1>5 DEF Nearest, FirstIn, Off
<1> HIDE DEF first
<1> QED
  BY <1>5, <1>6

(* A part of a list of quotes. *)
LEMMA PartOfList ==
  ASSUME NEW quotes, NEW n \in Nat, QuoteList(quotes, n), NEW S \in SUBSET (1..n)
  PROVE  LET part == Where(quotes, S)
         IN  /\ Len(part) \in Nat /\ QuoteList(part, Len(part))
             /\ \A k \in 1..Len(part) : \E i \in S : part[k] = quotes[i]
<1> DEFINE part == Where(quotes, S)
           m == Cardinality(S)
<1>1. /\ m \in Nat /\ DOMAIN part = 1..m
      /\ \A k \in 1..m : part[k] = quotes[InOrder(S)[k]] /\ InOrder(S)[k] \in S
      /\ part = [k \in 1..m |-> quotes[InOrder(S)[k]]]
  BY WhereIs
<1>2. Len(part) = m
  BY <1>1
<1> HIDE DEF part, m
<1>3. \A k \in 1..m : \E i \in S : part[k] = quotes[i]
  BY <1>1
<1> QED
  BY <1>1, <1>2, <1>3 DEF QuoteList, part

(* What is made of quotes that disagree or not is one of them, or none. *)
LEMMA ReconciledIsQuoted ==
  ASSUME NEW quotes, NEW n \in Nat \ {0}, QuoteList(quotes, n), NEW class \in DOMAIN Policies
  PROVE  Reconcile(class, quotes) \in {None} \cup {quotes[i] : i \in 1..n}
<1> DEFINE some == {None} \cup {quotes[i] : i \in 1..n}
<1>1. class \in {"bitcoin", "fund", "equity"}
  BY DEF Policies
<1>2. quotes[1] \in some
  OBVIOUS
<1>3. ReconcileBitcoin(quotes) \in some
  <2> DEFINE S == {i \in DOMAIN quotes : HasMidpoint(quotes[i])}
             priced == Priced(quotes)
             m == Len(priced)
             mids == Among(priced, Midpoint)
             v == [i \in 1..m |-> Midpoint(priced[i])]
             low == Sets!Min(mids)
             high == Sets!Max(mids)
             near == Nearest(priced, Midpoint, low, high)
  <2>1. /\ S \in SUBSET (1..n) /\ priced = Where(quotes, S)
        /\ \A i \in S : HasMidpoint(quotes[i])
    BY DEF Priced, QuoteList
  <2> HIDE DEF S, priced
  <2>2. /\ m \in Nat /\ QuoteList(priced, m)
        /\ \A k \in 1..m : \E i \in S : priced[k] = quotes[i]
    BY <2>1, PartOfList
  <2>3. mids = {v[i] : i \in 1..m}
    BY <2>2 DEF Among, QuoteList
  <2>4. \A k \in 1..m : Midpoint(priced[k]) \in Int
    <3> TAKE k \in 1..m
    <3>1. HasMidpoint(priced[k]) /\ IsQuote(priced[k])
      BY <2>1, <2>2 DEF QuoteList
    <3> QED
      BY <3>1, VenuesAssumption DEF HasMidpoint, TwoSided, IsQuote, Midpoint
  <2>5. v \in [1..m -> Int]
    BY <2>4
  <2> HIDE DEF m, v, mids
  <2>6. m >= 2 => low \in Int /\ high \in Int
    BY <2>2, <2>3, <2>5, EndsOfList
  <2> HIDE DEF low, high
  <2>7. m >= 2 => near \in {priced[k] : k \in 1..m}
    <3> SUFFICES ASSUME m >= 2 PROVE near \in {priced[k] : k \in 1..m}
      OBVIOUS
    <3>1. m \in Nat \ {0} /\ low \in Int /\ high \in Int
      BY <2>2, <2>6
    <3> QED
      BY <2>2, <2>4, <3>1, NearestMiddle
  <2>8. m >= 2 => near \in some
    BY <2>1, <2>2, <2>7
  <2> HIDE DEF near, some
  <2>9. ReconcileBitcoin(quotes) \in {quotes[1], None} \cup (IF m < 2 THEN {} ELSE {near})
    BY DEF ReconcileBitcoin, near, low, high, mids, priced, m
  <2>10. None \in some
    BY DEF some
  <2> QED
    BY <1>2, <2>2, <2>8, <2>9, <2>10
<1>4. ReconcileFund(quotes) \in some /\ ReconcileEquity(quotes) \in some
  <2> DEFINE S == {i \in DOMAIN quotes : quotes[i].last # None}
             priced == Traded(quotes)
             m == Len(priced)
             lasts == Among(priced, Last2)
             v == [i \in 1..m |-> Last2(priced[i])]
             low == Sets!Min(lasts)
             high == Sets!Max(lasts)
             near == Nearest(priced, Last2, low, high)
  <2>1. /\ S \in SUBSET (1..n) /\ priced = Where(quotes, S)
        /\ \A i \in S : quotes[i].last # None
    BY DEF Traded, QuoteList
  <2> HIDE DEF S, priced
  <2>2. /\ m \in Nat /\ QuoteList(priced, m)
        /\ \A k \in 1..m : \E i \in S : priced[k] = quotes[i]
    BY <2>1, PartOfList
  <2>3. lasts = {v[i] : i \in 1..m}
    BY <2>2 DEF Among, QuoteList
  <2>4. \A k \in 1..m : Last2(priced[k]) \in Int
    <3> TAKE k \in 1..m
    <3>1. priced[k].last # None /\ IsQuote(priced[k])
      BY <2>1, <2>2 DEF QuoteList
    <3> QED
      BY <3>1, VenuesAssumption DEF IsQuote, Last2
  <2>5. v \in [1..m -> Int]
    BY <2>4
  <2> HIDE DEF m, v, lasts
  <2>6. m >= 2 => low \in Int /\ high \in Int
    BY <2>2, <2>3, <2>5, EndsOfList
  <2> HIDE DEF low, high
  <2>7. m >= 2 => near \in {priced[k] : k \in 1..m}
    <3> SUFFICES ASSUME m >= 2 PROVE near \in {priced[k] : k \in 1..m}
      OBVIOUS
    <3>1. m \in Nat \ {0} /\ low \in Int /\ high \in Int
      BY <2>2, <2>6
    <3> QED
      BY <2>2, <2>4, <3>1, NearestLast
  <2>8. m >= 2 => near \in some
    BY <2>1, <2>2, <2>7
  <2> HIDE DEF near, some
  <2>9. ReconcileFund(quotes) \in {quotes[1], None} \cup (IF m < 2 THEN {} ELSE {near})
    BY DEF ReconcileFund, near, low, high, lasts, priced, m
  <2>10. ReconcileEquity(quotes) \in {quotes[1], None}
    BY DEF ReconcileEquity
  <2>11. None \in some
    BY DEF some
  <2> QED
    BY <1>2, <2>2, <2>8, <2>9, <2>10, <2>11
<1> HIDE DEF some
<1>5. Reconcile(class, quotes) \in
        {ReconcileBitcoin(quotes), ReconcileFund(quotes), ReconcileEquity(quotes)}
  BY <1>1 DEF Reconcile
<1> QED
  BY <1>3, <1>4, <1>5 DEF some

(* For any quotes, history and readings: an action is one of the four, and *)
(* the quote it rests on is one that was given (decide_instrument,         *)
(* decide_market_action).                                                  *)
THEOREM MarketTypes == MarketSpec => []MarketTypeOK
<1>1. ASSUME MarketInv, Decided
      PROVE  /\ proposed.action \in {"abstain", "propose_hold", "propose_increase", "propose_reduce"}
             /\ proposed.quote \in {None} \cup {call.document.observations[i] : i \in DOMAIN call.document.observations}
  <2> DEFINE d == call.document
             t == call.moment
             quotes == d.observations
             n == Len(quotes)
  <2>1. /\ IsCall(call) /\ d.class \in DOMAIN Policies
        /\ proposed = Decision(call.by, d, t)
    BY <1>1, CallsAssumption DEF MarketInv
  <2>2. n \in Nat /\ QuoteList(quotes, n)
    BY <2>1 DEF IsCall, QuoteList
  <2>3. \A class, q, session : Interpret(class, q, session) \in {"abstain", "propose_hold"}
    BY DEF Interpret
  <2>4. \A move : Direction(move) \in {"propose_increase", "propose_reduce"}
    BY DEF Direction
  <2> HIDE DEF d, t, n
  <2>5. CASE call.by = "decide_market_action"
    <3>1. proposed = QuoteDecision(d, t)
      BY <2>1, <2>5 DEF Decision
    <3>2. quotes # <<>> => Head(quotes) \in {quotes[i] : i \in DOMAIN quotes}
      <4>1. quotes \in Seq({quotes[i] : i \in DOMAIN quotes})
        BY <2>1 DEF IsCall, d
      <4> HIDE DEF quotes
      <4> QED
        BY <4>1
    <3> QED
      BY <2>3, <3>1, <3>2 DEF QuoteDecision, Abstain, Advisory, d
  <2>6. CASE call.by # "decide_market_action"
    <3> DEFINE session == Session(d.class, t)
               usable == Where(quotes, UsableQuotes(d, t))
               chosen == Reconcile(d.class, usable)
               reading == Interpret(d.class, chosen, session)
               move == Sustained(Where(d.history, BelievablePrints(d, t)))
               m == Len(usable)
    <3>1. proposed = InstrumentDecision(d, t)
      BY <2>1, <2>6 DEF Decision
    <3>2. UsableQuotes(d, t) \in SUBSET (1..n)
      BY <2>2 DEF UsableQuotes, QuoteList
    <3>3. /\ m \in Nat /\ QuoteList(usable, m)
          /\ \A k \in 1..m : \E i \in UsableQuotes(d, t) : usable[k] = quotes[i]
      BY <2>2, <3>2, PartOfList
    <3> HIDE DEF usable
    <3>4. usable # <<>> => m # 0
      <4>1. m = 0 => DOMAIN usable = {}
        BY <3>3 DEF QuoteList
      <4>2. usable = [k \in DOMAIN usable |-> usable[k]]
        BY DEF usable, Where
      <4>3. m = 0 => usable = <<>>
        BY <4>1, <4>2
      <4> QED
        BY <4>3
    <3> HIDE DEF m
    <3>5. usable # <<>> => chosen \in {None} \cup {usable[k] : k \in 1..m}
      BY <2>1, <3>3, <3>4, ReconciledIsQuoted
    <3>6. usable # <<>> => chosen \in {None} \cup {quotes[i] : i \in DOMAIN quotes}
      BY <2>2, <3>2, <3>3, <3>5 DEF QuoteList
    <3> HIDE DEF chosen, session, move
    <3>7. \/ proposed = Abstain
          \/ usable # <<>> /\ \E action \in {reading, Direction(move)} :
               proposed \in {Advisory(action, chosen, NoMove), Advisory(action, chosen, move)}
      BY <3>1 DEF InstrumentDecision, usable, chosen, session, move
    <3> HIDE DEF quotes
    <3>8. reading \in {"abstain", "propose_hold"} /\ Direction(move) \in {"propose_increase", "propose_reduce"}
      BY <2>3, <2>4
    <3> HIDE DEF reading
    <3>9. CASE proposed = Abstain
      BY <3>9 DEF Abstain, Advisory
    <3>10. CASE proposed # Abstain
      <4>1. PICK action \in {reading, Direction(move)} :
              proposed \in {Advisory(action, chosen, NoMove), Advisory(action, chosen, move)}
        BY <3>7, <3>10
      <4>2. proposed.action = action /\ proposed.quote = chosen
        BY <4>1 DEF Advisory
      <4> QED
        BY <3>6, <3>7, <3>8, <3>10, <4>2 DEF quotes, d
    <3> QED
      BY <3>9, <3>10 DEF quotes, d
  <2> QED
    BY <2>5, <2>6
<1>2. MarketInv => MarketTypeOK
  BY <1>1 DEF MarketTypeOK
<1> QED
  BY <1>2, MarketInvariance, PTL

(* For any quotes, history and readings: what comes from a                 *)
(* venue that cannot be shown to be reachable changes no proposal          *)
(* (decide_instrument, decide_market_action).                              *)
THEOREM DeadVenuesNeverCount == MarketSpec => []DeadVenuesAreSilent
<1>1. ASSUME MarketInv, Decided, Policies[call.document.class].liveness
      PROVE  Decision(call.by, OnlyHeard(call.document, call.moment), call.moment) = proposed
  <2>1. /\ call \in MarketCalls /\ call.document.class # None
        /\ proposed = Decision(call.by, call.document, call.moment)
    BY <1>1 DEF MarketInv, Decided
  <2>2. Asks(call)
    BY <1>1, <2>1, CallsAssumption DEF Asks
  <2> QED
    BY <2>1, <2>2, DecisionOfTheHeard
<1>2. MarketInv => DeadVenuesAreSilent
  BY <1>1 DEF DeadVenuesAreSilent, OnlyHeard
<1> QED
  BY <1>2, MarketInvariance, PTL

(* What has two elements at least has two that differ. *)
LEMMA TwoAmongMany ==
  ASSUME NEW S, Cardinality(S) >= 2
  PROVE  \E u, v \in S : u # v
<1> SUFFICES ASSUME \A u, v \in S : u = v PROVE FALSE
  OBVIOUS
<1>1. CASE S = {}
  BY <1>1, FS_EmptySet
<1>2. CASE S # {}
  <2>1. PICK u \in S : TRUE
    BY <1>2
  <2>2. S = {u}
    BY <2>1
  <2>3. Cardinality({u}) = 1
    BY FS_Singleton
  <2> QED
    BY <2>2, <2>3
<1> QED
  BY <1>1, <1>2

(* The venues of a move are among those of its prints. *)
LEMMA MoveIsOfItsPrints ==
  ASSUME NEW prints
  PROVE  Sustained(prints).venues \subseteq {prints[i].source : i \in DOMAIN prints}
<1>1. \A up, reversal, base, change, venues :
        [up |-> up, reversal |-> reversal, base |-> base, change |-> change,
         venues |-> venues].venues = venues
  OBVIOUS
<1>2. NoMove.venues = {}
  BY DEF NoMove
<1>3. \/ Sustained(prints) = NoMove
      \/ \E up, reversal, base, change :
           Sustained(prints) = [up |-> up, reversal |-> reversal, base |-> base, change |-> change,
                                venues |-> {prints[i].source : i \in DOMAIN prints} \ {None}]
  <2> DEFINE series  == Series(prints)
             first   == series[Sets!Min(DOMAIN series)]
             last    == series[Sets!Max(DOMAIN series)]
             peak    == Sets!Max({series[t] : t \in DOMAIN series})
             trough  == Sets!Min({series[t] : t \in DOMAIN series})
             rose    == last > first \/ (last = first /\ peak - first >= first - trough)
             against == IF last > first THEN first - trough ELSE peak - first
             net     == IF last > first THEN last - first ELSE first - last
             far     == IF peak - first >= first - trough THEN peak - first ELSE first - trough
             reverted ==
               IF last = first THEN far * 1000 >= 20 * first
               ELSE \/ against * 1000 >= 20 * first
                    \/ IF last > first THEN (peak - last) * 1000 >= 20 * peak
                                       ELSE (last - trough) * 1000 >= 20 * trough
             change  == IF last = first THEN far ELSE net
             venues  == {prints[i].source : i \in DOMAIN prints} \ {None}
             still   == \/ Cardinality(DOMAIN series) < 3
                        \/ Sets!Max(DOMAIN series) = Sets!Min(DOMAIN series)
                        \/ last = first /\ ~reverted
  <2>1. Sustained(prints) =
          IF still THEN NoMove
          ELSE [up |-> rose, reversal |-> reverted, base |-> first, change |-> change, venues |-> venues]
    BY DEF Sustained
  <2> HIDE DEF series, first, rose, reverted, change, venues, still
  <2>2. \/ Sustained(prints) = NoMove
        \/ Sustained(prints) =
             [up |-> rose, reversal |-> reverted, base |-> first, change |-> change, venues |-> venues]
    BY <2>1
  <2> QED
    BY <2>2, Zenon DEF venues
<1> QED
  BY <1>1, <1>2, <1>3

(* A venue that attests a move is usable now and believable in the past.   *)
LEMMA WitnessCorroborates ==
  ASSUME NEW d, NEW t, NEW n \in Nat, NEW k \in Nat,
         QuoteList(d.observations, n), DOMAIN d.history = 1..k, Policies[d.class].liveness,
         NEW w \in Attested(Sustained(Where(d.history, BelievablePrints(d, t))),
                            Where(d.observations, UsableQuotes(d, t)))
  PROVE  /\ Corroborates(w, d, t)
         /\ \E i \in DOMAIN d.observations : d.observations[i].source = w
<1> DEFINE usable == Where(d.observations, UsableQuotes(d, t))
           prints == Where(d.history, BelievablePrints(d, t))
<1>1. UsableQuotes(d, t) \in SUBSET (1..n) /\ BelievablePrints(d, t) \in SUBSET (1..k)
  BY DEF UsableQuotes, BelievablePrints, QuoteList
<1>2. PICK i \in UsableQuotes(d, t) : d.observations[i].source = w
  <2>1. /\ QuoteList(usable, Len(usable))
        /\ \A l \in 1..Len(usable) : \E i \in UsableQuotes(d, t) : usable[l] = d.observations[i]
    BY <1>1, PartOfList
  <2>2. PICK l \in DOMAIN usable : usable[l].source = w
    BY DEF Attested
  <2> QED
    BY <2>1, <2>2 DEF QuoteList
<1>3. PICK j \in BelievablePrints(d, t) : d.history[j].source = w
  <2>1. \A l \in DOMAIN prints : \E j \in BelievablePrints(d, t) : prints[l] = d.history[j]
    <3> DEFINE S == BelievablePrints(d, t)
    <3>1. S \in SUBSET (1..k)
      BY <1>1
    <3> HIDE DEF S
    <3>2. /\ DOMAIN Where(d.history, S) = 1..Cardinality(S)
          /\ \A l \in 1..Cardinality(S) :
               /\ Where(d.history, S)[l] = d.history[InOrder(S)[l]]
               /\ InOrder(S)[l] \in S
      BY <3>1, WhereIs
    <3>3. \A l \in DOMAIN Where(d.history, S) : \E j \in S : Where(d.history, S)[l] = d.history[j]
      BY <3>2
    <3> QED
      BY <3>3 DEF S
  <2>2. w \in Sustained(prints).venues
    BY DEF Attested
  <2>3. PICK l \in DOMAIN prints : prints[l].source = w
    BY <2>2, MoveIsOfItsPrints
  <2> QED
    BY <2>1, <2>3
<1>4. i \in DOMAIN d.observations /\ UsableQuote(d.observations[i], d, t)
  BY DEF UsableQuotes
<1>5. j \in DOMAIN d.history /\ Believable(d.history[j], d, t)
  BY DEF BelievablePrints
<1>6. VenueLive(w, d.liveness, t)
  BY <1>2, <1>4 DEF UsableQuote, LiveFor
<1> QED
  BY <1>2, <1>3, <1>4, <1>5, <1>6 DEF Corroborates, UsableQuote, Believable

(* For any quotes, history and readings: a move is proposed to be traded,  *)
(* in the classes that ask for reachable venues, only when two named       *)
(* venues answer now, quote now and told of it (consider_move, after       *)
(* decide_instrument has recounted the venues).                            *)
THEOREM TwoVenuesStandBehind == MarketSpec => []ProposalsAreCorroborated
<1>1. ASSUME MarketInv, Decided, Policies[call.document.class].liveness,
             proposed.action \in {"propose_increase", "propose_reduce"}
      PROVE  \E u, v \in {call.document.observations[i].source : i \in DOMAIN call.document.observations} :
               /\ u # v
               /\ Corroborates(u, call.document, call.moment)
               /\ Corroborates(v, call.document, call.moment)
  <2> DEFINE d == call.document
             t == call.moment
             n == Len(d.observations)
             k == Len(d.history)
  <2>1. /\ IsCall(call) /\ d.class \in DOMAIN Policies /\ d.class # None
        /\ proposed = Decision(call.by, d, t)
    BY <1>1, CallsAssumption DEF MarketInv, Decided
  <2>2. /\ n \in Nat /\ QuoteList(d.observations, n)
        /\ k \in Nat /\ DOMAIN d.history = 1..k
    BY <2>1 DEF IsCall, QuoteList
  <2>3. d.class # "fund"
    BY <1>1 DEF Policies
  <2>4. \A class, q, session : Interpret(class, q, session) \in {"abstain", "propose_hold"}
    BY DEF Interpret
  <2> HIDE DEF d, t, n, k
  <2>5. proposed = InstrumentDecision(d, t)
    <3>1. CASE call.by = "decide_market_action"
      <4>1. proposed = QuoteDecision(d, t)
        BY <2>1, <3>1 DEF Decision
      <4> QED
        BY <1>1, <2>4, <4>1 DEF QuoteDecision, Abstain, Advisory
    <3> QED
      BY <2>1, <3>1 DEF Decision
  <2> DEFINE session == Session(d.class, t)
             usable == Where(d.observations, UsableQuotes(d, t))
             chosen == Reconcile(d.class, usable)
             reading == Interpret(d.class, chosen, session)
             move == Sustained(Where(d.history, BelievablePrints(d, t)))
             witnesses == Attested(move, usable)
  <2>6. \/ proposed.action \in {"abstain", reading}
        \/ Considered(d.class, move, witnesses, chosen)
    <3> HIDE DEF usable, chosen, session, move, witnesses
    <3>1. \A action, quote, mv : Advisory(action, quote, mv).action = action
      BY DEF Advisory
    <3>2. \/ proposed = Abstain
          \/ proposed = Advisory(reading, chosen, NoMove)
          \/ proposed = Advisory(reading, chosen, move)
          \/ Considered(d.class, move, witnesses, chosen)
      BY <2>5, Zenon DEF InstrumentDecision, usable, chosen, session, move, witnesses
    <3> HIDE DEF reading
    <3> QED
      BY <3>1, <3>2 DEF Abstain
  <2>7. Considered(d.class, move, witnesses, chosen)
    <3> HIDE DEF usable, chosen, session, move, witnesses
    <3> QED
      BY <1>1, <2>4, <2>6
  <2>8. Cardinality(witnesses) >= 2
    <3> HIDE DEF usable, chosen, session, move, witnesses
    <3> QED
      BY <2>3, <2>7 DEF Considered
  <2>9. PICK u, v \in witnesses : u # v
    <3> HIDE DEF witnesses
    <3> QED
      BY <2>8, TwoAmongMany
  <2>10. ASSUME NEW w \in witnesses
         PROVE  /\ Corroborates(w, d, t)
                /\ w \in {d.observations[i].source : i \in DOMAIN d.observations}
    <3>1. /\ Corroborates(w, d, t)
          /\ \E i \in DOMAIN d.observations : d.observations[i].source = w
      BY <1>1, <2>2, WitnessCorroborates DEF d
    <3> QED
      BY <3>1
  <2> QED
    BY <2>9, <2>10 DEF d, t
<1>2. MarketInv => ProposalsAreCorroborated
  BY <1>1 DEF ProposalsAreCorroborated
<1> QED
  BY <1>2, MarketInvariance, PTL
=============================================================================
