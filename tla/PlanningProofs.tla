--------------------------- MODULE PlanningProofs ---------------------------
(***************************************************************************)
(* Proofs about modules Splits and GpuPlan, for any corpora, fractions,    *)
(* cards and prices, and about all the deciders side by side (MCDecisions).*)
(***************************************************************************)
EXTENDS MCDecisions, DecisionsProofs, FunctionTheorems
---------------------------------------------------------------------------
(* Splits: what the sides are *)

(* Every record is on one side and on no other one. *)
Partition(records, sides) ==
  /\ sides \in [1 .. 4 -> SUBSET DOMAIN records]
  /\ \A i \in DOMAIN records : \E s \in 1 .. 4 : i \in sides[s] /\ \A t \in 1 .. 4 : i \in sides[t] => t = s

SplitInv ==
  /\ corpus \in Corpora /\ splitRequest \in SplitRequests
  /\ splits \notin {None, NoSplit} => Partition(corpus, splits)
  /\ audit # None =>
       splits \notin {None, NoSplit} /\ \E key \in {"auto", "none"} :
         audit = [key |-> key, issues |-> Issues(corpus, splits, key)]

LEMMA TenthsBound ==
  ASSUME NEW x \in Nat
  PROVE  x \div 10 \in Nat /\ 10 * (x \div 10) <= x
OBVIOUS

LEMMA SharesFit ==
  ASSUME NEW total \in Nat, NEW a \in Nat, NEW b \in Nat, NEW c \in Nat, a + b + c < 10
  PROVE  /\ Share(total, a) \in Nat /\ Share(total, b) \in Nat /\ Share(total, c) \in Nat
         /\ Share(total, a) + Share(total, b) + Share(total, c) <= total
<1>1. total * a \in Nat /\ total * b \in Nat /\ total * c \in Nat
  OBVIOUS
<1>2. /\ Share(total, a) \in Nat /\ 10 * Share(total, a) <= total * a
      /\ Share(total, b) \in Nat /\ 10 * Share(total, b) <= total * b
      /\ Share(total, c) \in Nat /\ 10 * Share(total, c) <= total * c
  BY <1>1, TenthsBound DEF Share
<1>3. total * a + total * b + total * c = total * (a + b + c)
  OBVIOUS
<1>4. total * (a + b + c) <= total * 10
  <2> DEFINE n == a + b + c
  <2>1. n \in Nat /\ n <= 10
    OBVIOUS
  <2> HIDE DEF n
  <2>2. total * n <= total * 10
    BY <2>1
  <2> QED
    BY <2>2 DEF n
<1> DEFINE A == Share(total, a)
           B == Share(total, b)
           C == Share(total, c)
           ta == total * a
           tb == total * b
           tc == total * c
           m == total * (a + b + c)
<1>5. /\ A \in Nat /\ B \in Nat /\ C \in Nat /\ ta \in Nat /\ tb \in Nat /\ tc \in Nat
      /\ 10 * A <= ta /\ 10 * B <= tb /\ 10 * C <= tc /\ ta + tb + tc = m /\ m <= total * 10
  BY <1>1, <1>2, <1>3, <1>4
<1> HIDE DEF A, B, C, ta, tb, tc, m
<1>6. A + B + C <= total
  BY <1>5
<1> QED
  BY <1>5, <1>6 DEF A, B, C

(* The five ends of the sides cut 1 .. total into four. *)
LEMMA EndsCover ==
  ASSUME NEW total \in Nat, NEW r \in SplitRequests, NEW records, ~ Refused(records, r),
         NEW k \in 1 .. total
  PROVE  \E s \in 1 .. 4 :
           /\ k \in Ends(total, r)[s] + 1 .. Ends(total, r)[s + 1]
           /\ \A t \in 1 .. 4 : k \in Ends(total, r)[t] + 1 .. Ends(total, r)[t + 1] => t = s
<1> DEFINE A == Share(total, r.train)
           B == Share(total, r.validation)
           C == Share(total, r.calibration)
           e == Ends(total, r)
<1>1. r.train \in Nat /\ r.validation \in Nat /\ r.calibration \in Nat
      /\ r.train + r.validation + r.calibration < 10
  BY SplitsAssumption DEF Refused
<1>2. A \in Nat /\ B \in Nat /\ C \in Nat /\ A + B + C <= total
  BY <1>1, SharesFit
<1>3. e[1] = 0 /\ e[2] = A /\ e[3] = A + B /\ e[4] = A + B + C /\ e[5] = total
  BY DEF Ends
<1> HIDE DEF A, B, C, e
<1>4. CASE k <= A
  BY <1>2, <1>3, <1>4 DEF e
<1>5. CASE A < k /\ k <= A + B
  BY <1>2, <1>3, <1>5 DEF e
<1>6. CASE A + B < k /\ k <= A + B + C
  BY <1>2, <1>3, <1>6 DEF e
<1>7. CASE A + B + C < k
  BY <1>2, <1>3, <1>7 DEF e
<1> QED
  BY <1>2, <1>4, <1>5, <1>6, <1>7

LEMMA EndsInRange ==
  ASSUME NEW total \in Nat, NEW r \in SplitRequests, NEW records, ~ Refused(records, r), NEW s \in 1 .. 4
  PROVE  Ends(total, r)[s] \in 0 .. total /\ Ends(total, r)[s + 1] \in 0 .. total
<1> DEFINE A == Share(total, r.train)
           B == Share(total, r.validation)
           C == Share(total, r.calibration)
           e == Ends(total, r)
<1>1. r.train \in Nat /\ r.validation \in Nat /\ r.calibration \in Nat
      /\ r.train + r.validation + r.calibration < 10
  BY SplitsAssumption DEF Refused
<1>2. A \in Nat /\ B \in Nat /\ C \in Nat /\ A + B + C <= total
  BY <1>1, SharesFit
<1>3. e[1] = 0 /\ e[2] = A /\ e[3] = A + B /\ e[4] = A + B + C /\ e[5] = total
  BY DEF Ends
<1> HIDE DEF A, B, C, e
<1>4. s = 1 \/ s = 2 \/ s = 3 \/ s = 4
  OBVIOUS
<1> QED
  BY <1>2, <1>3, <1>4 DEF e

IsCorpus(records) == records \in Seq(Range(records))

LEMMA CorpusShape ==
  ASSUME NEW records, IsCorpus(records)
  PROVE  Len(records) \in Nat /\ DOMAIN records = 1 .. Len(records)
BY DEF IsCorpus

LEMMA GroupsAreFinite ==
  ASSUME NEW records, NEW key, IsCorpus(records)
  PROVE  IsFiniteSet(Groups(records, key)) /\ Cardinality(Groups(records, key)) \in Nat
<1> DEFINE D == DOMAIN records
           G == Groups(records, key)
           f == [i \in D |-> GroupOf(records, key, i)]
<1>1. IsFiniteSet(D)
  BY CorpusShape, FS_Interval
<1>2. f \in Surjection(D, G)
  BY DEF Groups, Surjection
<1> HIDE DEF D, G, f
<1>3. IsFiniteSet(G)
  BY <1>1, <1>2, FS_Surjection
<1> QED
  BY <1>3, FS_CardinalityType DEF G

(* The groups of a corpus have each of its records in exactly one of them. *)
LEMMA OneGroupEach ==
  ASSUME NEW records, NEW key, NEW i \in DOMAIN records
  PROVE  /\ GroupOf(records, key, i) \in Groups(records, key) /\ i \in GroupOf(records, key, i)
         /\ \A g \in Groups(records, key) : g \subseteq DOMAIN records /\ (i \in g => g = GroupOf(records, key, i))
<1>1. GroupOf(records, key, i) \in Groups(records, key) /\ i \in GroupOf(records, key, i)
  BY DEF Groups, GroupOf
<1>2. ASSUME NEW j \in DOMAIN records
      PROVE  /\ GroupOf(records, key, j) \subseteq DOMAIN records
             /\ i \in GroupOf(records, key, j) => GroupOf(records, key, j) = GroupOf(records, key, i)
  BY DEF GroupOf
<1> QED
  BY <1>1, <1>2 DEF Groups

(* A shuffle has every group at exactly one place. *)
LEMMA ShuffleHasAll ==
  ASSUME NEW G, IsFiniteSet(G), NEW shuffled \in SetToSeqs(G), NEW g \in G
  PROVE  /\ Len(shuffled) = Cardinality(G) /\ shuffled \in [1 .. Cardinality(G) -> G]
         /\ \E k \in 1 .. Cardinality(G) :
              shuffled[k] = g /\ \A j \in 1 .. Cardinality(G) : shuffled[j] = g => j = k
<1> DEFINE n == Cardinality(G)
<1>1. n \in Nat
  BY FS_CardinalityType
<1>2. shuffled \in [1 .. n -> G] /\ \A i, j \in 1 .. n : i # j => shuffled[i] # shuffled[j]
  BY DEF SetToSeqs
<1>3. IsFiniteSet(1 .. n) /\ Cardinality(1 .. n) = n
  BY <1>1, FS_Interval
<1> HIDE DEF n
<1>4. shuffled \in Injection(1 .. n, G)
  BY <1>2 DEF Injection, IsInjective
<1>5. shuffled \in Surjection(1 .. n, G)
  BY <1>3, <1>4, FS_Injection DEF n
<1>6. PICK k \in 1 .. n : shuffled[k] = g
  BY <1>5 DEF Surjection
<1>7. \A j \in 1 .. n : shuffled[j] = g => j = k
  BY <1>2, <1>6
<1>8. Len(shuffled) = n
  BY <1>1, <1>2
<1> QED
  BY <1>2, <1>6, <1>7, <1>8 DEF n

(* A cut loses no record and repeats none. *)
LEMMA CutIsPartition ==
  ASSUME NEW records, IsCorpus(records), NEW r \in SplitRequests, ~ Refused(records, r),
         NEW shuffled \in SetToSeqs(Groups(records, r.key))
  PROVE  Partition(records, Cut(shuffled, r))
<1> DEFINE G == Groups(records, r.key)
           n == Cardinality(G)
           e == Ends(n, r)
           sides == Cut(shuffled, r)
<1>1. IsFiniteSet(G) /\ n \in Nat
  BY GroupsAreFinite
<1>2. shuffled \in [1 .. n -> G]
  BY DEF SetToSeqs
<1>3. Len(shuffled) = n
  BY <1>1, <1>2
<1>4. sides = [s \in 1 .. 4 |-> UNION {shuffled[k] : k \in e[s] + 1 .. e[s + 1]}]
  BY <1>3 DEF Cut, Sides
<1>5. \A s \in 1 .. 4 : e[s] \in 0 .. n /\ e[s + 1] \in 0 .. n
  BY <1>1, EndsInRange
<1>6. sides \in [1 .. 4 -> SUBSET DOMAIN records]
  <2>1. \A g \in G : g \subseteq DOMAIN records
    BY DEF Groups, GroupOf
  <2>2. \A s \in 1 .. 4, k \in Int : k \in e[s] + 1 .. e[s + 1] => shuffled[k] \subseteq DOMAIN records
    <3> SUFFICES ASSUME NEW s \in 1 .. 4, NEW k \in Int, k \in e[s] + 1 .. e[s + 1]
                 PROVE  shuffled[k] \subseteq DOMAIN records
      OBVIOUS
    <3>1. e[s] \in 0 .. n /\ e[s + 1] \in 0 .. n
      BY <1>5
    <3>2. k \in 1 .. n
      <4> HIDE DEF e, n
      <4> QED
        BY <1>1, <3>1
    <3> QED
      BY <1>2, <2>1, <3>2
  <2> HIDE DEF e, sides, n, G
  <2>3. \A s \in 1 .. 4 : e[s] \in Int /\ e[s + 1] \in Int
    BY <1>1, <1>5
  <2>4. \A s \in 1 .. 4 : UNION {shuffled[k] : k \in e[s] + 1 .. e[s + 1]} \subseteq DOMAIN records
    BY <2>2, <2>3
  <2> QED
    BY <1>4, <2>4
<1>7. ASSUME NEW i \in DOMAIN records
      PROVE  \E s \in 1 .. 4 : i \in sides[s] /\ \A t \in 1 .. 4 : i \in sides[t] => t = s
  <2> DEFINE g == GroupOf(records, r.key, i)
  <2>1. g \in G /\ i \in g /\ \A h \in G : i \in h => h = g
    BY OneGroupEach
  <2>2. PICK k \in 1 .. n : shuffled[k] = g /\ \A j \in 1 .. n : shuffled[j] = g => j = k
    BY <1>1, <2>1, ShuffleHasAll
  <2>3. PICK s \in 1 .. 4 : /\ k \in e[s] + 1 .. e[s + 1]
                            /\ \A t \in 1 .. 4 : k \in e[t] + 1 .. e[t + 1] => t = s
    BY <1>1, EndsCover
  <2> HIDE DEF e, sides, n, G, g
  <2>4. i \in sides[s]
    BY <1>4, <2>1, <2>2, <2>3
  <2>5. ASSUME NEW t \in 1 .. 4, i \in sides[t] PROVE t = s
    <3>1. PICK j \in e[t] + 1 .. e[t + 1] : i \in shuffled[j]
      BY <1>4, <2>5
    <3>2. e[t] \in 0 .. n /\ e[t + 1] \in 0 .. n
      BY <1>5
    <3>3. j \in 1 .. n
      BY <1>1, <3>1, <3>2
    <3>4. shuffled[j] = g
      BY <1>2, <2>1, <3>1, <3>3
    <3>5. j = k
      BY <2>2, <3>3, <3>4
    <3> QED
      BY <2>3, <3>1, <3>5
  <2> QED
    BY <2>4, <2>5
<1> QED
  BY <1>6, <1>7 DEF Partition

LEMMA SplitStarts == SplitInit => SplitInv
BY DEF SplitInit, SplitInv

LEMMA SplitStep == SplitInv /\ [SplitNext]_splitVars => SplitInv'
<1> SUFFICES ASSUME SplitInv, [SplitNext]_splitVars PROVE SplitInv'
  OBVIOUS
<1>1. CASE SplitCorpus
  <2>1. PICK shuffled \in SetToSeqs(Groups(corpus, splitRequest.key)) : splits' = Cut(shuffled, splitRequest)
    BY <1>1 DEF SplitCorpus
  <2>2. IsCorpus(corpus)
    BY SplitsAssumption DEF SplitInv, IsCorpus
  <2>3. Partition(corpus, splits')
    BY <1>1, <2>1, <2>2, CutIsPartition DEF SplitInv, SplitCorpus
  <2>4. audit = None
    BY <1>1 DEF SplitCorpus, SplitInv
  <2> QED
    BY <1>1, <2>3, <2>4 DEF SplitInv, SplitCorpus
<1>2. CASE SplitRefused
  BY <1>2 DEF SplitInv, SplitRefused
<1>3. CASE AuditSplits
  BY <1>3 DEF SplitInv, AuditSplits
<1>4. CASE UNCHANGED splitVars
  BY <1>4 DEF SplitInv, splitVars
<1> QED
  BY <1>1, <1>2, <1>3, <1>4 DEF SplitNext

LEMMA SplitAlways == SplitSpec => []SplitInv
BY SplitStarts, SplitStep, PTL DEF SplitSpec

(* What two sides have in common is found, if the audit looked at it.      *)
LEMMA CleanStates ==
  ASSUME NEW records, NEW sides, NEW key, Issues(records, sides, key) = {},
         NEW s \in DOMAIN sides, NEW t \in DOMAIN sides, s # t, NEW i \in sides[s], NEW j \in sides[t]
  PROVE  records[i].state # records[j].state
<1> DEFINE states == [u \in DOMAIN sides |-> {records[k].state : k \in sides[u]}]
<1>1. "semantic" \notin Issues(records, sides, key)
  OBVIOUS
<1>2. ~ Overlap(states)
  BY <1>1 DEF Issues
<1>3. records[i].state \in states[s] /\ records[j].state \in states[t]
  OBVIOUS
<1>4. DOMAIN states = DOMAIN sides
  OBVIOUS
<1> HIDE DEF states
<1> QED
  BY <1>2, <1>3, <1>4 DEF Overlap

LEMMA CleanFamilies ==
  ASSUME NEW records, NEW sides, Issues(records, sides, "auto") = {},
         NEW s \in DOMAIN sides, NEW t \in DOMAIN sides, s # t, NEW i \in sides[s], NEW j \in sides[t],
         i \in DOMAIN records, j \in DOMAIN records, HasFamily(records[i])
  PROVE  records[i].family # records[j].family
<1> DEFINE families == [u \in DOMAIN sides |-> {records[k].family : k \in {l \in sides[u] : ~ Blank(records[l])}}]
<1>1. AuditGrouped(records, "auto")
  BY DEF AuditGrouped
<1>2. "missing" \notin Issues(records, sides, "auto") /\ "group" \notin Issues(records, sides, "auto")
  OBVIOUS
<1>3. ~ Blank(records[i]) /\ ~ Blank(records[j])
  BY <1>1, <1>2 DEF Issues
<1>4. ~ Overlap(families)
  BY <1>1, <1>2 DEF Issues
<1>5. records[i].family \in families[s] /\ records[j].family \in families[t]
  BY <1>3
<1>6. DOMAIN families = DOMAIN sides
  OBVIOUS
<1> HIDE DEF families
<1> QED
  BY <1>4, <1>5, <1>6 DEF Overlap

(* For every corpus, request and shuffle: the four sides are positions of  *)
(* the corpus, and what the audit reports is one of its issues             *)
(* (split_records, audit_dataset_splits).                                  *)
THEOREM SplitTypes == SplitSpec => []SplitTypeOK
<1>1. DOMAIN Sides = 1 .. 4
  BY DEF Sides
<1>2. ASSUME SplitInv, audit # None
      PROVE  audit.issues \subseteq {"empty", "unlabelled", "missing", "semantic", "group"}
  <2>1. PICK key \in {"auto", "none"} : audit = [key |-> key, issues |-> Issues(corpus, splits, key)]
    BY <1>2 DEF SplitInv
  <2> QED
    BY <2>1 DEF Issues
<1>3. SplitInv => SplitTypeOK
  BY <1>1, <1>2 DEF SplitInv, SplitTypeOK, Partition
<1> QED
  BY <1>3, SplitAlways, PTL

(* For every corpus, request and shuffle: a split puts each record on one  *)
(* side, and a split that the audit lets through has no state and no       *)
(* family on two sides (split_records, audit_dataset_splits).              *)
THEOREM NoLeakageEver == SplitSpec => []NoLeakage
<1>1. SplitInv => NoLeakage
  <2> SUFFICES ASSUME SplitInv, splits \notin {None, NoSplit} PROVE NoLeakage
    BY DEF NoLeakage
  <2>1. Partition(corpus, splits)
    BY DEF SplitInv
  <2>2. DOMAIN splits = 1 .. 4 /\ \A s \in DOMAIN splits : splits[s] \subseteq DOMAIN corpus
    BY <2>1 DEF Partition
  <2>3. \A i \in DOMAIN corpus : \E s \in DOMAIN splits :
          i \in splits[s] /\ \A t \in DOMAIN splits : i \in splits[t] => t = s
    BY <2>1, <2>2 DEF Partition
  <2>4. ASSUME audit # None, audit.key = "auto", audit.issues = {},
               NEW s \in DOMAIN splits, NEW t \in DOMAIN splits, s # t,
               NEW i \in splits[s], NEW j \in splits[t]
        PROVE  /\ corpus[i].state # corpus[j].state
               /\ HasFamily(corpus[i]) => corpus[i].family # corpus[j].family
    <3>1. PICK key \in {"auto", "none"} : audit = [key |-> key, issues |-> Issues(corpus, splits, key)]
      BY <2>4 DEF SplitInv
    <3>2. audit.key = key /\ audit.issues = Issues(corpus, splits, key)
      BY <3>1
    <3>3. Issues(corpus, splits, "auto") = {}
      BY <2>4, <3>2
    <3>4. i \in DOMAIN corpus /\ j \in DOMAIN corpus
      BY <2>2
    <3>5. corpus[i].state # corpus[j].state
      BY <2>4, <3>3, CleanStates
    <3>6. HasFamily(corpus[i]) => corpus[i].family # corpus[j].family
      BY <2>4, <3>3, <3>4, CleanFamilies
    <3> QED
      BY <3>5, <3>6
  <2> QED
    BY <2>3, <2>4 DEF NoLeakage
<1> QED
  BY <1>1, SplitAlways, PTL
---------------------------------------------------------------------------
(* Sums of minutes *)

(* A set of natural numbers has a least one. *)
LEMMA LeastNat ==
  ASSUME NEW T, T \subseteq Nat, T # {}
  PROVE  \E i \in T : \A j \in T : i <= j
<1> DEFINE R == {ss \in Nat \X Nat : ss[1] < ss[2]}
<1>1. IsWellFoundedOn(R, Nat)
  BY NatLessThanWellFounded DEF OpToRel
<1> HIDE DEF R
<1>2. PICK i \in T : \A j \in T : ~ (<<j, i>> \in R)
  BY <1>1, WFMin
<1>3. ASSUME NEW j \in T PROVE i <= j
  <2>1. <<j, i>> \notin R /\ i \in Nat /\ j \in Nat
    BY <1>2
  <2> QED
    BY <2>1 DEF R
<1> QED
  BY <1>3

(* What a sum counts. *)
Counted(S, minutes) == UNION {{x} \X (1 .. minutes[x]) : x \in S}

(* Sums of finitely many minutes are natural numbers. *)
LEMMA SumIsNat ==
  ASSUME NEW S, IsFiniteSet(S), NEW minutes, \A x \in S : minutes[x] \in Int
  PROVE  /\ IsFiniteSet(Counted(S, minutes)) /\ Sum(S, minutes) \in Nat
         /\ Sum(S, minutes) = Cardinality(Counted(S, minutes))
<1> DEFINE ticks(x) == {x} \X (1 .. minutes[x])
           all == {ticks(x) : x \in S}
           f == [x \in S |-> ticks(x)]
<1>1. ASSUME NEW x \in S PROVE IsFiniteSet(ticks(x))
  <2>1. IsFiniteSet({x})
    BY FS_Singleton
  <2>2. IsFiniteSet(1 .. minutes[x])
    BY FS_Interval
  <2> QED
    BY <2>1, <2>2, FS_Product
<1>2. IsFiniteSet(all)
  <2> HIDE DEF ticks
  <2>1. f \in Surjection(S, all)
    BY DEF Surjection
  <2> QED
    BY <2>1, FS_Surjection
<1>3. IsFiniteSet(UNION all)
  <2> HIDE DEF ticks
  <2>1. \A T \in all : IsFiniteSet(T)
    BY <1>1
  <2> QED
    BY <1>2, <2>1, FS_UNION
<1> QED
  BY <1>3, FS_CardinalityType DEF Sum, Counted

FreeOf(S) == [c \in S |-> c.free]

(* The minutes of cards, and what is counted for them. *)
LEMMA MinutesCount ==
  ASSUME NEW S, S \subseteq CardType, IsFiniteSet(S)
  PROVE  /\ IsFiniteSet(Counted(S, FreeOf(S))) /\ Minutes(S) \in Nat
         /\ Minutes(S) = Cardinality(Counted(S, FreeOf(S)))
<1>1. \A x \in S : FreeOf(S)[x] \in Int
  BY DEF CardType, FreeOf
<1>2. Minutes(S) = Sum(S, FreeOf(S))
  BY DEF Minutes, FreeOf
<1> QED
  BY <1>1, <1>2, SumIsNat

(* More cards have at least as many minutes. *)
LEMMA MoreCardsMoreMinutes ==
  ASSUME NEW A, NEW B, B \subseteq CardType, IsFiniteSet(B), A \subseteq B
  PROVE  Minutes(A) \in Nat /\ Minutes(B) \in Nat /\ Minutes(A) <= Minutes(B)
<1>1. IsFiniteSet(A) /\ A \subseteq CardType
  BY FS_Subset
<1>2. Counted(A, FreeOf(A)) \subseteq Counted(B, FreeOf(B))
  BY DEF Counted, FreeOf
<1>3. IsFiniteSet(Counted(B, FreeOf(B)))
  BY MinutesCount
<1>4. Cardinality(Counted(A, FreeOf(A))) <= Cardinality(Counted(B, FreeOf(B)))
  BY <1>2, <1>3, FS_Subset
<1> QED
  BY <1>1, <1>4, MinutesCount

(* A finite set fits into one that has as many elements. *)
LEMMA SmallerFits ==
  ASSUME NEW S, NEW T, IsFiniteSet(S), IsFiniteSet(T), Cardinality(S) <= Cardinality(T)
  PROVE  ExistsInjection(S, T)
<1> DEFINE m == Cardinality(S) n == Cardinality(T)
<1>1. m \in Nat /\ n \in Nat /\ ExistsBijection(1 .. m, S) /\ ExistsBijection(1 .. n, T)
  BY FS_CardinalityType
<1>2. ExistsInjection(S, 1 .. m) /\ ExistsInjection(1 .. n, T)
  <2>1. ExistsBijection(S, 1 .. m)
    BY <1>1, Fun_ExistsBijSymmetric
  <2> QED
    BY <1>1, <2>1 DEF ExistsBijection, ExistsInjection, Bijection
<1>3. ExistsInjection(1 .. m, 1 .. n)
  <2> HIDE DEF m, n
  <2>1. m <= n
    BY DEF m, n
  <2>2. [i \in 1 .. m |-> i] \in Injection(1 .. m, 1 .. n)
    BY <1>1, <2>1 DEF Injection, IsInjective
  <2> QED
    BY <2>2 DEF ExistsInjection
<1>4. ExistsInjection(S, 1 .. n)
  BY <1>2, <1>3, Fun_ExistsInjTransitive
<1> QED
  BY <1>2, <1>4, Fun_ExistsInjTransitive

(* No set of as many cards has more minutes than one whose cards are at    *)
(* least as large as those it lacks.                                       *)
LEMMA LargerCardsMoreMinutes ==
  ASSUME NEW A, NEW B, A \subseteq CardType, B \subseteq CardType,
         IsFiniteSet(A), IsFiniteSet(B), Cardinality(B) <= Cardinality(A),
         \A a \in A \ B, b \in B \ A : a.free >= b.free
  PROVE  Minutes(B) <= Minutes(A)
<1> DEFINE ticks(S) == Counted(S, FreeOf(S))
<1>1. PICK h : h \in Injection(B \ A, A \ B)
  <2> DEFINE m == Cardinality(A) n == Cardinality(B) k == Cardinality(A \cap B)
  <2>1. /\ IsFiniteSet(A \ B) /\ IsFiniteSet(B \ A) /\ IsFiniteSet(A \cap B)
        /\ Cardinality(A \ B) = m - k
    BY FS_Difference, FS_Intersection
  <2>2. Cardinality(B \ A) = n - k
    <3>1. A \cap B = B \cap A
      OBVIOUS
    <3> QED
      BY <3>1, FS_Difference
  <2>3. m \in Nat /\ n \in Nat /\ k \in Nat
    BY <2>1, FS_CardinalityType
  <2>4. Cardinality(B \ A) <= Cardinality(A \ B)
    <3> HIDE DEF m, n, k
    <3>1. n - k <= m - k
      <4>1. n <= m
        BY DEF m, n
      <4> QED
        BY <2>3, <4>1
    <3> QED
      BY <2>1, <2>2, <3>1
  <2>5. Injection(B \ A, A \ B) # {}
    BY <2>1, <2>4, SmallerFits DEF ExistsInjection
  <2> QED
    BY <2>5
<1>2. /\ IsFiniteSet(ticks(A))
      /\ Minutes(A) = Cardinality(ticks(A)) /\ Minutes(B) = Cardinality(ticks(B))
  BY MinutesCount
<1> DEFINE to(b) == IF b \in A THEN b ELSE h[b]
           move == [t \in ticks(B) |-> <<to(t[1]), t[2]>>]
<1>4. \A b \in B : to(b) \in A /\ b.free <= to(b).free /\ b.free \in Nat /\ to(b).free \in Nat
  BY <1>1 DEF CardType, Injection, IsInjective
<1>5. \A b, c \in B : to(b) = to(c) => b = c
  BY <1>1 DEF Injection, IsInjective
<1>6. \A t \in ticks(B) : t[1] \in B /\ t[2] \in 1 .. t[1].free /\ t = <<t[1], t[2]>>
  BY DEF Counted, FreeOf
<1>7. \A a \in A : \A i \in 1 .. a.free : <<a, i>> \in ticks(A)
  BY DEF Counted, FreeOf
<1>8. move \in Injection(ticks(B), ticks(A))
  <2> HIDE DEF ticks, to
  <2>1. ASSUME NEW t \in ticks(B) PROVE move[t] \in ticks(A)
    <3>1. to(t[1]) \in A /\ t[2] \in 1 .. to(t[1]).free
      BY <1>4, <1>6
    <3> QED
      BY <3>1, <1>7
  <2>2. ASSUME NEW t \in ticks(B), NEW u \in ticks(B), move[t] = move[u] PROVE t = u
    <3>1. to(t[1]) = to(u[1]) /\ t[2] = u[2]
      BY <2>2
    <3> QED
      BY <3>1, <1>5, <1>6
  <2> QED
    BY <2>1, <2>2 DEF Injection, IsInjective
<1>9. Cardinality(ticks(B)) <= Cardinality(ticks(A))
  <2> HIDE DEF ticks, move
  <2> QED
    BY <1>2, <1>8, FS_Injection
<1> QED
  BY <1>2, <1>9
---------------------------------------------------------------------------
(* The cards of a stage *)

Larger(cards, c) == {d \in Placeable(cards) : LargerFirst(d, c)}

(* No two cards that a stage can be placed on are equally far ahead. *)
LEMMA CardsAreOrdered ==
  ASSUME NEW cards, cards \subseteq CardType,
         NEW c \in Placeable(cards), NEW d \in Placeable(cards), NEW e \in Placeable(cards)
  PROVE  /\ ~ LargerFirst(c, c)
         /\ LargerFirst(c, d) /\ LargerFirst(d, e) => LargerFirst(c, e)
         /\ c = d \/ LargerFirst(c, d) \/ LargerFirst(d, c)
<1>1. /\ c \in CardType /\ d \in CardType /\ e \in CardType /\ c.trusted = d.trusted
      /\ CardRank[c.id] \in Int /\ CardRank[d.id] \in Int /\ CardRank[e.id] \in Int
      /\ CardRank[c.id] = CardRank[d.id] => c.id = d.id
  BY CardsAssumption DEF Placeable, CardType
<1>2. c.id = d.id /\ c.free = d.free => c = d
  BY <1>1 DEF CardType
<1> QED
  BY <1>1, <1>2 DEF LargerFirst, CardType

LEMMA LargerGrows ==
  ASSUME NEW cards, cards \subseteq CardType, IsFiniteSet(cards),
         NEW c \in Placeable(cards), NEW d \in Placeable(cards), LargerFirst(d, c)
  PROVE  /\ Larger(cards, d) \subseteq Larger(cards, c)
         /\ Cardinality(Larger(cards, c)) \in Nat /\ Cardinality(Larger(cards, d)) \in Nat
         /\ Cardinality(Larger(cards, d)) < Cardinality(Larger(cards, c))
<1>1. Larger(cards, d) \subseteq Larger(cards, c)
  BY CardsAreOrdered DEF Larger
<1>2. d \in Larger(cards, c) /\ d \notin Larger(cards, d)
  BY CardsAreOrdered DEF Larger
<1>3. IsFiniteSet(Larger(cards, c))
  BY FS_Subset DEF Larger, Placeable
<1>4. /\ Cardinality(Larger(cards, c)) \in Nat
      /\ IsFiniteSet(Larger(cards, d)) /\ Cardinality(Larger(cards, d)) \in Nat
  BY <1>1, <1>3, FS_Subset, FS_CardinalityType
<1>5. /\ Cardinality(Larger(cards, d)) <= Cardinality(Larger(cards, c))
      /\ Cardinality(Larger(cards, d)) # Cardinality(Larger(cards, c))
  BY <1>1, <1>2, <1>3, FS_Subset
<1> QED
  BY <1>1, <1>4, <1>5

(* Of some cards one is the largest and one the smallest. *)
LEMMA EndsExist ==
  ASSUME NEW cards, cards \subseteq CardType, IsFiniteSet(cards),
         NEW some \in SUBSET Placeable(cards), some # {}
  PROVE  /\ \E c \in some : \A d \in some : ~ LargerFirst(d, c)
         /\ \E c \in some : \A d \in some : ~ LargerFirst(c, d)
<1> DEFINE ahead(c) == Cardinality(Larger(cards, c))
           rest(c) == Cardinality(cards) - ahead(c)
<1>1. ASSUME NEW c \in some PROVE ahead(c) \in Nat /\ rest(c) \in Nat
  <2>1. Larger(cards, c) \subseteq cards
    BY DEF Larger, Placeable
  <2>2. /\ IsFiniteSet(Larger(cards, c))
        /\ Cardinality(Larger(cards, c)) <= Cardinality(cards)
    BY <2>1, FS_Subset
  <2>3. ahead(c) \in Nat /\ Cardinality(cards) \in Nat
    BY <2>2, FS_CardinalityType
  <2> QED
    BY <2>2, <2>3
<1>2. ASSUME NEW c \in some, NEW d \in some, LargerFirst(d, c)
      PROVE  ahead(d) < ahead(c) /\ rest(c) < rest(d)
  <2>1. ahead(d) < ahead(c) /\ ahead(d) \in Nat /\ ahead(c) \in Nat
    BY <1>2, LargerGrows
  <2>2. Cardinality(cards) \in Nat
    BY FS_CardinalityType
  <2> QED
    BY <2>1, <2>2
<1> HIDE DEF ahead, rest
<1>3. \E c \in some : \A d \in some : ahead(c) <= ahead(d)
  <2> DEFINE counts == {ahead(c) : c \in some}
  <2>1. counts \subseteq Nat /\ counts # {}
    BY <1>1
  <2>2. PICK least \in counts : \A other \in counts : least <= other
    BY <2>1, LeastNat
  <2> QED
    BY <2>2
<1>4. \E c \in some : \A d \in some : rest(c) <= rest(d)
  <2> DEFINE counts == {rest(c) : c \in some}
  <2>1. counts \subseteq Nat /\ counts # {}
    BY <1>1
  <2>2. PICK least \in counts : \A other \in counts : least <= other
    BY <2>1, LeastNat
  <2> QED
    BY <2>2
<1>5. \A c, d \in some : ahead(c) <= ahead(d) => ~ LargerFirst(d, c)
  BY <1>1, <1>2
<1>6. \A c, d \in some : rest(c) <= rest(d) => ~ LargerFirst(c, d)
  BY <1>1, <1>2
<1> QED
  BY <1>3, <1>4, <1>5, <1>6

(* A card before one that is taken is taken. *)
LEMMA TakenFromTheLargest ==
  ASSUME NEW cards, cards \subseteq CardType, IsFiniteSet(cards), NEW needed \in Int,
         NEW c \in SelectGpus(needed, cards), NEW d \in Larger(cards, c)
  PROVE  d \in SelectGpus(needed, cards)
<1>1. c \in Placeable(cards) /\ d \in Placeable(cards) /\ LargerFirst(d, c)
  BY DEF SelectGpus, Larger
<1>2. Larger(cards, d) \subseteq Larger(cards, c)
  BY <1>1, LargerGrows
<1>3. Larger(cards, c) \subseteq CardType /\ IsFiniteSet(Larger(cards, c))
  BY FS_Subset DEF Larger, Placeable
<1>4. /\ Minutes(Larger(cards, d)) \in Nat /\ Minutes(Larger(cards, c)) \in Nat
      /\ Minutes(Larger(cards, d)) <= Minutes(Larger(cards, c))
  BY <1>2, <1>3, MoreCardsMoreMinutes
<1>5. Minutes(Larger(cards, c)) < needed
  BY DEF SelectGpus, Larger
<1>6. Minutes(Larger(cards, d)) < needed
  BY <1>4, <1>5
<1> QED
  BY <1>1, <1>6 DEF SelectGpus, Larger

(* Where no cards cover a stage, it gets all. *)
LEMMA AllWhereNoneCover ==
  ASSUME NEW cards, cards \subseteq CardType, IsFiniteSet(cards), NEW needed \in Int,
         \A some \in SUBSET Placeable(cards) : Minutes(some) < needed
  PROVE  SelectGpus(needed, cards) = Placeable(cards)
<1>1. ASSUME NEW c \in Placeable(cards) PROVE Minutes(Larger(cards, c)) < needed
  BY DEF Larger
<1> QED
  BY <1>1 DEF SelectGpus, Larger

(* Where some do, those it gets do. *)
LEMMA TakenCover ==
  ASSUME NEW cards, cards \subseteq CardType, IsFiniteSet(cards), NEW needed \in Int,
         NEW some \in SUBSET Placeable(cards), Minutes(some) >= needed
  PROVE  Minutes(SelectGpus(needed, cards)) >= needed
<1> DEFINE taken == SelectGpus(needed, cards)
           left == Placeable(cards) \ taken
<1>1. /\ taken \subseteq Placeable(cards) /\ Placeable(cards) \subseteq CardType
      /\ IsFiniteSet(Placeable(cards)) /\ IsFiniteSet(taken)
  BY FS_Subset DEF SelectGpus, Placeable
<1>2. CASE left = {}
  <2>1. /\ Minutes(some) \in Nat /\ Minutes(taken) \in Nat
        /\ Minutes(some) <= Minutes(taken)
    BY <1>1, <1>2, MoreCardsMoreMinutes
  <2> QED
    BY <2>1
<1>3. CASE left # {}
  <2>1. PICK c \in left : \A d \in left : ~ LargerFirst(d, c)
    BY <1>3, EndsExist
  <2>2. Larger(cards, c) \subseteq taken
    BY <2>1 DEF Larger
  <2>3. /\ Minutes(Larger(cards, c)) \in Nat /\ Minutes(taken) \in Nat
        /\ Minutes(Larger(cards, c)) <= Minutes(taken)
    BY <1>1, <2>2, MoreCardsMoreMinutes
  <2>4. ~ (Minutes(Larger(cards, c)) < needed)
    BY <2>1 DEF SelectGpus, Larger
  <2> QED
    BY <2>3, <2>4
<1> QED
  BY <1>2, <1>3

(* No fewer cards cover a stage than those it gets: the last of them is    *)
(* needed, and as many others are no larger than those before it.          *)
LEMMA NoFewerCover ==
  ASSUME NEW cards, cards \subseteq CardType, IsFiniteSet(cards), NEW needed \in Int,
         NEW some \in SUBSET Placeable(cards), Minutes(some) >= needed
  PROVE  Cardinality(SelectGpus(needed, cards)) <= Cardinality(some)
<1> DEFINE taken == SelectGpus(needed, cards)
<1>1. /\ taken \subseteq Placeable(cards) /\ Placeable(cards) \subseteq CardType
      /\ IsFiniteSet(taken) /\ IsFiniteSet(some)
      /\ Cardinality(taken) \in Nat /\ Cardinality(some) \in Nat
  <2>1. /\ taken \subseteq Placeable(cards) /\ Placeable(cards) \subseteq CardType
        /\ Placeable(cards) \subseteq cards
    BY DEF SelectGpus, Placeable
  <2>2. IsFiniteSet(taken) /\ IsFiniteSet(some)
    BY <2>1, FS_Subset
  <2> QED
    BY <2>1, <2>2, FS_CardinalityType
<1>2. SUFFICES ASSUME Cardinality(some) < Cardinality(taken) PROVE FALSE
  BY <1>1
<1> DEFINE size(c) == Cardinality(Larger(cards, c))
<1>3. PICK c \in taken : \A d \in taken : ~ LargerFirst(c, d)
  <2>1. taken # {}
    BY <1>1, <1>2, FS_EmptySet
  <2> QED
    BY <1>1, <2>1, EndsExist
<1> DEFINE before == taken \ {c}
<1>4. before \subseteq Larger(cards, c) /\ Larger(cards, c) \subseteq before
  <2>1. c \in Placeable(cards) /\ c \notin Larger(cards, c)
    BY <1>1, CardsAreOrdered DEF Larger
  <2>2. Larger(cards, c) \subseteq before
    BY <2>1, TakenFromTheLargest
  <2>3. ASSUME NEW d \in before PROVE d \in Larger(cards, c)
    <3>1. LargerFirst(d, c)
      BY <1>1, <1>3, CardsAreOrdered
    <3> QED
      BY <1>1, <3>1 DEF Larger
  <2> QED
    BY <2>2, <2>3
<1>5. Minutes(before) < needed
  <2>1. before = Larger(cards, c)
    BY <1>4
  <2> QED
    BY <2>1 DEF SelectGpus, Larger
<1>6. Minutes(some) <= Minutes(before)
  <2>1. IsFiniteSet(before) /\ Cardinality(some) <= Cardinality(before)
    <3>1. IsFiniteSet(before) /\ Cardinality(before) = Cardinality(taken) - 1
      BY <1>1, FS_RemoveElement
    <3> QED
      BY <1>1, <1>2, <3>1
  <2>2. ASSUME NEW a \in before \ some, NEW b \in some \ before PROVE a.free >= b.free
    <3>1. LargerFirst(a, c) /\ (b = c \/ LargerFirst(c, b))
      <4>1. LargerFirst(a, c) /\ ~ LargerFirst(b, c)
        BY <1>4 DEF Larger
      <4> QED
        BY <1>1, <4>1, CardsAreOrdered
    <3>2. LargerFirst(a, b)
      BY <1>1, <3>1, CardsAreOrdered
    <3>3. a \in CardType /\ b \in CardType
      BY <1>1
    <3> QED
      BY <3>2, <3>3 DEF LargerFirst, CardType
  <2>3. before \subseteq CardType /\ some \subseteq CardType
    BY <1>1
  <2> QED
    BY <1>1, <2>1, <2>2, <2>3, LargerCardsMoreMinutes
<1>7. Minutes(some) \in Nat /\ Minutes(before) \in Nat
  <2>1. IsFiniteSet(before) /\ before \subseteq CardType /\ some \subseteq CardType
    BY <1>1, FS_RemoveElement
  <2> QED
    BY <1>1, <2>1, MinutesCount
<1> QED
  BY <1>5, <1>6, <1>7
---------------------------------------------------------------------------
(* Plans *)

(* What a stage is expected to take is a whole number. *)
LEMMA PricesAreNumbers ==
  ASSUME NEW r, IsPlanRequest(r), NEW s \in Stages(r.job)
  PROVE  Price(r, s) \in Int
<1>1. \A t \in StageKind : Estimate(r.job, t) \in Nat \ {0}
  <2>1. r.job.unit \in Nat \ {0}
    BY DEF IsPlanRequest
  <2> QED
    BY <2>1 DEF Estimate, StageKind
<1>2. IsFiniteSet(StageKind) /\ Stages(r.job) \subseteq StageKind /\ "train" \in Stages(r.job)
  <2>1. IsFiniteSet({}) /\ StageKind = {} \cup {"train"} \cup {"calibrate"} \cup {"benchmark"} \cup {"fleet_benchmark"}
    BY FS_EmptySet DEF StageKind
  <2>2. IsFiniteSet(StageKind)
    BY <2>1, FS_AddElement
  <2> QED
    BY <2>2 DEF Stages, StageKind
<1>3. s \in StageKind /\ Estimate(r.job, s) \in Int
  BY <1>1, <1>2
<1>4. Estimated(r.job) \in Nat /\ Estimated(r.job) > 0
  <2> DEFINE costs == [t \in Stages(r.job) |-> Estimate(r.job, t)]
  <2>1. IsFiniteSet(Stages(r.job)) /\ \A t \in Stages(r.job) : costs[t] \in Nat \ {0}
    BY <1>1, <1>2, FS_Subset
  <2>2. costs["train"] \in Nat \ {0}
    BY <1>2, <2>1
  <2> HIDE DEF costs
  <2>3. /\ IsFiniteSet(Counted(Stages(r.job), costs)) /\ Sum(Stages(r.job), costs) \in Nat
        /\ Sum(Stages(r.job), costs) = Cardinality(Counted(Stages(r.job), costs))
    BY <2>1, SumIsNat
  <2>4. <<"train", 1>> \in Counted(Stages(r.job), costs)
    <3>1. 1 \in 1 .. costs["train"]
      BY <2>2
    <3> QED
      BY <3>1, <1>2 DEF Counted
  <2>5. Sum(Stages(r.job), costs) # 0
    BY <2>3, <2>4, FS_EmptySet
  <2> QED
    BY <2>3, <2>5 DEF Estimated, costs
<1>5. CASE s \in DOMAIN r.measured
  BY <1>5 DEF Price, IsPlanRequest
<1>6. CASE s \notin DOMAIN r.measured /\ Samples(r) = {}
  BY <1>3, <1>6 DEF Price
<1>7. CASE s \notin DOMAIN r.measured /\ Samples(r) # {} /\ s \in Timed(r)
  BY <1>7 DEF Price, Timed, IsPlanRequest
<1>8. CASE s \notin DOMAIN r.measured /\ Samples(r) # {} /\ s \notin Timed(r)
  <2>1. Total(r) \in Int
    <3> DEFINE times == [t \in Timed(r) |-> r.timings[t].minutes]
               lengths == [i \in Samples(r) |-> r.registry[i].minutes]
    <3>1. IsFiniteSet(Timed(r)) /\ \A t \in Timed(r) : times[t] \in Int
      <4>1. Timed(r) \subseteq StageKind /\ \A t \in Timed(r) : times[t] \in Int
        BY DEF Timed, IsPlanRequest
      <4> QED
        BY <4>1, <1>2, FS_Subset
    <3>2. IsFiniteSet(Samples(r)) /\ \A i \in Samples(r) : lengths[i] \in Int
      <4>1. Samples(r) \subseteq DOMAIN r.registry /\ \A i \in Samples(r) : lengths[i] \in Int
        BY DEF Samples, IsPlanRequest
      <4>2. IsFiniteSet(DOMAIN r.registry)
        BY DEF IsPlanRequest
      <4> QED
        BY <4>1, <4>2, FS_Subset
    <3> HIDE DEF times, lengths
    <3>3. Sum(Timed(r), times) \in Nat /\ Sum(Samples(r), lengths) \in Nat
      BY <3>1, <3>2, SumIsNat
    <3>4. Cardinality(Samples(r)) \in Nat /\ Cardinality(Samples(r)) # 0
      BY <3>2, <1>8, FS_CardinalityType, FS_EmptySet
    <3>5. Sum(Samples(r), lengths) \div Cardinality(Samples(r)) \in Int
      BY <3>3, <3>4
    <3> QED
      BY <3>3, <3>5 DEF Total, times, lengths
  <2>2. Estimate(r.job, s) * Total(r) \in Int
    BY <1>3, <2>1
  <2>3. (Estimate(r.job, s) * Total(r)) \div Estimated(r.job) \in Int
    BY <1>4, <2>2
  <2> QED
    BY <1>8, <2>3 DEF Price
<1> QED
  BY <1>5, <1>6, <1>7, <1>8

(* An inventory is of cards, and the free ones of a probed host are those  *)
(* that no run holds.                                                      *)
LEMMA InventoriesAreOfCards ==
  ASSUME NEW r, IsPlanRequest(r)
  PROVE  /\ Inventory(r) \subseteq CardType /\ IsFiniteSet(Inventory(r))
         /\ r.inventory = "probe" => \A c \in Inventory(r) : c.free > 0 => c.id \in FreeDevices(r)
<1>1. CASE r.inventory = "none"
  BY <1>1, FS_EmptySet DEF Inventory
<1>2. CASE r.inventory = "file"
  BY <1>2 DEF Inventory, IsPlanRequest
<1>3. CASE r.inventory = "probe"
  <2> DEFINE card(d) == Card(d, IF d \in FreeDevices(r) THEN Horizon(r) ELSE 0, d \notin r.untrusted)
  <2>1. r.devices \subseteq DOMAIN CardRank /\ IsFiniteSet(r.devices) /\ r.horizon \in Nat
    BY DEF IsPlanRequest
  <2>2. ASSUME NEW d \in FreeDevices(r) PROVE Horizon(r) \in Nat
    <3>1. IsFiniteSet(FreeDevices(r))
      <4>1. FreeDevices(r) \subseteq r.devices
        BY DEF FreeDevices
      <4> QED
        BY <2>1, <4>1, FS_Subset
    <3>2. Cardinality(FreeDevices(r)) \in Nat /\ Cardinality(FreeDevices(r)) # 0
      BY <3>1, FS_CardinalityType, FS_EmptySet
    <3>3. r.horizon \div Cardinality(FreeDevices(r)) \in Nat
      BY <2>1, <3>2
    <3> QED
      BY <2>1, <3>3 DEF Horizon
  <2>3. \A d \in r.devices : card(d) \in CardType
    BY <2>1, <2>2 DEF Card, CardType
  <2>4. Inventory(r) = {card(d) : d \in r.devices}
    BY <1>3 DEF Inventory, LocalInventory
  <2>5. IsFiniteSet(Inventory(r))
    <3> HIDE DEF card
    <3>1. [d \in r.devices |-> card(d)] \in Surjection(r.devices, Inventory(r))
      BY <2>4 DEF Surjection
    <3> QED
      BY <2>1, <3>1, FS_Surjection
  <2>6. \A d \in r.devices : card(d).free > 0 => card(d).id \in FreeDevices(r)
    BY DEF Card
  <2> QED
    BY <2>3, <2>4, <2>5, <2>6
<1> QED
  BY <1>1, <1>2, <1>3 DEF IsPlanRequest

(* A plan is the one of its request and inventory. *)
PlanInv ==
  /\ planRequest \in PlanRequests
  /\ pool # None => pool = Inventory(planRequest)
  /\ plan # None => /\ pool # None
                    /\ plan = ModelVersionPlan(WithinBudget(planRequest), StageGpus(planRequest, pool))

LEMMA PlanStarts == PlanInit => PlanInv
  BY DEF PlanInit, PlanInv

LEMMA PlanStep == PlanInv /\ [PlanNext]_gpuVars => PlanInv'
<1>1. ASSUME PlanInv, TakeInventory PROVE PlanInv'
  BY <1>1 DEF PlanInv, TakeInventory
<1>2. ASSUME PlanInv, BuildPlan PROVE PlanInv'
  BY <1>2 DEF PlanInv, BuildPlan
<1>3. ASSUME PlanInv, UNCHANGED gpuVars PROVE PlanInv'
  BY <1>3 DEF PlanInv, gpuVars, ModelVersionPlan, WithinBudget, StageGpus
<1> QED
  BY <1>1, <1>2, <1>3 DEF PlanNext

LEMMA PlanAlways == PlanSpec => []PlanInv
  BY PlanStarts, PlanStep, PTL DEF PlanSpec

(* For every inventory: no time of a card is negative, and a plan names    *)
(* cards of the inventory only (gpu_inventory.py, gpu_plan.py).            *)
THEOREM PlanTypes == PlanSpec => []PlanTypeOK
<1>1. ASSUME PlanInv, pool # None PROVE pool \subseteq CardType
  BY <1>1, PlansAssumption, InventoriesAreOfCards DEF PlanInv
<1>2. ASSUME PlanInv, plan # None, NEW s \in DOMAIN plan.gpu_ids PROVE plan.gpu_ids[s] \subseteq pool
  <2>1. /\ s \in Stages(planRequest.job)
        /\ plan.gpu_ids[s] = IF WithinBudget(planRequest) THEN SelectGpus(Price(planRequest, s), pool) ELSE {}
    BY <1>2 DEF PlanInv, ModelVersionPlan, StageGpus
  <2> QED
    BY <2>1 DEF SelectGpus, Placeable
<1>3. PlanInv => PlanTypeOK
  BY <1>1, <1>2 DEF PlanTypeOK, CardType
<1> QED
  BY <1>3, PlanAlways, PTL

(* gpu_plan.py, for every inventory: a plan that is paid for names, for    *)
(* each stage, the fewest free and trusted cards that cover it, or all of  *)
(* them, and no card that a run held when the host was probed; a plan that *)
(* is not paid for names none.                                             *)
THEOREM PlansTakeTheFewest == PlanSpec => []FewestCards
<1>1. ASSUME PlanInv, plan # None, NEW s \in DOMAIN plan.gpu_ids
      PROVE  LET chosen == plan.gpu_ids[s]
                 price  == Price(planRequest, s)
                 covers == {cards \in SUBSET Placeable(pool) : Minutes(cards) >= price}
             IN IF ~plan.within_budget THEN chosen = {}
                ELSE /\ IF covers = {} THEN chosen = Placeable(pool)
                        ELSE chosen \in covers /\ \A cards \in covers : Cardinality(chosen) <= Cardinality(cards)
                     /\ planRequest.inventory = "probe" /\ LockDir(planRequest) # None =>
                          {c.id : c \in chosen} \cap planRequest.held[LockDir(planRequest)] = {}
  <2> DEFINE r == planRequest
             price == Price(r, s)
             chosen == plan.gpu_ids[s]
             covers == {cards \in SUBSET Placeable(pool) : Minutes(cards) >= price}
  <2>1. /\ IsPlanRequest(r) /\ pool = Inventory(r) /\ s \in Stages(r.job)
        /\ plan.within_budget = WithinBudget(r)
        /\ chosen = IF WithinBudget(r) THEN SelectGpus(price, pool) ELSE {}
    BY <1>1, PlansAssumption DEF PlanInv, ModelVersionPlan, StageGpus
  <2>2. pool \subseteq CardType /\ IsFiniteSet(pool) /\ price \in Int
    BY <2>1, InventoriesAreOfCards, PricesAreNumbers
  <2>3. CASE ~ WithinBudget(r)
    BY <2>1, <2>3
  <2>4. CASE WithinBudget(r)
    <3>1. chosen = SelectGpus(price, pool) /\ chosen \subseteq Placeable(pool)
      BY <2>1, <2>4 DEF SelectGpus
    <3>2. ASSUME covers = {} PROVE chosen = Placeable(pool)
      <4>1. ASSUME NEW some \in SUBSET Placeable(pool) PROVE Minutes(some) < price
        <5>1. Minutes(some) \in Nat
          BY <2>2, FS_Subset, MinutesCount DEF Placeable
        <5>2. ~ (Minutes(some) >= price)
          BY <3>2
        <5> QED
          BY <2>2, <5>1, <5>2
      <4> QED
        BY <2>2, <3>1, <4>1, AllWhereNoneCover
    <3>3. ASSUME NEW cards \in covers PROVE chosen \in covers /\ Cardinality(chosen) <= Cardinality(cards)
      BY <2>2, <3>1, <3>3, TakenCover, NoFewerCover
    <3>4. ASSUME r.inventory = "probe", LockDir(r) # None, NEW c \in chosen
          PROVE  c.id \notin r.held[LockDir(r)]
      <4>1. c.id \in FreeDevices(r)
        BY <2>1, <3>1, <3>4, InventoriesAreOfCards DEF Placeable
      <4> QED
        BY <3>4, <4>1 DEF FreeDevices
    <3> QED
      BY <2>1, <2>4, <3>2, <3>3, <3>4
  <2> QED
    BY <2>3, <2>4
<1>2. PlanInv => FewestCards
  BY <1>1 DEF FewestCards
<1> QED
  BY <1>2, PlanAlways, PTL
---------------------------------------------------------------------------
(* The deciders side by side *)

(* A step of the program is a step of each decider or leaves it alone.     *)
LEMMA EachStep ==
  [MCNext]_<<policyVars, fleetVars, adviceVars, splitVars, gpuVars, marketVars>> =>
    /\ [Resolve]_policyVars /\ [FleetNext]_fleetVars /\ [AdviceNext]_adviceVars
    /\ [SplitNext]_splitVars /\ [PlanNext]_gpuVars /\ [MarketNext]_marketVars
  BY DEF MCNext

LEMMA EachStart ==
  MCInit => /\ PolicyInit \/ PolicyIdle
            /\ FleetInit \/ FleetIdle
            /\ AdviceInit \/ AdviceIdle
            /\ SplitInit \/ SplitIdle
            /\ PlanInit \/ PlanIdle
            /\ MarketInit \/ MarketIdle
  BY DEF MCInit

(* Without a task a decider does nothing. *)
LEMMA IdleStays ==
  /\ PolicyIdle /\ [Resolve]_policyVars => PolicyIdle'
  /\ FleetIdle /\ [FleetNext]_fleetVars => FleetIdle'
  /\ AdviceIdle /\ [AdviceNext]_adviceVars => AdviceIdle'
  /\ SplitIdle /\ [SplitNext]_splitVars => SplitIdle'
  /\ PlanIdle /\ [PlanNext]_gpuVars => PlanIdle'
  /\ MarketIdle /\ [MarketNext]_marketVars => MarketIdle'
<1>1. PolicyIdle /\ [Resolve]_policyVars => PolicyIdle'
  BY DEF PolicyIdle, policyVars, Resolve
<1>2. FleetIdle /\ [FleetNext]_fleetVars => FleetIdle'
  BY DEF FleetIdle, fleetVars, FleetNext, Place, PlaceRefused
<1>3. AdviceIdle /\ [AdviceNext]_adviceVars => AdviceIdle'
  BY DEF AdviceIdle, adviceVars, AdviceNext, Join, Advise
<1>4. SplitIdle /\ [SplitNext]_splitVars => SplitIdle'
  BY DEF SplitIdle, splitVars, SplitNext, SplitCorpus, SplitRefused, AuditSplits
<1>5. PlanIdle /\ [PlanNext]_gpuVars => PlanIdle'
  BY DEF PlanIdle, gpuVars, PlanNext, TakeInventory, BuildPlan
<1>6. MarketIdle /\ [MarketNext]_marketVars => MarketIdle'
  BY DEF MarketIdle, marketVars, MarketNext, Decide, DecideRefused
<1> QED
  BY <1>1, <1>2, <1>3, <1>4, <1>5, <1>6

(* Each decider either is at work as it is alone or has no task at all.    *)
THEOREM DecidersSideBySide ==
  MCSpec => /\ PolicySpec \/ []PolicyIdle
            /\ FleetSpec \/ []FleetIdle
            /\ AdviceSpec \/ []AdviceIdle
            /\ SplitSpec \/ []SplitIdle
            /\ PlanSpec \/ []PlanIdle
            /\ MarketSpec \/ []MarketIdle
  BY EachStep, EachStart, IdleStays, PTL
     DEF MCSpec, PolicySpec, FleetSpec, AdviceSpec, SplitSpec, PlanSpec, MarketSpec

(* All types at once, for all the deciders and every value of the          *)
(* constants: the invariant that the run of the deciders checks.           *)
THEOREM DecisionTypes == MCSpec => []MCTypeOK
<1>1. PolicyIdle => PolicyTypeOK
  BY DEF PolicyIdle, PolicyTypeOK
<1>2. FleetIdle => FleetTypeOK
  BY DEF FleetIdle, FleetTypeOK, Placed
<1>3. AdviceIdle => AdviceTypeOK
  BY DEF AdviceIdle, AdviceTypeOK, IsAdvised
<1>4. SplitIdle => SplitTypeOK
  BY DEF SplitIdle, SplitTypeOK
<1>5. PlanIdle => PlanTypeOK
  BY DEF PlanIdle, PlanTypeOK
<1>6. MarketIdle => MarketTypeOK
  BY DEF MarketIdle, MarketTypeOK, Decided
<1> QED
  BY <1>1, <1>2, <1>3, <1>4, <1>5, <1>6, DecidersSideBySide, PolicyTypes, PlacementTypes,
     AdviceTypes, SplitTypes, PlanTypes, MarketTypes, PTL
     DEF MCTypeOK

(* What is proved of each decider alone holds of all of them together: the *)
(* invariants of the run, for every value of the constants.                *)
THEOREM DecisionsHold ==
  MCSpec => [](/\ AuthorityMonotone /\ CautionMonotone /\ ExecutedIsConsistent /\ AdaptersAgree
               /\ IllegalNodesAreInvisible /\ ArrivalOrderIrrelevant
               /\ IgnoredIsInert /\ AdviceCanBeFollowed
               /\ NoLeakage /\ FewestCards /\ DeadVenuesAreSilent)
<1>1. PolicyIdle => AuthorityMonotone /\ CautionMonotone /\ ExecutedIsConsistent /\ AdaptersAgree
  BY DEF PolicyIdle, AuthorityMonotone, CautionMonotone, ExecutedIsConsistent, AdaptersAgree
<1>2. FleetIdle => IllegalNodesAreInvisible /\ ArrivalOrderIrrelevant
  BY DEF FleetIdle, IllegalNodesAreInvisible, ArrivalOrderIrrelevant, Placed
<1>3. AdviceIdle => IgnoredIsInert /\ AdviceCanBeFollowed
  BY DEF AdviceIdle, IgnoredIsInert, AdviceCanBeFollowed, IsAdvised
<1>4. SplitIdle => NoLeakage
  BY DEF SplitIdle, NoLeakage
<1>5. PlanIdle => FewestCards
  BY DEF PlanIdle, FewestCards
<1>6. MarketIdle => DeadVenuesAreSilent
  BY DEF MarketIdle, DeadVenuesAreSilent, Decided
<1> QED
  BY <1>1, <1>2, <1>3, <1>4, <1>5, <1>6, DecidersSideBySide,
     AuthorityNeverWidens, CautionNeverWidens, ExecutedPassesTheAudit, AdaptersTellTheSame,
     IllegalNodesNeverCount, ArrivalOrderNeverDecides, IgnoredLanesNeverCount, AdviceIsFollowable,
     NoLeakageEver, PlansTakeTheFewest, DeadVenuesNeverCount, PTL
=============================================================================
