------------------------------- MODULE Rules -------------------------------
(***************************************************************************)
(* What the resolvers of my-jev are made of: a choice out of a scored      *)
(* distribution, and a list of rules of which the first that applies       *)
(* answers (a function of early returns).                                  *)
(***************************************************************************)
EXTENDS Integers, Sequences, FiniteSets

CONSTANT None       \* Python's None

(* The first position of a sequence that passes a test (0: none does).     *)
FirstIn(s, Test(_)) ==
  LET passing == {i \in DOMAIN s : Test(s[i])}
  IN IF passing = {} THEN 0 ELSE CHOOSE i \in passing : \A j \in passing : i <= j

(* `max(distribution, key=distribution.get)`: options is the distribution's *)
(* insertion order, and the first of several maxima wins.                  *)
Choice(options, scores) ==
  options[FirstIn(options, LAMBDA o : \A p \in DOMAIN scores : scores[o] >= scores[p])]

(* `sorted(..., key=...)`: keys are compared as tuples, and of equal ones    *)
(* the first in the list stays first.  The positions S, in that order.     *)
KeyBefore(a, b) == \E i \in DOMAIN a : a[i] < b[i] /\ \A j \in 1..(i - 1) : a[j] = b[j]

Ahead(i, j, key) == KeyBefore(key[i], key[j]) \/ (key[i] = key[j] /\ i < j)

Sorted(S, key) ==
  [k \in 1..Cardinality(S) |->
     CHOOSE i \in S : Cardinality({j \in S : Ahead(j, i, key)}) = k - 1]

(* A comprehension with a condition: the elements of a list at the positions *)
(* S, in the order of the list.                                            *)
InOrder(S) == Sorted(S, [i \in S |-> <<>>])
Where(s, S) == [k \in DOMAIN InOrder(S) |-> s[InOrder(S)[k]]]

(* A rule has an answer or, when it does not apply, none. *)
Rule(applies, answer) == IF applies THEN <<answer>> ELSE <<>>

(* The first rule that applies (0: none does), and its answer. *)
Applying(rules) == FirstIn(rules, LAMBDA r : r # <<>>)
Answer(rules) == rules[Applying(rules)][1]
============================================================================
