------------------------------ MODULE MCLocking ------------------------------
(* The lease sets this repository takes, on one pool of two cards. *)
EXTENDS Locking, TLC

CONSTANTS p1, p2, p3

MCProcs == {p1, p2, p3}
TwoProcs == {p1, p2}

\* sorted names: datasets, gpu, gpu:cuda:0, gpu:cuda:1
Shared(n) == [name |-> n, shared |-> TRUE]
Exclusive(n) == [name |-> n, shared |-> FALSE]

MCRequests == {
  {Shared(1), Exclusive(2)},             \* a run with no device
  {Shared(1), Shared(2), Exclusive(3)},  \* a run on cuda:0
  {Shared(2), Exclusive(4)},             \* an inventory probe of cuda:1
  {Shared(2), Exclusive(2)} }            \* one name twice: the exclusive one wins

\* These names have lock files of their own; "a:b" and "a-b" would not.
MCLockFile == [n \in Resources |-> n]

Symmetry == Permutations(MCProcs)
==============================================================================
