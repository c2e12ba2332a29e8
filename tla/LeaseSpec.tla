------------------------------ MODULE LeaseSpec ------------------------------
(***************************************************************************)
(* What a LeaseSet of src/my_jev/locking.py promises to its callers: a     *)
(* claim on several named resources is taken as a whole, and two claims    *)
(* that conflict on some resource are never in force together.  The order  *)
(* in which the single leases are taken, the owner records, the busy and   *)
(* failing attempts are the business of module Locking, which implements   *)
(* this one.                                                               *)
(***************************************************************************)
EXTENDS Integers

CONSTANTS
  Procs,      \* the processes that take leases
  Resources,  \* the resource names
  Claims      \* the merged requests a process may hold: functions from some of the
              \* Resources to "shared" or "exclusive"

\* A claim maps each requested resource to its mode; nobody holds the empty one.
NoClaim == [r \in {} |-> "shared"]

\* flock: shared is compatible with shared, everything else conflicts.
Conflict(c, d) ==
  \E r \in DOMAIN c \cap DOMAIN d : c[r] = "exclusive" \/ d[r] = "exclusive"

VARIABLE claim   \* the claim each process has in force

Init == claim = [p \in Procs |-> NoClaim]

\* LeaseSet.acquire returned to p.
Enter(p) ==
  /\ claim[p] = NoClaim
  /\ \E c \in Claims :
       /\ \A q \in Procs \ {p} : ~ Conflict(c, claim[q])
       /\ claim' = [claim EXCEPT ![p] = c]

\* p released its LeaseSet, or died.
Leave(p) ==
  /\ claim[p] # NoClaim
  /\ claim' = [claim EXCEPT ![p] = NoClaim]

Next == \E p \in Procs : Enter(p) \/ Leave(p)

Spec == Init /\ [][Next]_claim
==============================================================================
