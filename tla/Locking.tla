------------------------------- MODULE Locking -------------------------------
(***************************************************************************)
(* Lease and LeaseSet of src/my_jev/locking.py: processes that take        *)
(* flock-backed leases on several named resources, in the sorted order of  *)
(* the names, each lease leaving an owner record under                     *)
(* <lock_dir>/owners/<name>/.  A process takes one LeaseSet in its life.   *)
(*                                                                         *)
(* A resource is its position in sorted(merged), so Resources == 1 .. N.   *)
(* The lock a process holds is an open descriptor: the kernel drops it     *)
(* when the process ends, however it ends.  The owner record is a file and *)
(* survives its writer.                                                    *)
(***************************************************************************)
EXTENDS Integers

CONSTANTS
  Procs,     \* processes: experiment runners and inventory probes
  N,         \* number of resource names
  LockFile,  \* the lock file of each name: _safe_name may map two names to one
  Requests   \* the request lists LeaseSet is called with, as sets of requests

Resources == 1 .. N

Modes == {"shared", "exclusive"}

\* ResourceRequest(name, shared)
Request == [name : Resources, shared : BOOLEAN]

ASSUME NAssumption == N \in Nat
ASSUME LockFileAssumption == LockFile \in [Resources -> Nat]
ASSUME RequestsAssumption == Requests \subseteq (SUBSET Request) \ {{}}

VARIABLES
  pc,        \* where each process is in acquire() and release()
  asked,     \* the request list of its LeaseSet
  blocking,  \* the argument of acquire()
  acquired,  \* the local list `acquired`: leases whose acquire() returned
  held,      \* the flocks the process holds, in the mode the merged request asks for
  records,   \* its owner records on disk
  error      \* what made acquire() fail

vars == <<pc, asked, blocking, acquired, held, records, error>>

------------------------------------------------------------------------------
(* LeaseSet.__init__: one request per name, an exclusive one wins. *)

\* mutant: the laxer of two requests for a name wins
MergeLaxly(reqs) ==
  [n \in {q.name : q \in reqs} |->
     IF \E q \in reqs : q.name = n /\ q.shared THEN "shared" ELSE "exclusive"]

Merge(reqs) ==
  [n \in {q.name : q \in reqs} |->
     IF \E q \in reqs : q.name = n /\ ~ q.shared THEN "exclusive" ELSE "shared"]

Want(p) == Merge(asked[p])

\* A lease that is still to be acquired, and the first of them in name order.
Pending(p) == DOMAIN Want(p) \ acquired[p]

\* mutant: the leases are not sorted
InAnyOrder(p, r) == r \in Pending(p)

IsNext(p, r) == r \in Pending(p) /\ \A s \in Pending(p) : r <= s

\* The lease reversed(...) releases next.
IsLast(p, r) == r \in acquired[p] /\ \A s \in acquired[p] : s <= r

\* A descriptor q holds on r's lock file excludes the mode p asks for; it may
\* be p's own, when two of its names share a lock file.
HeldAgainst(p, q, r) ==
  \E s \in held[q] :
    /\ LockFile[s] = LockFile[r]
    /\ Want(p)[r] = "exclusive" \/ Want(q)[s] = "exclusive"

Blocked(p, r) == \E q \in Procs : HeldAgainst(p, q, r)

------------------------------------------------------------------------------
Init ==
  /\ pc = [p \in Procs |-> "idle"]
  /\ asked = [p \in Procs |-> {}]
  /\ blocking = [p \in Procs |-> FALSE]
  /\ acquired = [p \in Procs |-> {}]
  /\ held = [p \in Procs |-> {}]
  /\ records = [p \in Procs |-> {}]
  /\ error = [p \in Procs |-> "none"]

\* LeaseSet(lock_dir, reqs).acquire(blocking=b)
Start(p) ==
  /\ pc[p] = "idle"
  /\ \E reqs \in Requests : asked' = [asked EXCEPT ![p] = reqs]
  /\ \E b \in BOOLEAN : blocking' = [blocking EXCEPT ![p] = b]
  /\ pc' = [pc EXCEPT ![p] = "acquiring"]
  /\ UNCHANGED <<acquired, held, records, error>>

\* Lease.acquire: flock succeeds.
Flock(p) ==
  /\ pc[p] = "acquiring"
  /\ \E r \in Resources :
       /\ IsNext(p, r)
       /\ ~ Blocked(p, r)
       /\ held' = [held EXCEPT ![p] = @ \cup {r}]
  /\ pc' = [pc EXCEPT ![p] = "recording"]
  /\ UNCHANGED <<asked, blocking, acquired, records, error>>

\* mutant: the BlockingIOError of flock is not translated to ResourceBusy
BusyUntranslated(p) ==
  /\ pc[p] = "acquiring"
  /\ ~ blocking[p]
  /\ \E r \in Resources : IsNext(p, r) /\ Blocked(p, r)
  /\ pc' = [pc EXCEPT ![p] = "unwinding"]
  /\ error' = [error EXCEPT ![p] = "blockingioerror"]
  /\ UNCHANGED <<asked, blocking, acquired, held, records>>

\* Lease.acquire: LOCK_NB refuses, ResourceBusy is raised and LeaseSet unwinds.
Busy(p) ==
  /\ pc[p] = "acquiring"
  /\ ~ blocking[p]
  /\ \E r \in Resources : IsNext(p, r) /\ Blocked(p, r)
  /\ pc' = [pc EXCEPT ![p] = "unwinding"]
  /\ error' = [error EXCEPT ![p] = "busy"]
  /\ UNCHANGED <<asked, blocking, acquired, held, records>>

\* mutant: acquire() returns after the first lease
RecordOnlyFirst(p) ==
  /\ pc[p] = "recording"
  /\ \E r \in Resources :
       /\ IsNext(p, r)
       /\ records' = [records EXCEPT ![p] = @ \cup {r}]
       /\ acquired' = [acquired EXCEPT ![p] = @ \cup {r}]
       /\ pc' = [pc EXCEPT ![p] = "inside"]
  /\ UNCHANGED <<asked, blocking, held, error>>

\* Lease.acquire writes the owner record and returns.
Record(p) ==
  /\ pc[p] = "recording"
  /\ \E r \in Resources :
       /\ IsNext(p, r)
       /\ records' = [records EXCEPT ![p] = @ \cup {r}]
       /\ acquired' = [acquired EXCEPT ![p] = @ \cup {r}]
       /\ pc' = [pc EXCEPT ![p] = IF Pending(p) = {r} THEN "inside" ELSE "acquiring"]
  /\ UNCHANGED <<asked, blocking, held, error>>

\* The owner record cannot be written: acquire() raises with the descriptor
\* open, and the lease is not in `acquired`, so unwinding does not close it.
RecordFails(p) ==
  /\ pc[p] = "recording"
  /\ pc' = [pc EXCEPT ![p] = "unwinding"]
  /\ error' = [error EXCEPT ![p] = "oserror"]
  /\ UNCHANGED <<asked, blocking, acquired, held, records>>

\* The caller is done and calls LeaseSet.release.
Leave(p) ==
  /\ pc[p] = "inside"
  /\ pc' = [pc EXCEPT ![p] = "releasing"]
  /\ UNCHANGED <<asked, blocking, acquired, held, records, error>>

\* Lease.release, first half: the owner record is unlinked under the lock.
Unlink(p) ==
  /\ pc[p] \in {"releasing", "unwinding"}
  /\ \E r \in Resources :
       /\ IsLast(p, r)
       /\ r \in records[p]
       /\ records' = [records EXCEPT ![p] = @ \ {r}]
  /\ UNCHANGED <<pc, asked, blocking, acquired, held, error>>

\* mutant: the lock goes before the record
UnlockFirst(p) ==
  /\ pc[p] \in {"releasing", "unwinding"}
  /\ \E r \in Resources :
       /\ IsLast(p, r)
       /\ held' = [held EXCEPT ![p] = @ \ {r}]
       /\ acquired' = [acquired EXCEPT ![p] = @ \ {r}]
  /\ UNCHANGED <<pc, asked, blocking, records, error>>

\* Lease.release, second half: LOCK_UN and close.
Unlock(p) ==
  /\ pc[p] \in {"releasing", "unwinding"}
  /\ \E r \in Resources :
       /\ IsLast(p, r)
       /\ r \notin records[p]
       /\ held' = [held EXCEPT ![p] = @ \ {r}]
       /\ acquired' = [acquired EXCEPT ![p] = @ \ {r}]
  /\ UNCHANGED <<pc, asked, blocking, records, error>>

\* mutant: acquire() raises without unwinding the leases it has
FinishAtOnce(p) ==
  /\ pc[p] \in {"releasing", "unwinding"}
  /\ pc' = [pc EXCEPT ![p] = IF @ = "releasing" THEN "released" ELSE "refused"]
  /\ UNCHANGED <<asked, blocking, acquired, held, records, error>>

\* All leases are released: release() returns, or acquire() raises.
Finish(p) ==
  /\ pc[p] \in {"releasing", "unwinding"}
  /\ acquired[p] = {}
  /\ pc' = [pc EXCEPT ![p] = IF @ = "releasing" THEN "released" ELSE "refused"]
  /\ UNCHANGED <<asked, blocking, acquired, held, records, error>>

\* A caller whose acquire() raised may still call release(): gpu_inventory does,
\* in a finally clause; Lease.release then closes a descriptor left open.
ReleaseRefused(p) ==
  /\ pc[p] = "refused"
  /\ held' = [held EXCEPT ![p] = {}]
  /\ pc' = [pc EXCEPT ![p] = "released"]
  /\ UNCHANGED <<asked, blocking, acquired, records, error>>

\* The process ends, normally or not, and the kernel closes its descriptors.
Exit(p) ==
  /\ pc[p] \notin {"idle", "gone"}
  /\ held' = [held EXCEPT ![p] = {}]
  /\ pc' = [pc EXCEPT ![p] = "gone"]
  /\ UNCHANGED <<asked, blocking, acquired, records, error>>

Step(p) ==
  \/ Flock(p) \/ Busy(p) \/ Record(p) \/ RecordFails(p) \/ Leave(p)
  \/ Unlink(p) \/ Unlock(p) \/ Finish(p) \/ ReleaseRefused(p)

Next == \E p \in Procs : Start(p) \/ Step(p) \/ Exit(p)

Spec == Init /\ [][Next]_vars

\* A process that started keeps running: it leaves what it entered, and the
\* kernel grants a lock that stays free.
Fairness ==
  /\ \A p \in Procs : WF_vars(Step(p))
  /\ \A p \in Procs : WF_vars(pc[p] \in {"released", "refused"} /\ Exit(p))

FairSpec == Spec /\ Fairness

------------------------------------------------------------------------------
(* Type invariant: every variable holds what the code can put there. *)
TypeOK ==
  /\ pc \in [Procs -> {"idle", "acquiring", "recording", "inside", "releasing",
                       "unwinding", "released", "refused", "gone"}]
  /\ asked \in [Procs -> SUBSET Request]
  /\ blocking \in [Procs -> BOOLEAN]
  /\ acquired \in [Procs -> SUBSET Resources]
  /\ held \in [Procs -> SUBSET Resources]
  /\ records \in [Procs -> SUBSET Resources]
  /\ error \in [Procs -> {"none", "busy", "oserror"}]

Clash(p, q) ==
  \E a \in asked[p], b \in asked[q] : a.name = b.name /\ ~ (a.shared /\ b.shared)

(* Two processes whose request lists clash on a name are never both past        *)
(* LeaseSet.acquire, although each lock is taken on its own, attempts fail    *)
(* half-way and processes die (locking.py, LeaseSet.acquire).                 *)
InsideExclusion ==
  \A p, q \in Procs :
    p # q /\ pc[p] = "inside" /\ pc[q] = "inside" => ~ Clash(p, q)

(* The owner record of a living process is true: it exists only while the     *)
(* process holds that lock, since acquire() writes it after flock and         *)
(* release() unlinks it before LOCK_UN.  Hence nobody sees two living owners  *)
(* of an exclusive lease.                                                     *)
RecordsTruthful ==
  \A p \in Procs : pc[p] # "gone" => records[p] \subseteq held[p]

(* An acquire() that raised leaves no owner record, and keeps a lock only     *)
(* when writing the record itself failed.                                     *)
RefusedHoldsNothing ==
  \A p \in Procs : pc[p] = "refused" =>
    /\ records[p] = {}
    /\ error[p] = "busy" => held[p] = {}

WaitsFor(p, q) ==
  /\ pc[p] = "acquiring" /\ blocking[p]
  /\ \E r \in Resources : IsNext(p, r) /\ HeldAgainst(p, q, r)

(* No set of blocked processes waits only for its own members: sorted(merged) *)
(* gives every process one order, so --blocking runs do not deadlock.         *)
NoDeadlock ==
  \A S \in (SUBSET Procs) \ {{}} :
    ~ \A p \in S : \E q \in S : WaitsFor(p, q)

(* A process waiting for another one waits for a name beyond the ones it      *)
(* holds; so along a chain of waiting processes the names grow.               *)
WaitsUpward ==
  \A p, q \in Procs :
    WaitsFor(p, q) =>
      /\ \A r \in Resources, s \in held[p] : IsNext(p, r) => s < r
      /\ \A r, s \in Resources :
           pc[q] = "acquiring" /\ IsNext(p, r) /\ IsNext(q, s) => r < s

(* Every call of acquire() returns or raises, and its caller ends: a waiting  *)
(* process gets its locks, as the holders before it finish.                   *)
EveryoneFinishes == \A p \in Procs : pc[p] = "acquiring" ~> pc[p] = "gone"

------------------------------------------------------------------------------
(* A process holds its claim from the return of acquire() to release(). *)

Claim(p) == IF pc[p] = "inside" THEN Want(p) ELSE [r \in {} |-> "shared"]

Abstract == INSTANCE LeaseSpec WITH
  Claims <- {Merge(reqs) : reqs \in Requests},
  claim <- [p \in Procs |-> Claim(p)]

(* Taking locks one at a time in name order behaves as taking the whole set   *)
(* of them at once.                                                           *)
ImplementsLeaseSpec == Abstract!Spec
==============================================================================
