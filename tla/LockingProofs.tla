---------------------------- MODULE LockingProofs ----------------------------
(***************************************************************************)
(* Proofs about module Locking, for any processes, names, lock files and   *)
(* request lists.  The inductive invariant IInv says which flocks each     *)
(* point of acquire() and release() is entitled to; exclusion, truthful    *)
(* owner records, the ordering argument and the refinement follow from it. *)
(***************************************************************************)
EXTENDS Locking, WellFoundedInduction, TLAPS

(* What kernel and LOCK_UN guarantee: two descriptors on one lock file are  *)
(* both shared.                                                             *)
FlockExclusion ==
  \A p, q \in Procs : \A r \in held[p], s \in held[q] :
    LockFile[r] = LockFile[s] /\ (p # q \/ r # s)
      => Want(p)[r] = "shared" /\ Want(q)[s] = "shared"

HoldsWhatItWants(p) == acquired[p] \subseteq DOMAIN Want(p) /\ held[p] \subseteq DOMAIN Want(p)

HoldsWhatItAcquired(p) ==
  /\ pc[p] \in {"acquiring", "inside", "releasing"} => held[p] = acquired[p]
  /\ pc[p] = "recording" => \E r \in Resources : IsNext(p, r) /\ held[p] = acquired[p] \cup {r}
  /\ pc[p] = "unwinding" => acquired[p] \subseteq held[p]
  /\ pc[p] = "unwinding" /\ error[p] = "busy" => held[p] = acquired[p]

AcquiresUpward(p) ==
  pc[p] \in {"acquiring", "recording"} =>
    \A s \in acquired[p], r \in Pending(p) : s < r

RecordsWhatItAcquired(p) == pc[p] # "gone" => records[p] \subseteq acquired[p]

AtRest(p) ==
  /\ pc[p] = "idle" => asked[p] = {} /\ acquired[p] = {} /\ held[p] = {}
  /\ pc[p] # "idle" => asked[p] \in Requests
  /\ pc[p] = "inside" => Pending(p) = {}
  /\ pc[p] \in {"refused", "released"} => acquired[p] = {}
  /\ pc[p] = "refused" /\ error[p] = "busy" => held[p] = {}

IInv ==
  /\ TypeOK
  /\ FlockExclusion
  /\ \A p \in Procs :
       /\ HoldsWhatItWants(p)
       /\ HoldsWhatItAcquired(p)
       /\ AcquiresUpward(p)
       /\ RecordsWhatItAcquired(p)
       /\ AtRest(p)

------------------------------------------------------------------------------
(* A merged request maps names to modes; a name is exclusive in it as soon as *)
(* one of the requests for that name is.                                      *)
LEMMA MergeLemma ==
  ASSUME NEW reqs \in SUBSET Request
  PROVE  /\ DOMAIN Merge(reqs) = {q.name : q \in reqs}
         /\ DOMAIN Merge(reqs) \subseteq Resources
         /\ \A n \in DOMAIN Merge(reqs) : Merge(reqs)[n] \in Modes
         /\ \A q \in reqs : ~ q.shared => Merge(reqs)[q.name] = "exclusive"
  BY DEF Merge, Request, Modes

(* Type correctness of every step (Lease and LeaseSet, whole file). *)
LEMMA TypeStep == TypeOK /\ [Next]_vars => TypeOK'
  <1> SUFFICES ASSUME TypeOK, [Next]_vars PROVE TypeOK'
    OBVIOUS
  <1> USE DEF TypeOK
  <1>1. CASE UNCHANGED vars
    BY <1>1 DEF vars
  <1>2. ASSUME NEW p \in Procs, Start(p) PROVE TypeOK'
    BY <1>2, RequestsAssumption DEF Start
  <1>3. ASSUME NEW p \in Procs, Step(p) PROVE TypeOK'
    <2>1. CASE Flock(p)
      BY <2>1 DEF Flock
    <2>2. CASE Busy(p)
      BY <2>2 DEF Busy
    <2>3. CASE Record(p)
      BY <2>3 DEF Record
    <2>4. CASE RecordFails(p)
      BY <2>4 DEF RecordFails
    <2>5. CASE Leave(p)
      BY <2>5 DEF Leave
    <2>6. CASE Unlink(p)
      BY <2>6 DEF Unlink
    <2>7. CASE Unlock(p)
      BY <2>7 DEF Unlock
    <2>8. CASE Finish(p)
      BY <2>8 DEF Finish
    <2>9. CASE ReleaseRefused(p)
      BY <2>9 DEF ReleaseRefused
    <2> QED
      BY <1>3, <2>1, <2>2, <2>3, <2>4, <2>5, <2>6, <2>7, <2>8, <2>9 DEF Step
  <1>4. ASSUME NEW p \in Procs, Exit(p) PROVE TypeOK'
    BY <1>4 DEF Exit
  <1> QED
    BY <1>1, <1>2, <1>3, <1>4 DEF Next

LEMMA TypeInit == Init => TypeOK
  BY DEF Init, TypeOK

(* Every variable stays in its type (Lease and LeaseSet). *)
THEOREM TypeCorrect == Spec => []TypeOK
  BY TypeInit, TypeStep, PTL DEF Spec

------------------------------------------------------------------------------
(* The flocks in force after a step are the old ones and, after Flock, one    *)
(* that nothing excluded: FlockExclusion is what the kernel enforces.         *)
LEMMA FlockExclusionStep ==
  ASSUME IInv, [Next]_vars
  PROVE  FlockExclusion'
  <1> USE DEF IInv, TypeOK
  <1>1. CASE asked' = asked /\ \A q \in Procs : held'[q] \subseteq held[q]
    BY <1>1 DEF FlockExclusion, Want
  <1>2. ASSUME NEW p \in Procs, Start(p) PROVE FlockExclusion'
    <2>1. \A q \in Procs : held'[q] # {} => q # p /\ held'[q] = held[q] /\ asked'[q] = asked[q]
      BY <1>2 DEF Start, AtRest
    <2> QED
      BY <2>1 DEF FlockExclusion, Want
  <1>3. ASSUME NEW p \in Procs, Flock(p) PROVE FlockExclusion'
    <2>1. PICK r \in Resources : IsNext(p, r) /\ ~ Blocked(p, r)
                                 /\ held' = [held EXCEPT ![p] = @ \cup {r}]
      BY <1>3 DEF Flock
    <2>2. asked' = asked
      BY <1>3 DEF Flock
    <2>3. \A q \in Procs : \A s \in held[q] :
            LockFile[s] = LockFile[r] => Want(p)[r] # "exclusive" /\ Want(q)[s] # "exclusive"
      BY <2>1 DEF Blocked, HeldAgainst
    <2>4. r \in DOMAIN Want(p)
      BY <2>1 DEF IsNext, Pending
    <2>5. \A q \in Procs : \A s \in DOMAIN Want(q) : Want(q)[s] \in {"shared", "exclusive"}
      BY MergeLemma DEF Want, Modes
    <2>6. \A q \in Procs : \A s \in held[q] :
            LockFile[s] = LockFile[r] => Want(p)[r] = "shared" /\ Want(q)[s] = "shared"
      BY <2>3, <2>4, <2>5 DEF HoldsWhatItWants
    <2>7. \A q \in Procs : held'[q] \subseteq (IF q = p THEN held[q] \cup {r} ELSE held[q])
      BY <2>1
    <2> QED
      BY <2>2, <2>6, <2>7 DEF FlockExclusion, Want
  <1>4. CASE UNCHANGED vars
    BY <1>4, <1>1 DEF vars
  <1>5. ASSUME NEW p \in Procs, Busy(p) \/ Record(p) \/ RecordFails(p) \/ Leave(p)
                                \/ Unlink(p) \/ Finish(p)
        PROVE  FlockExclusion'
    BY <1>5, <1>1 DEF Busy, Record, RecordFails, Leave, Unlink, Finish
  <1>6. ASSUME NEW p \in Procs, Unlock(p) \/ ReleaseRefused(p) \/ Exit(p)
        PROVE  FlockExclusion'
    BY <1>6, <1>1 DEF Unlock, ReleaseRefused, Exit
  <1> QED
    BY <1>2, <1>3, <1>4, <1>5, <1>6 DEF Next, Step

------------------------------------------------------------------------------
(* The invariants of one process, its own variables only. *)
Own(p) ==
  /\ HoldsWhatItWants(p)
  /\ HoldsWhatItAcquired(p)
  /\ AcquiresUpward(p)
  /\ RecordsWhatItAcquired(p)
  /\ AtRest(p)

Untouched(q) ==
  /\ pc'[q] = pc[q] /\ asked'[q] = asked[q] /\ acquired'[q] = acquired[q]
  /\ held'[q] = held[q] /\ records'[q] = records[q] /\ error'[q] = error[q]

LEMMA OwnUntouched ==
  ASSUME NEW q \in Procs, Own(q), Untouched(q)
  PROVE  Own(q)'
  BY DEF Own, Untouched, HoldsWhatItWants, HoldsWhatItAcquired, AcquiresUpward,
         RecordsWhatItAcquired, AtRest, Want, IsNext, Pending

(* A step of p leaves the variables of the other processes alone. *)
LEMMA OthersUntouched ==
  ASSUME TypeOK, NEW p \in Procs, NEW q \in Procs, q # p, Start(p) \/ Step(p) \/ Exit(p)
  PROVE  Untouched(q)
  <1> USE DEF TypeOK, Untouched
  <1>1. CASE Start(p)
    BY <1>1 DEF Start
  <1>2. CASE Step(p)
    BY <1>2 DEF Step, Flock, Busy, Record, RecordFails, Leave, Unlink, Unlock, Finish, ReleaseRefused
  <1>3. CASE Exit(p)
    BY <1>3 DEF Exit
  <1> QED
    BY <1>1, <1>2, <1>3

(* A step of p preserves what is claimed of p. *)
LEMMA OwnStep ==
  ASSUME TypeOK, NEW p \in Procs, Own(p), Start(p) \/ Step(p) \/ Exit(p)
  PROVE  Own(p)'
  <1> USE DEF TypeOK, Own, Want
  <1>1. CASE Start(p)
    BY <1>1 DEF Start, HoldsWhatItWants, HoldsWhatItAcquired, AcquiresUpward,
                RecordsWhatItAcquired, AtRest
  <1>2. CASE Flock(p)
    BY <1>2 DEF Flock, HoldsWhatItWants, HoldsWhatItAcquired, AcquiresUpward,
                RecordsWhatItAcquired, AtRest, IsNext, Pending
  <1>3. CASE Busy(p)
    BY <1>3 DEF Busy, HoldsWhatItWants, HoldsWhatItAcquired, AcquiresUpward,
                RecordsWhatItAcquired, AtRest
  <1>4. CASE Record(p)
    <2>1. PICK r \in Resources :
            /\ IsNext(p, r)
            /\ records' = [records EXCEPT ![p] = @ \cup {r}]
            /\ acquired' = [acquired EXCEPT ![p] = @ \cup {r}]
            /\ pc' = [pc EXCEPT ![p] = IF Pending(p) = {r} THEN "inside" ELSE "acquiring"]
      BY <1>4 DEF Record
    <2>2. pc[p] = "recording" /\ UNCHANGED <<asked, held, error>>
      BY <1>4 DEF Record
    <2>3. Pending(p) \subseteq Int
      <3>1. DOMAIN Merge(asked[p]) \subseteq Resources
        BY MergeLemma
      <3> QED
        BY <3>1, NAssumption DEF Pending, Resources
    <2>4. Pending(p)' = Pending(p) \ {r}
      BY <2>1, <2>2 DEF Pending
    <2>5. PICK s \in Resources : IsNext(p, s) /\ held[p] = acquired[p] \cup {s}
      BY <2>2 DEF HoldsWhatItAcquired
    <2>6. s = r
      BY <2>1, <2>3, <2>5 DEF IsNext
    <2>7. acquired'[p] = acquired[p] \cup {r} /\ held'[p] = acquired'[p]
          /\ records'[p] = records[p] \cup {r} /\ pc'[p] \in {"inside", "acquiring"}
      BY <2>1, <2>2, <2>5, <2>6
    <2>8. HoldsWhatItWants(p)' /\ HoldsWhatItAcquired(p)' /\ RecordsWhatItAcquired(p)'
      BY <2>1, <2>2, <2>7 DEF HoldsWhatItWants, HoldsWhatItAcquired, RecordsWhatItAcquired,
                              IsNext, Pending
    <2>9. AcquiresUpward(p)'
      <3>1. \A t \in acquired[p], u \in Pending(p) : t < u
        BY <2>2 DEF AcquiresUpward
      <3>2. \A u \in Pending(p)' : r < u
        BY <2>1, <2>3, <2>4 DEF IsNext
      <3> QED
        BY <2>4, <2>7, <3>1, <3>2 DEF AcquiresUpward
    <2>10. AtRest(p)'
      BY <2>1, <2>2, <2>4 DEF AtRest
    <2> QED
      BY <2>8, <2>9, <2>10
  <1>5. CASE RecordFails(p)
    BY <1>5 DEF RecordFails, HoldsWhatItWants, HoldsWhatItAcquired, AcquiresUpward,
                RecordsWhatItAcquired, AtRest
  <1>6. CASE Leave(p)
    BY <1>6 DEF Leave, HoldsWhatItWants, HoldsWhatItAcquired, AcquiresUpward,
                RecordsWhatItAcquired, AtRest
  <1>7. CASE Unlink(p)
    BY <1>7 DEF Unlink, HoldsWhatItWants, HoldsWhatItAcquired, AcquiresUpward,
                RecordsWhatItAcquired, AtRest
  <1>8. CASE Unlock(p)
    BY <1>8 DEF Unlock, HoldsWhatItWants, HoldsWhatItAcquired, AcquiresUpward,
                RecordsWhatItAcquired, AtRest
  <1>9. CASE Finish(p)
    BY <1>9 DEF Finish, HoldsWhatItWants, HoldsWhatItAcquired, AcquiresUpward,
                RecordsWhatItAcquired, AtRest
  <1>10. CASE ReleaseRefused(p)
    BY <1>10 DEF ReleaseRefused, HoldsWhatItWants, HoldsWhatItAcquired, AcquiresUpward,
                 RecordsWhatItAcquired, AtRest
  <1>11. CASE Exit(p)
    BY <1>11 DEF Exit, HoldsWhatItWants, HoldsWhatItAcquired, AcquiresUpward,
                 RecordsWhatItAcquired, AtRest
  <1> QED
    BY <1>1, <1>2, <1>3, <1>4, <1>5, <1>6, <1>7, <1>8, <1>9, <1>10, <1>11 DEF Step

LEMMA IInvInit == Init => IInv
  <1> SUFFICES ASSUME Init PROVE IInv
    OBVIOUS
  <1>1. TypeOK
    BY TypeInit
  <1>2. \A p \in Procs : held[p] = {} /\ acquired[p] = {} /\ records[p] = {} /\ asked[p] = {} /\ pc[p] = "idle"
    BY DEF Init
  <1> QED
    BY <1>1, <1>2 DEF IInv, FlockExclusion, HoldsWhatItWants, HoldsWhatItAcquired, AcquiresUpward,
                      RecordsWhatItAcquired, AtRest

LEMMA IInvStep == IInv /\ [Next]_vars => IInv'
  <1> SUFFICES ASSUME IInv, [Next]_vars PROVE IInv'
    OBVIOUS
  <1>1. TypeOK'
    BY TypeStep DEF IInv
  <1>2. FlockExclusion'
    BY FlockExclusionStep
  <1>3. \A q \in Procs : Own(q)
    BY DEF IInv, Own
  <1>4. ASSUME NEW q \in Procs PROVE Own(q)'
    <2>1. CASE UNCHANGED vars
      BY <2>1, <1>3, OwnUntouched DEF vars, Untouched
    <2>2. ASSUME NEW p \in Procs, Start(p) \/ Step(p) \/ Exit(p) PROVE Own(q)'
      <3>1. CASE q = p
        BY <3>1, <2>2, <1>3, OwnStep DEF IInv
      <3>2. CASE q # p
        BY <3>2, <2>2, <1>3, OthersUntouched, OwnUntouched DEF IInv
      <3> QED
        BY <3>1, <3>2
    <2> QED
      BY <2>1, <2>2 DEF Next
  <1> QED
    BY <1>1, <1>2, <1>4 DEF IInv, Own

(* IInv holds in every reachable state. *)
THEOREM Invariance == Spec => []IInv
  BY IInvInit, IInvStep, PTL DEF Spec

------------------------------------------------------------------------------
(* LeaseSet.acquire excludes: no two processes with clashing request lists    *)
(* are past it, whatever failed or died before.                               *)
THEOREM Exclusion == Spec => []InsideExclusion
  <1>1. ASSUME IInv, NEW p \in Procs, NEW q \in Procs,
               p # q, pc[p] = "inside", pc[q] = "inside", Clash(p, q)
        PROVE  FALSE
    <2>1. asked[p] \in SUBSET Request /\ asked[q] \in SUBSET Request
      BY <1>1 DEF IInv, TypeOK
    <2>2. PICK a \in asked[p], b \in asked[q] : a.name = b.name /\ ~ (a.shared /\ b.shared)
      BY <1>1 DEF Clash
    <2>3. held[p] = DOMAIN Want(p) /\ held[q] = DOMAIN Want(q)
      BY <1>1 DEF IInv, HoldsWhatItWants, HoldsWhatItAcquired, AtRest, Pending
    <2>4. a.name \in held[p] /\ b.name \in held[q]
      BY <2>1, <2>2, <2>3, MergeLemma DEF Want
    <2>5. Want(p)[a.name] = "shared" /\ Want(q)[b.name] = "shared"
      BY <1>1, <2>2, <2>4 DEF IInv, FlockExclusion
    <2>6. a.shared \in BOOLEAN /\ b.shared \in BOOLEAN
      BY <2>1, <2>2 DEF Request
    <2> QED
      BY <2>1, <2>2, <2>5, <2>6, MergeLemma DEF Want
  <1>2. IInv => InsideExclusion
    BY <1>1 DEF InsideExclusion
  <1> QED
    BY Invariance, <1>2, PTL

(* The owner record of a living process is backed by the lock it names        *)
(* (Lease.acquire writes it after flock, Lease.release unlinks it first).     *)
THEOREM TruthfulRecords == Spec => []RecordsTruthful
  <1>1. IInv => RecordsTruthful
    <2> SUFFICES ASSUME IInv, NEW p \in Procs, pc[p] # "gone" PROVE records[p] \subseteq held[p]
      BY DEF RecordsTruthful
    <2>1. records[p] \subseteq acquired[p]
      BY DEF IInv, RecordsWhatItAcquired
    <2>2. acquired[p] \subseteq held[p]
      BY DEF IInv, TypeOK, HoldsWhatItAcquired, AtRest
    <2> QED
      BY <2>1, <2>2
  <1> QED
    BY Invariance, <1>1, PTL

(* A LeaseSet.acquire that raised ResourceBusy holds nothing.                 *)
THEOREM Unwound == Spec => []RefusedHoldsNothing
  <1>1. IInv => RefusedHoldsNothing
    BY DEF IInv, RefusedHoldsNothing, AtRest, RecordsWhatItAcquired
  <1> QED
    BY Invariance, <1>1, PTL

------------------------------------------------------------------------------
(* When no two names share a lock file, sorted(merged) is one order for all.  *)
OwnLockFiles == \A r, s \in Resources : LockFile[r] = LockFile[s] => r = s

LEMMA UpwardLemma == OwnLockFiles /\ IInv => WaitsUpward
  <1> SUFFICES ASSUME OwnLockFiles, IInv, NEW p \in Procs, NEW q \in Procs, WaitsFor(p, q)
               PROVE  /\ \A r \in Resources, s \in held[p] : IsNext(p, r) => s < r
                      /\ \A r, s \in Resources :
                           pc[q] = "acquiring" /\ IsNext(p, r) /\ IsNext(q, s) => r < s
    BY DEF WaitsUpward
  <1>1. PICK t \in Resources : IsNext(p, t) /\ HeldAgainst(p, q, t)
    BY DEF WaitsFor
  <1>2. t \in held[q]
    BY <1>1 DEF HeldAgainst, OwnLockFiles, IInv, TypeOK
  <1>3. \A r \in Resources, s \in held[p] : IsNext(p, r) => s < r
    BY DEF WaitsFor, IInv, HoldsWhatItAcquired, AcquiresUpward, IsNext
  <1>4. ASSUME NEW r \in Resources, NEW s \in Resources,
               pc[q] = "acquiring", IsNext(p, r), IsNext(q, s)
        PROVE  r < s
    <2>1. r = t
      BY <1>1, <1>4, NAssumption DEF IsNext, Resources
    <2>2. t \in acquired[q]
      BY <1>2, <1>4 DEF IInv, HoldsWhatItAcquired
    <2> QED
      BY <1>4, <2>1, <2>2 DEF IInv, AcquiresUpward, IsNext
  <1> QED
    BY <1>3, <1>4

(* Waiting goes up in name order (LeaseSet sorts its leases).                 *)
THEOREM Upward == OwnLockFiles /\ Spec => []WaitsUpward
  <1>1. SUFFICES ASSUME OwnLockFiles PROVE Spec => []WaitsUpward
    OBVIOUS
  <1>2. IInv => WaitsUpward
    BY <1>1, UpwardLemma
  <1> QED
    BY Invariance, <1>2, PTL

------------------------------------------------------------------------------
(* A non-empty set of names has a greatest one.                               *)
LEMMA Greatest ==
  ASSUME NEW T \in SUBSET Resources, T # {}
  PROVE  \E m \in T : \A t \in T : t <= m
  <1> DEFINE U == {N - t : t \in T}
  <1>1. U \subseteq Nat /\ U # {}
    BY NAssumption DEF Resources
  <1>2. PICK u \in U : \A v \in U : ~ (<<v, u>> \in OpToRel(<, Nat))
    <2> HIDE DEF U
    <2> QED
      BY <1>1, NatLessThanWellFounded, WFMin, Zenon
  <1>3. \A v \in U : ~ (v < u)
    BY <1>1, <1>2, Zenon DEF OpToRel
  <1>4. PICK m \in T : u = N - m
    OBVIOUS
  <1>5. \A t \in T : t <= m
    <2> TAKE t \in T
    <2>1. ~ (N - t < N - m)
      BY <1>3, <1>4
    <2> QED
      BY <2>1, NAssumption DEF Resources
  <1> QED
    BY <1>4, <1>5

(* No set of --blocking processes is left waiting for its own members: the    *)
(* one that waits for the greatest name would have to wait for a still        *)
(* greater one (LeaseSet.__init__ sorts, LeaseSet.acquire goes in that order). *)
THEOREM DeadlockFreedom == OwnLockFiles /\ Spec => []NoDeadlock
  <1>1. SUFFICES ASSUME OwnLockFiles PROVE Spec => []NoDeadlock
    OBVIOUS
  <1>2. ASSUME IInv, NEW S \in (SUBSET Procs) \ {{}},
               \A p \in S : \E q \in S : WaitsFor(p, q)
        PROVE  FALSE
    <2> DEFINE T == {r \in Resources : \E p \in S : IsNext(p, r)}
    <2>1. WaitsUpward
      BY <1>1, <1>2, UpwardLemma
    <2>2. T # {}
      BY <1>2 DEF WaitsFor
    <2>3. PICK m \in T : \A t \in T : t <= m
      BY <2>2, Greatest
    <2>4. PICK p \in S : IsNext(p, m)
      BY <2>3
    <2>5. PICK q \in S : WaitsFor(p, q)
      BY <1>2
    <2>6. PICK o \in S : WaitsFor(q, o)
      BY <1>2
    <2>7. PICK n \in Resources : IsNext(q, n)
      BY <2>6 DEF WaitsFor
    <2>8. m < n
      BY <2>1, <2>3, <2>4, <2>5, <2>6, <2>7 DEF WaitsUpward, WaitsFor
    <2>9. n <= m
      BY <2>3, <2>7
    <2> QED
      BY <2>3, <2>8, <2>9, NAssumption DEF Resources
  <1>3. IInv => NoDeadlock
    BY <1>2 DEF NoDeadlock
  <1> QED
    BY Invariance, <1>3, PTL

------------------------------------------------------------------------------
(* The claims of module LeaseSpec, computed from a state of this one. *)
claims == [p \in Procs |-> Claim(p)]

LEMMA ClaimInit == Init => Abstract!Init
  BY DEF Init, Abstract!Init, Claim, Abstract!NoClaim

(* Claims change only when a process comes inside or leaves the inside. *)
LEMMA ClaimsUnchanged ==
  ASSUME \A q \in Procs : pc'[q] = "inside" <=> pc[q] = "inside",
         \A q \in Procs : pc[q] = "inside" => asked'[q] = asked[q]
  PROVE  claims' = claims
  BY DEF claims, Claim, Want

(* The claim of a process inside is one of Claims and not the empty one. *)
LEMMA InsideClaim ==
  ASSUME NEW reqs \in Requests
  PROVE  Merge(reqs) # [r \in {} |-> "shared"]
  <1>1. reqs \in SUBSET Request /\ reqs # {}
    BY RequestsAssumption
  <1>2. DOMAIN Merge(reqs) = {q.name : q \in reqs}
    BY <1>1, MergeLemma
  <1>3. PICK q \in reqs : TRUE
    BY <1>1
  <1>4. q.name \in DOMAIN Merge(reqs)
    BY <1>2
  <1> QED
    BY <1>4

(* LeaseSet.acquire returns: its claim conflicts with none in force. *)
LEMMA EnterStep ==
  ASSUME IInv, IInv', NEW p \in Procs, Record(p), pc'[p] = "inside"
  PROVE  Abstract!Enter(p)
  <1> USE DEF IInv, TypeOK
  <1>1. pc[p] = "recording" /\ asked' = asked /\ \A q \in Procs \ {p} : pc'[q] = pc[q]
    BY DEF Record
  <1>2. asked[p] \in Requests
    BY <1>1 DEF AtRest
  <1>3. claims[p] = Abstract!NoClaim
    BY <1>1 DEF claims, Claim, Abstract!NoClaim
  <1>4. claims' = [claims EXCEPT ![p] = Want(p)]
    BY <1>1 DEF claims, Claim, Want
  <1>5. ASSUME NEW q \in Procs \ {p} PROVE ~ Abstract!Conflict(Want(p), claims[q])
    <2>1. CASE pc[q] = "inside"
      <3>1. claims[q] = Want(q)
        BY <2>1 DEF claims, Claim
      <3>2. Want(p)' = Want(p) /\ Want(q)' = Want(q)
        BY <1>1 DEF Want
      <3>3. held'[p] = DOMAIN Want(p) /\ held'[q] = DOMAIN Want(q)
        BY <1>1, <2>1, <3>2
           DEF HoldsWhatItWants, HoldsWhatItAcquired, AtRest, Pending
      <3>4. \A r \in DOMAIN Want(p) \cap DOMAIN Want(q) :
              Want(p)[r] = "shared" /\ Want(q)[r] = "shared"
        BY <3>2, <3>3 DEF FlockExclusion
      <3> QED
        BY <3>1, <3>4 DEF Abstract!Conflict
    <2>2. CASE pc[q] # "inside"
      BY <2>2 DEF claims, Claim, Abstract!Conflict
    <2> QED
      BY <2>1, <2>2
  <1> QED
    BY <1>2, <1>3, <1>4, <1>5 DEF Abstract!Enter, claims, Want

(* A process comes out, by release() or by dying: its claim is dropped. *)
LEMMA LeaveStep ==
  ASSUME IInv, NEW p \in Procs, Leave(p) \/ Exit(p), pc[p] = "inside"
  PROVE  Abstract!Leave(p)
  <1> USE DEF IInv, TypeOK
  <1>1. asked' = asked /\ pc'[p] # "inside" /\ \A q \in Procs \ {p} : pc'[q] = pc[q]
    BY DEF Leave, Exit
  <1>2. asked[p] \in Requests
    BY DEF AtRest
  <1>3. claims[p] # Abstract!NoClaim
    BY <1>2, InsideClaim DEF claims, Claim, Want, Abstract!NoClaim
  <1>4. claims' = [claims EXCEPT ![p] = Abstract!NoClaim]
    BY <1>1 DEF claims, Claim, Want, Abstract!NoClaim
  <1> QED
    BY <1>3, <1>4 DEF Abstract!Leave, claims

LEMMA ClaimStep ==
  ASSUME IInv, IInv', [Next]_vars
  PROVE  Abstract!Next \/ claims' = claims
  <1> USE DEF IInv, TypeOK
  <1>1. CASE UNCHANGED vars
    BY <1>1, ClaimsUnchanged DEF vars
  <1>2. ASSUME NEW p \in Procs, Start(p) PROVE claims' = claims
    BY <1>2, ClaimsUnchanged DEF Start
  <1>3. ASSUME NEW p \in Procs, Step(p) PROVE Abstract!Next \/ claims' = claims
    <2>1. CASE Record(p)
      <3>1. CASE pc'[p] = "inside"
        BY <2>1, <3>1, EnterStep DEF Abstract!Next
      <3>2. CASE pc'[p] # "inside"
        BY <2>1, <3>2, ClaimsUnchanged DEF Record
      <3> QED
        BY <3>1, <3>2
    <2>2. CASE Leave(p)
      BY <2>2, LeaveStep DEF Leave, Abstract!Next
    <2>3. CASE Flock(p) \/ Busy(p) \/ RecordFails(p)
      BY <2>3, ClaimsUnchanged DEF Flock, Busy, RecordFails
    <2>4. CASE Unlink(p) \/ Unlock(p)
      BY <2>4, ClaimsUnchanged DEF Unlink, Unlock
    <2>5. CASE Finish(p) \/ ReleaseRefused(p)
      BY <2>5, ClaimsUnchanged DEF Finish, ReleaseRefused
    <2> QED
      BY <1>3, <2>1, <2>2, <2>3, <2>4, <2>5 DEF Step
  <1>4. ASSUME NEW p \in Procs, Exit(p) PROVE Abstract!Next \/ claims' = claims
    <2>1. CASE pc[p] = "inside"
      BY <1>4, <2>1, LeaveStep DEF Abstract!Next
    <2>2. CASE pc[p] # "inside"
      BY <1>4, <2>2, ClaimsUnchanged DEF Exit
    <2> QED
      BY <2>1, <2>2
  <1> QED
    BY <1>1, <1>2, <1>3, <1>4 DEF Next

(* Locking implements LeaseSpec: taking the locks one by one, in any          *)
(* interleaving with failures and deaths, is taking the set at once.          *)
THEOREM Refinement == Spec => ImplementsLeaseSpec
  <1>1. IInv /\ IInv' /\ [Next]_vars => [Abstract!Next]_claims
    BY ClaimStep
  <1> QED
    BY ClaimInit, <1>1, Invariance, PTL DEF Spec, ImplementsLeaseSpec, Abstract!Spec, claims
==============================================================================
