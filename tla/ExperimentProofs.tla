-------------------------- MODULE ExperimentProofs --------------------------
(***************************************************************************)
(* Proofs about module Experiment, for any number of runs, specifications, *)
(* cards and scores, with runners that fail at any step and die.           *)
(* ExperimentInv says what the registry, the run directory and the leases  *)
(* hold for a run at each point of run_experiment.                         *)
(***************************************************************************)
EXTENDS Experiment, FiniteSetTheorems, SequenceTheorems, WellFoundedInduction, TLAPS

(* The variables are functions on the runs. *)
Shape ==
  /\ DOMAIN pc = Runs /\ DOMAIN config = Runs /\ DOMAIN created = Runs /\ DOMAIN parent = Runs
  /\ DOMAIN access = Runs /\ DOMAIN snapshot = Runs /\ DOMAIN claim = Runs
  /\ DOMAIN stage = Runs /\ DOMAIN child = Runs
  /\ DOMAIN files = Runs /\ DOMAIN score = Runs /\ DOMAIN verdict = Runs
  /\ DOMAIN registry \subseteq Runs /\ claim = [r \in Runs |-> claim[r]]

IsEntry(e) ==
  e = [status |-> e.status, promoted |-> e.promoted, parent |-> e.parent,
       created |-> e.created, data |-> e.data, benchmark |-> e.benchmark]

(* One runner at a time uses the registry, and what it loaded is the file. *)
RegistryLease ==
  /\ \A r \in Runs : access[r] = "open" => snapshot[r] = registry
  /\ \A r, q \in Runs : r # q => access[r] = "none" \/ access[q] = "none"
  /\ \A r \in DOMAIN registry : IsEntry(registry[r])

InTry == {"leasing", "stages", "judging", "closing", "handling"}

(* What the registry says of a run, and what it has leased. *)
RunOK(r) ==
  /\ access[r] = "open" => pc[r] \in {"registering", "dry", "closing", "handling"}
  /\ pc[r] # "idle" => config[r] \in Configs
  /\ pc[r] \in {"idle", "registering"} => r \notin DOMAIN registry
  /\ pc[r] \in {"manifest", "planning", "dry", "reporting"} \cup InTry => r \in DOMAIN registry
  /\ r \in DOMAIN registry =>
       registry[r].parent = parent[r] /\ registry[r].data = config[r].data
  /\ pc[r] = "dry" => config[r].dry
  /\ pc[r] \in {"manifest", "planning", "dry"} =>
       registry[r].status = IF config[r].dry THEN "dry_run" ELSE "running"
  /\ pc[r] \in InTry => registry[r].status = "running"
  /\ pc[r] = "reporting" => registry[r].status = "failed"
  /\ "failure" \in files[r] =>
       pc[r] = "exited" /\ r \in DOMAIN registry /\ registry[r].status = "failed"
  /\ child[r] # "none" => pc[r] \in {"stages", "dead"} /\ child[r] \in Stages
  /\ claim[r] = IF pc[r] = "stages" THEN Claim(config[r], r) ELSE Leases!NoClaim

Artifacts(c) == {Artifact[s] : s \in CommandNames(c)}

Earned(r) ==
  /\ Artifacts(config[r]) \cup {"manifest", "promotion"} \subseteq files[r]
  /\ "failure" \notin files[r]
  /\ score[r].metric >= Floor

(* What is in the run directory, and what a promotion rests on. *)
WorkOK(r) ==
  /\ stage[r] \in Nat /\ stage[r] >= 1
  /\ pc[r] \in {"idle", "registering", "manifest", "planning", "leasing"} => stage[r] = 1
  /\ pc[r] = "stages" /\ child[r] # "none" =>
       stage[r] \in DOMAIN Commands(config[r]) /\ child[r] = Commands(config[r])[stage[r]]
  /\ pc[r] = "stages" =>
       \A j \in DOMAIN Commands(config[r]) :
         j < stage[r] => Artifact[Commands(config[r])[j]] \in files[r]
  /\ pc[r] \in {"planning", "dry", "leasing", "stages", "judging", "closing"} =>
       "manifest" \in files[r]
  /\ pc[r] \in {"judging", "closing"} => Artifacts(config[r]) \subseteq files[r]
  /\ pc[r] = "closing" /\ verdict[r] => Earned(r)
  /\ r \in DOMAIN registry /\ registry[r].promoted =>
       pc[r] = "exited" /\ registry[r].status = "candidate" /\ Earned(r)
  /\ r \in DOMAIN registry /\ registry[r].benchmark => pc[r] = "exited"

WithinParent(r) ==
  parent[r] # NoRun =>
    /\ parent[r] \in DOMAIN registry
    /\ registry[parent[r]].data = config[r].data
    /\ registry[parent[r]].benchmark
    /\ score[parent[r]].metric - score[r].metric <= Budget

Passing(r) ==
  \/ pc[r] = "closing" /\ verdict[r]
  \/ r \in DOMAIN registry /\ registry[r].promoted

NoConflicts == \A r, q \in Runs : r # q => ~ Leases!Conflict(claim[r], claim[q])

ExperimentInv ==
  /\ Shape
  /\ RegistryLease
  /\ \A r \in Runs : RunOK(r)
  /\ \A r \in Runs : WorkOK(r)
  /\ \A r \in Runs : Passing(r) => WithinParent(r)
  /\ NoConflicts

(* A step of run r: what belongs to the other runs stays. *)
Frame(r) ==
  \A q \in Runs \ {r} :
    /\ pc'[q] = pc[q] /\ config'[q] = config[q] /\ parent'[q] = parent[q]
    /\ access'[q] = access[q] /\ snapshot'[q] = snapshot[q] /\ claim'[q] = claim[q]
    /\ stage'[q] = stage[q] /\ child'[q] = child[q]
    /\ files'[q] = files[q] /\ score'[q] = score[q] /\ verdict'[q] = verdict[q]
    /\ q \in DOMAIN registry' <=> q \in DOMAIN registry
    /\ q \in DOMAIN registry => registry'[q] = registry[q]

(* What others may rest on in the entry and the scores of r. *)
Keeps(r) ==
  r \in DOMAIN registry =>
    /\ r \in DOMAIN registry'
    /\ registry'[r].data = registry[r].data
    /\ registry[r].benchmark => registry'[r].benchmark /\ score'[r] = score[r]

LEMMA OthersKeep ==
  ASSUME NEW r \in Runs, Frame(r), NEW q \in Runs \ {r}, RunOK(q), WorkOK(q)
  PROVE  RunOK(q)' /\ WorkOK(q)'
<1>1. /\ pc'[q] = pc[q] /\ config'[q] = config[q] /\ parent'[q] = parent[q]
      /\ access'[q] = access[q] /\ claim'[q] = claim[q] /\ stage'[q] = stage[q] /\ child'[q] = child[q]
      /\ files'[q] = files[q] /\ score'[q] = score[q] /\ verdict'[q] = verdict[q]
      /\ q \in DOMAIN registry' <=> q \in DOMAIN registry
      /\ q \in DOMAIN registry => registry'[q] = registry[q]
  BY DEF Frame
<1>2. RunOK(q)'
  <2>1. pc[q] \in InTry => q \in DOMAIN registry
    BY DEF RunOK
  <2>2. pc[q] \in {"manifest", "planning", "dry", "reporting"} => q \in DOMAIN registry
    BY DEF RunOK
  <2> QED
    BY <1>1, <2>1, <2>2 DEF RunOK, InTry, Leases!NoClaim, Claim
<1>3. Earned(q)' <=> Earned(q)
  BY <1>1 DEF Earned
<1>4. WorkOK(q)'
  BY <1>1, <1>3 DEF WorkOK
<1> QED
  BY <1>2, <1>4

LEMMA RunStep ==
  ASSUME ExperimentInv, NEW r \in Runs, Frame(r), Shape', RegistryLease',
         RunOK(r)', WorkOK(r)', Keeps(r),
         Passing(r)' => WithinParent(r)',
         \A q \in Runs \ {r} : /\ ~ Leases!Conflict(claim'[r], claim[q])
                               /\ ~ Leases!Conflict(claim[q], claim'[r])
  PROVE  ExperimentInv'
<1>1. \A q \in Runs : RunOK(q)' /\ WorkOK(q)'
  BY OthersKeep DEF ExperimentInv
<1>2. ASSUME NEW q \in Runs \ {r}, Passing(q)' PROVE WithinParent(q)'
  <2>1. /\ pc'[q] = pc[q] /\ config'[q] = config[q] /\ parent'[q] = parent[q]
        /\ score'[q] = score[q] /\ verdict'[q] = verdict[q]
        /\ q \in DOMAIN registry' <=> q \in DOMAIN registry
        /\ q \in DOMAIN registry => registry'[q] = registry[q]
    BY DEF Frame
  <2>2. Passing(q)
    BY <1>2, <2>1 DEF Passing
  <2>3. WithinParent(q) /\ DOMAIN registry \subseteq Runs
    BY <2>2 DEF ExperimentInv, Shape
  <2>4. CASE parent[q] = r
    BY <2>1, <2>3, <2>4 DEF WithinParent, Keeps
  <2>5. CASE parent[q] # r
    <3> SUFFICES ASSUME parent[q] # NoRun PROVE WithinParent(q)'
      BY <2>1 DEF WithinParent
    <3>1. parent[q] \in Runs \ {r} /\ parent[q] \in DOMAIN registry
      BY <2>3, <2>5 DEF WithinParent
    <3>2. /\ parent[q] \in DOMAIN registry' /\ registry'[parent[q]] = registry[parent[q]]
          /\ score'[parent[q]] = score[parent[q]]
      BY <3>1 DEF Frame
    <3> QED
      BY <2>1, <2>3, <3>2 DEF WithinParent
  <2> QED
    BY <2>4, <2>5
<1>3. NoConflicts'
  <2> SUFFICES ASSUME NEW p \in Runs, NEW q \in Runs, p # q
               PROVE  ~ Leases!Conflict(claim'[p], claim'[q])
    BY DEF NoConflicts, Leases!Conflict
  <2>1. CASE p # r /\ q # r
    BY <2>1 DEF ExperimentInv, NoConflicts, Frame
  <2>2. CASE p = r
    BY <2>2 DEF Frame
  <2>3. CASE q = r
    BY <2>3 DEF Frame
  <2> QED
    BY <2>1, <2>2, <2>3
<1> QED
  BY <1>1, <1>2, <1>3 DEF ExperimentInv

LEMMA NothingConflictsWithNone ==
  \A c : ~ Leases!Conflict(Leases!NoClaim, c) /\ ~ Leases!Conflict(c, Leases!NoClaim)
BY DEF Leases!Conflict, Leases!NoClaim

(* A step that leaves the registry alone and does not judge or lease. *)
LEMMA QuietStep ==
  ASSUME ExperimentInv, NEW r \in Runs, Frame(r), Shape', RegistryLease', RunOK(r)', WorkOK(r)',
         registry' = registry,
         pc[r] # "exited", pc'[r] # "closing" \/ (pc[r] = "closing" /\ UNCHANGED local /\ UNCHANGED outputs),
         claim'[r] = claim[r] \/ claim'[r] = Leases!NoClaim,
         score'[r] = score[r] \/ pc[r] = "stages"
  PROVE  ExperimentInv'
<1>1. WorkOK(r) /\ RunOK(r) /\ (Passing(r) => WithinParent(r))
  BY DEF ExperimentInv
<1>2. Keeps(r)
  BY <1>1 DEF Keeps, WorkOK
<1>3. ~ (r \in DOMAIN registry /\ registry[r].promoted)
  BY <1>1 DEF WorkOK
<1>4. Passing(r)' => WithinParent(r)'
  BY <1>1, <1>3 DEF Passing, WithinParent, local, outputs
<1>5. ASSUME NEW q \in Runs \ {r}
      PROVE  ~ Leases!Conflict(claim'[r], claim[q]) /\ ~ Leases!Conflict(claim[q], claim'[r])
  BY NothingConflictsWithNone DEF ExperimentInv, NoConflicts
<1> QED
  BY <1>2, <1>4, <1>5, RunStep

LEMMA RegistryLeaseKept ==
  ASSUME RegistryLease, UNCHANGED shared PROVE RegistryLease'
BY DEF RegistryLease, shared, IsEntry

LEMMA CommandsAreStages ==
  ASSUME NEW c
  PROVE  /\ DOMAIN Commands(c) = 1 .. Len(Commands(c)) /\ Len(Commands(c)) \in Nat
         /\ \A j \in DOMAIN Commands(c) : Commands(c)[j] \in Stages
<1> DEFINE always == <<"train", "calibrate", "benchmark">>
           optional == IF c.fleet THEN <<"fleet_benchmark">> ELSE << >>
<1>1. always \in Seq(Stages) /\ optional \in Seq(Stages)
  <2>1. always \in Seq(Stages) /\ <<"fleet_benchmark">> \in Seq(Stages) /\ << >> \in Seq(Stages)
    BY DEF Stages
  <2>2. optional = <<"fleet_benchmark">> \/ optional = << >>
    OBVIOUS
  <2> QED
    BY <2>1, <2>2
<1>2. Commands(c) = always \o optional
  BY DEF Commands
<1> HIDE DEF always, optional
<1>3. Commands(c) \in Seq(Stages)
  BY <1>1, <1>2
<1> QED
  BY <1>3

LEMMA BeginStep ==
  ASSUME ExperimentInv, NEW r \in Runs, Begin(r) PROVE ExperimentInv'
<1>1. PICK c \in Configs : config' = [config EXCEPT ![r] = c]
  BY DEF Begin
<1>2. /\ pc[r] = "idle" /\ pc' = [pc EXCEPT ![r] = "registering"] /\ DOMAIN created' = DOMAIN created
      /\ UNCHANGED <<parent, registry, access, snapshot, claim, stage, child, files, score, verdict>>
  BY DEF Begin, Goto, shared, work, outputs
<1>3. Shape /\ RegistryLease /\ RunOK(r) /\ WorkOK(r)
  BY DEF ExperimentInv
<1>4. Frame(r) /\ Shape'
  BY <1>1, <1>2, <1>3 DEF Frame, Shape
<1>5. pc'[r] = "registering" /\ config'[r] \in Configs
  BY <1>1, <1>2, <1>3 DEF Shape
<1>6. RunOK(r)'
  BY <1>2, <1>3, <1>5 DEF RunOK, InTry, Leases!NoClaim
<1>7. WorkOK(r)'
  BY <1>2, <1>3, <1>5 DEF WorkOK, RunOK
<1>8. RegistryLease'
  BY <1>2, <1>3, RegistryLeaseKept DEF shared
<1> QED
  BY <1>2, <1>4, <1>5, <1>6, <1>7, <1>8, QuietStep

(* The steps that only move a runner on, before the stages or after them. *)
LEMMA MoveStep ==
  ASSUME ExperimentInv, NEW r \in Runs,
         \/ WriteManifest(r) \/ PlanRefused(r) \/ PlanAccepted(r) \/ PreparationFails(r)
         \/ AcquireFails(r) \/ JudgeFails(r) \/ ReportFailure(r)
  PROVE  ExperimentInv'
<1>1. /\ \/ /\ pc[r] = "manifest" /\ pc' = [pc EXCEPT ![r] = "planning"]
            /\ files' = [files EXCEPT ![r] = @ \cup {"manifest"}]
         \/ /\ pc[r] \in {"manifest", "planning"} /\ pc' = [pc EXCEPT ![r] = "exited"]
            /\ files' = files
         \/ /\ pc[r] = "planning" /\ files' = files
            /\ pc' = [pc EXCEPT ![r] = IF config[r].dry THEN "dry" ELSE "leasing"]
         \/ /\ pc[r] \in {"leasing", "judging"} /\ pc' = [pc EXCEPT ![r] = "handling"]
            /\ files' = files
         \/ /\ pc[r] = "reporting" /\ pc' = [pc EXCEPT ![r] = "exited"]
            /\ files' = files \/ files' = [files EXCEPT ![r] = @ \cup {"failure"}]
      /\ UNCHANGED <<local, shared, work, score, verdict>>
  BY DEF WriteManifest, PlanRefused, PlanAccepted, PreparationFails, AcquireFails, JudgeFails,
         ReportFailure, Goto, outputs
<1>2. Shape /\ RegistryLease /\ RunOK(r) /\ WorkOK(r)
  BY DEF ExperimentInv
<1>3. Frame(r)
  BY <1>1, <1>2 DEF Frame, Shape, local, shared, work
<1>4. Shape'
  BY <1>1, <1>2 DEF Shape, local, shared, work
<1>5. /\ \/ pc[r] = "manifest" /\ pc'[r] = "planning" /\ files'[r] = files[r] \cup {"manifest"}
         \/ pc[r] \in {"manifest", "planning"} /\ pc'[r] = "exited" /\ files'[r] = files[r]
         \/ /\ pc[r] = "planning" /\ files'[r] = files[r]
            /\ pc'[r] = IF config[r].dry THEN "dry" ELSE "leasing"
         \/ /\ pc[r] \in {"leasing", "judging"} /\ pc'[r] = "handling" /\ files'[r] = files[r]
         \/ /\ pc[r] = "reporting" /\ pc'[r] = "exited"
            /\ files'[r] = files[r] \/ files'[r] = files[r] \cup {"failure"}
      /\ config'[r] = config[r] /\ parent'[r] = parent[r] /\ claim'[r] = claim[r]
      /\ stage'[r] = stage[r] /\ child'[r] = child[r] /\ score'[r] = score[r]
      /\ verdict'[r] = verdict[r] /\ registry' = registry /\ access' = access
  BY <1>1, <1>2 DEF Shape, local, shared, work
<1>6. RunOK(r)'
  BY <1>2, <1>5 DEF RunOK, InTry, Claim, Leases!NoClaim
<1>7. WorkOK(r)'
  BY <1>2, <1>5 DEF WorkOK, RunOK
<1>8. RegistryLease'
  BY <1>1, <1>2, RegistryLeaseKept
<1>9. pc[r] # "exited" /\ pc'[r] # "closing"
  BY <1>5
<1> QED
  BY <1>3, <1>4, <1>5, <1>6, <1>7, <1>8, <1>9, QuietStep

LEMMA AcquireStep ==
  ASSUME ExperimentInv, NEW r \in Runs, AcquireLeases(r) PROVE ExperimentInv'
<1>1. /\ pc[r] = "leasing" /\ pc' = [pc EXCEPT ![r] = "stages"]
      /\ claim' = [claim EXCEPT ![r] = Claim(config[r], r)]
      /\ \A q \in Runs \ {r} : ~ Leases!Conflict(Claim(config[r], r), claim[q])
      /\ UNCHANGED <<local, shared, stage, child, outputs>>
  BY DEF AcquireLeases, Goto
<1>2. Shape /\ RegistryLease /\ RunOK(r) /\ WorkOK(r) /\ (Passing(r) => WithinParent(r))
  BY DEF ExperimentInv
<1>3. Frame(r)
  BY <1>1, <1>2 DEF Frame, Shape, local, shared, outputs
<1>4. Shape'
  BY <1>1, <1>2 DEF Shape, local, shared, outputs
<1>5. /\ pc[r] = "leasing" /\ pc'[r] = "stages" /\ claim'[r] = Claim(config[r], r)
      /\ config'[r] = config[r] /\ parent'[r] = parent[r] /\ files'[r] = files[r]
      /\ stage'[r] = stage[r] /\ child'[r] = child[r] /\ score'[r] = score[r]
      /\ verdict'[r] = verdict[r] /\ registry' = registry /\ access' = access
  BY <1>1, <1>2 DEF Shape, local, shared, outputs
<1>6. RunOK(r)'
  BY <1>2, <1>5 DEF RunOK, InTry, Claim
<1>7. WorkOK(r)'
  <2>1. stage[r] = 1 /\ \A j \in DOMAIN Commands(config[r]) : ~ (j < 1)
    BY <1>1, <1>2, CommandsAreStages DEF WorkOK
  <2> QED
    BY <1>2, <1>5, <2>1 DEF WorkOK, RunOK
<1>8. RegistryLease'
  BY <1>1, <1>2, RegistryLeaseKept
<1>9. ~ Passing(r)'
  BY <1>2, <1>5 DEF Passing, WorkOK
<1>10. ASSUME NEW q \in Runs \ {r}
       PROVE  ~ Leases!Conflict(claim'[r], claim[q]) /\ ~ Leases!Conflict(claim[q], claim'[r])
  BY <1>1, <1>5 DEF Leases!Conflict
<1>11. Keeps(r)
  BY <1>5 DEF Keeps
<1> QED
  BY <1>3, <1>4, <1>6, <1>7, <1>8, <1>9, <1>10, <1>11, RunStep

LEMMA StartStep ==
  ASSUME ExperimentInv, NEW r \in Runs, StartStage(r) PROVE ExperimentInv'
<1>1. /\ pc[r] = "stages" /\ stage[r] <= Len(Commands(config[r]))
      /\ child' = [child EXCEPT ![r] = Commands(config[r])[stage[r]]]
      /\ UNCHANGED <<pc, local, shared, claim, stage, outputs>>
  BY DEF StartStage, Current
<1>2. Shape /\ RegistryLease /\ RunOK(r) /\ WorkOK(r)
  BY DEF ExperimentInv
<1>3. Frame(r) /\ Shape'
  BY <1>1, <1>2 DEF Frame, Shape, local, shared, outputs
<1>4. /\ pc'[r] = pc[r] /\ claim'[r] = claim[r] /\ child'[r] = Commands(config[r])[stage[r]]
      /\ config'[r] = config[r] /\ parent'[r] = parent[r] /\ files'[r] = files[r]
      /\ stage'[r] = stage[r] /\ score'[r] = score[r]
      /\ verdict'[r] = verdict[r] /\ registry' = registry /\ access' = access
  BY <1>1, <1>2 DEF Shape, local, shared, outputs
<1>5. RegistryLease'
  BY <1>1, <1>2, RegistryLeaseKept
<1> QED
  PROOF
  <2>1. stage[r] \in Nat /\ stage[r] >= 1
    BY <1>2 DEF WorkOK
  <2>2. stage[r] \in DOMAIN Commands(config[r]) /\ child'[r] \in Stages
    BY <1>1, <1>4, <2>1, CommandsAreStages
  <2>3. RunOK(r)'
    BY <1>1, <1>2, <1>4, <2>2 DEF RunOK, InTry, Claim
  <2>4. WorkOK(r)'
    BY <1>1, <1>2, <1>4, <2>2 DEF WorkOK
  <2> QED
    BY <1>1, <1>3, <1>4, <1>5, <2>3, <2>4, QuietStep

LEMMA StageDoneStep ==
  ASSUME ExperimentInv, NEW r \in Runs, StageDone(r) PROVE ExperimentInv'
<1>1. /\ pc[r] = "stages" /\ child[r] # "none"
      /\ child' = [child EXCEPT ![r] = "none"] /\ stage' = [stage EXCEPT ![r] = @ + 1]
      /\ files' = [files EXCEPT ![r] = @ \cup {Artifact[child[r]]}]
      /\ UNCHANGED <<pc, local, shared, claim, verdict>>
  BY DEF StageDone
<1>2. Shape /\ RegistryLease /\ RunOK(r) /\ WorkOK(r)
  BY DEF ExperimentInv
<1>3. DOMAIN score' = DOMAIN score /\ \A q \in Runs \ {r} : score'[q] = score[q]
  <2>1. PICK m \in Metrics, b \in BOOLEAN :
          score' = CASE child[r] = "benchmark" -> [score EXCEPT ![r].metric = m]
                     [] child[r] = "fleet_benchmark" -> [score EXCEPT ![r].fleet = b]
                     [] OTHER -> score
    BY DEF StageDone
  <2> QED
    BY <1>2, <2>1 DEF Shape
<1>4. Frame(r) /\ Shape'
  BY <1>1, <1>2, <1>3 DEF Frame, Shape, local, shared
<1>5. /\ pc'[r] = "stages" /\ claim'[r] = claim[r] /\ child'[r] = "none"
      /\ config'[r] = config[r] /\ parent'[r] = parent[r]
      /\ files'[r] = files[r] \cup {Artifact[child[r]]} /\ stage'[r] = stage[r] + 1
      /\ verdict'[r] = verdict[r] /\ registry' = registry /\ access' = access
  BY <1>1, <1>2 DEF Shape, local, shared
<1>6. /\ stage[r] \in DOMAIN Commands(config[r]) /\ stage[r] \in Nat
      /\ child[r] = Commands(config[r])[stage[r]] /\ Artifact[child[r]] # "failure"
  BY <1>1, <1>2, CommandsAreStages DEF WorkOK, Artifact, Stages
<1>7. RunOK(r)'
  BY <1>1, <1>2, <1>5, <1>6 DEF RunOK, InTry, Claim
<1>8. WorkOK(r)'
  <2>1. \A j \in DOMAIN Commands(config[r]) :
          j < stage[r] + 1 => Artifact[Commands(config[r])[j]] \in files'[r]
    BY <1>1, <1>2, <1>5, <1>6, CommandsAreStages DEF WorkOK
  <2> QED
    BY <1>1, <1>2, <1>5, <1>6, <2>1 DEF WorkOK
<1>9. RegistryLease'
  BY <1>1, <1>2, RegistryLeaseKept
<1> QED
  BY <1>1, <1>4, <1>5, <1>7, <1>8, <1>9, QuietStep

LEMMA StagesEndStep ==
  ASSUME ExperimentInv, NEW r \in Runs, StageFails(r) \/ ReleaseLeases(r) PROVE ExperimentInv'
<1>1. /\ pc[r] = "stages" /\ claim' = [claim EXCEPT ![r] = Leases!NoClaim]
      /\ \/ pc' = [pc EXCEPT ![r] = "handling"] /\ child' = [child EXCEPT ![r] = "none"]
         \/ /\ pc' = [pc EXCEPT ![r] = "judging"] /\ child' = child
            /\ stage[r] > Len(Commands(config[r]))
      /\ UNCHANGED <<local, shared, stage, outputs>>
  BY DEF StageFails, ReleaseLeases, Goto
<1>2. Shape /\ RegistryLease /\ RunOK(r) /\ WorkOK(r)
  BY DEF ExperimentInv
<1>3. Frame(r)
  BY <1>1, <1>2 DEF Frame, Shape, local, shared, outputs
<1>4. Shape'
  BY <1>1, <1>2 DEF Shape, local, shared, outputs
<1>5. /\ claim'[r] = Leases!NoClaim
      /\ \/ pc'[r] = "handling" /\ child'[r] = "none"
         \/ /\ pc'[r] = "judging" /\ child'[r] = child[r]
            /\ stage[r] > Len(Commands(config[r]))
      /\ config'[r] = config[r] /\ parent'[r] = parent[r] /\ files'[r] = files[r]
      /\ stage'[r] = stage[r] /\ score'[r] = score[r]
      /\ verdict'[r] = verdict[r] /\ registry' = registry /\ access' = access
  BY <1>1, <1>2 DEF Shape, local, shared, outputs
<1>6. pc'[r] = "judging" => child[r] = "none" /\ Artifacts(config[r]) \subseteq files[r]
  <2> SUFFICES ASSUME pc'[r] = "judging"
               PROVE  child[r] = "none" /\ Artifacts(config[r]) \subseteq files[r]
    OBVIOUS
  <2>1. stage[r] \in Nat /\ stage[r] > Len(Commands(config[r]))
    BY <1>2, <1>5 DEF WorkOK
  <2>2. \A j \in DOMAIN Commands(config[r]) : j < stage[r]
    BY <2>1, CommandsAreStages
  <2>3. stage[r] \notin DOMAIN Commands(config[r])
    BY <2>1, <2>2
  <2> QED
    BY <1>1, <1>2, <2>2, <2>3 DEF WorkOK, Artifacts, CommandNames
<1>7. RunOK(r)'
  BY <1>1, <1>2, <1>5, <1>6 DEF RunOK, InTry, Leases!NoClaim
<1>8. WorkOK(r)'
  BY <1>1, <1>2, <1>5, <1>6 DEF WorkOK, Artifacts
<1>9. RegistryLease'
  BY <1>1, <1>2, RegistryLeaseKept
<1>10. pc[r] # "exited" /\ pc'[r] # "closing"
  BY <1>1, <1>5
<1> QED
  BY <1>3, <1>4, <1>5, <1>7, <1>8, <1>9, <1>10, QuietStep

LEMMA JudgeStep ==
  ASSUME ExperimentInv, NEW r \in Runs, Judge(r) PROVE ExperimentInv'
<1>1. /\ pc[r] = "judging" /\ pc' = [pc EXCEPT ![r] = "closing"]
      /\ verdict' = [verdict EXCEPT ![r] = /\ score[r].metric >= Floor
                                           /\ RegressionPassed(r)
                                           /\ config[r].fleet => score[r].fleet]
      /\ files' = [files EXCEPT ![r] = @ \cup {"promotion"}]
      /\ UNCHANGED <<local, shared, work, score>>
  BY DEF Judge, Goto
<1>2. Shape /\ RegistryLease /\ RunOK(r) /\ WorkOK(r)
  BY DEF ExperimentInv
<1>3. Frame(r)
  BY <1>1, <1>2 DEF Frame, Shape, local, shared, work
<1>4. Shape'
  BY <1>1, <1>2 DEF Shape, local, shared, work
<1>5. /\ pc'[r] = "closing" /\ files'[r] = files[r] \cup {"promotion"}
      /\ verdict'[r] => score[r].metric >= Floor /\ RegressionPassed(r)
      /\ config'[r] = config[r] /\ parent'[r] = parent[r] /\ claim'[r] = claim[r]
      /\ stage'[r] = stage[r] /\ child'[r] = child[r] /\ score' = score
      /\ registry' = registry /\ access' = access
  BY <1>1, <1>2 DEF Shape, local, shared, work
<1>6. RunOK(r)'
  BY <1>1, <1>2, <1>5 DEF RunOK, InTry, Leases!NoClaim
<1>7. WorkOK(r)'
  <2>1. verdict'[r] => Earned(r)'
    BY <1>1, <1>2, <1>5 DEF WorkOK, RunOK, Earned, Artifacts
  <2> QED
    BY <1>1, <1>2, <1>5, <2>1 DEF WorkOK, Artifacts
<1>8. Passing(r)' => WithinParent(r)'
  BY <1>1, <1>2, <1>5 DEF Passing, WorkOK, WithinParent, RegressionPassed
<1>9. RegistryLease'
  BY <1>1, <1>2, RegistryLeaseKept
<1>10. \A q \in Runs \ {r} : /\ ~ Leases!Conflict(claim'[r], claim[q])
                             /\ ~ Leases!Conflict(claim[q], claim'[r])
  BY <1>5 DEF ExperimentInv, NoConflicts
<1>11. Keeps(r)
  BY <1>5 DEF Keeps
<1> QED
  BY <1>3, <1>4, <1>6, <1>7, <1>8, <1>9, <1>10, <1>11, RunStep

LEMMA OrphanStep ==
  ASSUME ExperimentInv, NEW r \in Runs, OrphanEnds(r) PROVE ExperimentInv'
<1>1. /\ pc[r] = "dead" /\ child[r] # "none" /\ child' = [child EXCEPT ![r] = "none"]
      /\ files' = files \/ files' = [files EXCEPT ![r] = @ \cup {Artifact[child[r]]}]
      /\ UNCHANGED <<pc, local, shared, claim, stage, score, verdict>>
  BY DEF OrphanEnds
<1>2. Shape /\ RegistryLease /\ RunOK(r) /\ WorkOK(r)
  BY DEF ExperimentInv
<1>3. Frame(r)
  BY <1>1, <1>2 DEF Frame, Shape, local, shared
<1>4. Shape'
  BY <1>1, <1>2 DEF Shape, local, shared
<1>5. /\ pc'[r] = pc[r] /\ claim'[r] = claim[r] /\ child'[r] = "none"
      /\ files'[r] = files[r] \/ files'[r] = files[r] \cup {Artifact[child[r]]}
      /\ config'[r] = config[r] /\ parent'[r] = parent[r]
      /\ stage'[r] = stage[r] /\ score'[r] = score[r]
      /\ verdict'[r] = verdict[r] /\ registry' = registry /\ access' = access
  BY <1>1, <1>2 DEF Shape, local, shared
<1>6. Artifact[child[r]] # "failure"
  BY <1>1, <1>2 DEF RunOK, Artifact, Stages
<1>7. RunOK(r)'
  BY <1>1, <1>2, <1>5, <1>6 DEF RunOK, InTry, Leases!NoClaim
<1>8. WorkOK(r)'
  BY <1>1, <1>2, <1>5 DEF WorkOK
<1>9. RegistryLease'
  BY <1>1, <1>2, RegistryLeaseKept
<1> QED
  BY <1>1, <1>3, <1>4, <1>5, <1>7, <1>8, <1>9, QuietStep

LEMMA CrashStep ==
  ASSUME ExperimentInv, NEW r \in Runs, Crash(r) PROVE ExperimentInv'
<1>1. /\ pc[r] \notin {"idle", "exited", "dead"} /\ pc' = [pc EXCEPT ![r] = "dead"]
      /\ claim' = [claim EXCEPT ![r] = Leases!NoClaim] /\ access' = [access EXCEPT ![r] = "none"]
      /\ snapshot' = [snapshot EXCEPT ![r] = EmptyRegistry]
      /\ UNCHANGED <<local, registry, stage, child, outputs>>
  BY DEF Crash
<1>2. Shape /\ RegistryLease /\ RunOK(r) /\ WorkOK(r)
  BY DEF ExperimentInv
<1>3. Frame(r)
  BY <1>1, <1>2 DEF Frame, Shape, local, outputs
<1>4. Shape'
  BY <1>1, <1>2 DEF Shape, local, outputs
<1>5. /\ pc'[r] = "dead" /\ claim'[r] = Leases!NoClaim /\ access'[r] = "none"
      /\ config'[r] = config[r] /\ parent'[r] = parent[r] /\ files'[r] = files[r]
      /\ stage'[r] = stage[r] /\ child'[r] = child[r] /\ score'[r] = score[r]
      /\ verdict'[r] = verdict[r] /\ registry' = registry
  BY <1>1, <1>2 DEF Shape, local, outputs
<1>6. RunOK(r)'
  BY <1>1, <1>2, <1>5 DEF RunOK, InTry, Leases!NoClaim
<1>7. WorkOK(r)'
  BY <1>1, <1>2, <1>5 DEF WorkOK
<1>8. RegistryLease'
  BY <1>1, <1>2 DEF RegistryLease, IsEntry, Shape
<1> QED
  BY <1>1, <1>3, <1>4, <1>5, <1>6, <1>7, <1>8, QuietStep

(* The steps at the registry lease that do not save. *)
LEMMA LeaseStep ==
  ASSUME ExperimentInv, NEW r \in Runs,
         OpenRegistry(r) \/ RegistryBusy(r) \/ RegistryLeaked(r) \/ SaveFails(r)
  PROVE  ExperimentInv'
<1>1. Shape /\ RegistryLease /\ RunOK(r) /\ WorkOK(r)
  BY DEF ExperimentInv
<1>2. pc[r] \in {"registering", "dry", "closing", "handling"}
  BY <1>1 DEF OpenRegistry, RegistryBusy, RegistryLeaked, SaveFails, AtRegistry, RunOK
<1>3. /\ pc' = pc \/ pc' = [pc EXCEPT ![r] = IF pc[r] = "closing" THEN "handling" ELSE "exited"]
      /\ UNCHANGED <<local, registry, work, outputs>>
  BY DEF OpenRegistry, RegistryBusy, RegistryLeaked, SaveFails, AfterRaise
<1>4. /\ \/ /\ pc' = pc /\ access' = [access EXCEPT ![r] = "open"]
            /\ \A q \in Runs : access[q] = "none"
            /\ snapshot' = [snapshot EXCEPT ![r] = registry]
         \/ /\ access' = [access EXCEPT ![r] = "none"] /\ snapshot' = snapshot
         \/ /\ access[r] # "open" /\ access' = [access EXCEPT ![r] = @]
            /\ snapshot' = snapshot
         \/ /\ access' = [access EXCEPT ![r] = "leaked"] /\ snapshot' = snapshot
            /\ \A q \in Runs : access[q] = "none"
         \/ /\ access' = [access EXCEPT ![r] = "none"]
            /\ snapshot' = [snapshot EXCEPT ![r] = EmptyRegistry]
  <2>1. CASE OpenRegistry(r)
    BY <2>1 DEF OpenRegistry
  <2>2. CASE RegistryBusy(r)
    BY <2>2 DEF RegistryBusy
  <2>3. CASE RegistryLeaked(r)
    BY <2>3 DEF RegistryLeaked
  <2>4. CASE SaveFails(r)
    BY <2>4 DEF SaveFails
  <2> QED
    BY <2>1, <2>2, <2>3, <2>4
<1>5. Frame(r)
  BY <1>1, <1>3, <1>4 DEF Frame, Shape, local, work, outputs
<1>6. Shape'
  BY <1>1, <1>3, <1>4 DEF Shape, local, work, outputs
<1>7. /\ \/ pc'[r] = pc[r]
         \/ access'[r] # "open" /\ pc'[r] = IF pc[r] = "closing" THEN "handling" ELSE "exited"
      /\ config'[r] = config[r] /\ parent'[r] = parent[r] /\ claim'[r] = claim[r]
      /\ stage'[r] = stage[r] /\ child'[r] = child[r] /\ files'[r] = files[r]
      /\ score'[r] = score[r] /\ verdict'[r] = verdict[r] /\ registry' = registry
  BY <1>1, <1>3, <1>4 DEF Shape, local, work, outputs
<1>8. RunOK(r)'
  BY <1>1, <1>2, <1>7 DEF RunOK, InTry, Leases!NoClaim
<1>9. WorkOK(r)'
  <2>1. pc'[r] = pc[r] => (Earned(r)' <=> Earned(r))
    BY <1>7 DEF Earned
  <2> QED
    BY <1>1, <1>2, <1>7, <2>1 DEF WorkOK
<1>10. RegistryLease'
  BY <1>1, <1>3, <1>4 DEF RegistryLease, IsEntry, Shape
<1>11. pc'[r] # "closing" \/ (pc[r] = "closing" /\ UNCHANGED local /\ UNCHANGED outputs)
  BY <1>2, <1>3, <1>7
<1> QED
  BY <1>2, <1>5, <1>6, <1>7, <1>8, <1>9, <1>10, <1>11, QuietStep

LEMMA LoadedIsCurrent ==
  ASSUME ExperimentInv, NEW r \in Runs, access[r] = "open"
  PROVE  snapshot[r] = registry /\ \A q \in Runs \ {r} : access[q] = "none"
BY DEF ExperimentInv, RegistryLease

(* Giving the lease back after a save. *)
LEMMA SavedLease ==
  ASSUME ExperimentInv, NEW r \in Runs, access[r] = "open",
         access' = [access EXCEPT ![r] = "none"], snapshot' = [snapshot EXCEPT ![r] = EmptyRegistry],
         \A q \in DOMAIN registry' : IsEntry(registry'[q])
  PROVE  RegistryLease'
<1>1. \A q \in Runs : access'[q] = "none"
  BY LoadedIsCurrent DEF ExperimentInv, Shape
<1> QED
  BY <1>1 DEF RegistryLease, IsEntry

LEMMA RegisterStep ==
  ASSUME ExperimentInv, NEW r \in Runs, Register(r)
  PROVE  /\ ExperimentInv'
         /\ DOMAIN registry' = DOMAIN registry \cup {r} /\ r \notin DOMAIN registry
         /\ \A q \in DOMAIN registry : registry'[q] = registry[q]
<1>1. Shape /\ RegistryLease /\ RunOK(r) /\ WorkOK(r)
  BY DEF ExperimentInv
<1>2. /\ pc[r] = "registering" /\ pc' = [pc EXCEPT ![r] = "manifest"] /\ access[r] = "open"
      /\ registry' = Registered(r, registry)
      /\ parent' = [parent EXCEPT ![r] = registry'[r].parent]
      /\ access' = [access EXCEPT ![r] = "none"]
      /\ snapshot' = [snapshot EXCEPT ![r] = EmptyRegistry]
      /\ UNCHANGED <<config, created, work, outputs>>
  BY LoadedIsCurrent DEF Register, Goto
<1>3. r \notin DOMAIN registry
  BY <1>1, <1>2 DEF RunOK
<1>4. PICK a : registry'[r] =
        [status |-> IF config[r].dry THEN "dry_run" ELSE "running", promoted |-> FALSE,
         parent |-> a, created |-> created[r], data |-> config[r].data, benchmark |-> FALSE]
  BY <1>2 DEF Registered
<1>5. /\ DOMAIN registry' = DOMAIN registry \cup {r}
      /\ \A q \in DOMAIN registry : registry'[q] = registry[q]
  BY <1>2, <1>3 DEF Registered
<1>6. Frame(r)
  BY <1>1, <1>2, <1>3, <1>5 DEF Frame, Shape, work, outputs
<1>7. Shape'
  BY <1>1, <1>2, <1>5 DEF Shape, work, outputs
<1>8. /\ pc'[r] = "manifest" /\ access'[r] = "none" /\ parent'[r] = registry'[r].parent
      /\ config'[r] = config[r] /\ claim'[r] = claim[r] /\ files'[r] = files[r]
      /\ stage'[r] = stage[r] /\ child'[r] = child[r] /\ score' = score
      /\ verdict'[r] = verdict[r]
  BY <1>1, <1>2 DEF Shape, work, outputs
<1>9. IsEntry(registry'[r])
  BY <1>4 DEF IsEntry
<1>10. RegistryLease'
  <2>1. \A q \in DOMAIN registry' : IsEntry(registry'[q])
    BY <1>1, <1>5, <1>9 DEF RegistryLease
  <2> QED
    BY <1>2, <2>1, SavedLease
<1>11. /\ registry'[r].status = IF config[r].dry THEN "dry_run" ELSE "running"
       /\ registry'[r].promoted = FALSE /\ registry'[r].benchmark = FALSE
       /\ registry'[r].data = config[r].data
  BY <1>4
<1>12. r \in DOMAIN registry'
  BY <1>5
<1>13. RunOK(r)'
  BY <1>1, <1>2, <1>3, <1>8, <1>11, <1>12 DEF RunOK, InTry, Leases!NoClaim
<1>14. WorkOK(r)'
  BY <1>1, <1>2, <1>8, <1>11 DEF WorkOK
<1>15. Keeps(r) /\ ~ Passing(r)'
  BY <1>3, <1>8, <1>11 DEF Keeps, Passing
<1>16. \A q \in Runs \ {r} : /\ ~ Leases!Conflict(claim'[r], claim[q])
                             /\ ~ Leases!Conflict(claim[q], claim'[r])
  BY <1>8 DEF ExperimentInv, NoConflicts
<1>17. ExperimentInv'
  BY <1>6, <1>7, <1>10, <1>13, <1>14, <1>15, <1>16, RunStep
<1> QED
  BY <1>3, <1>5, <1>17

(* What a runner records of itself, and what it leaves as it is. *)
LEMMA UpdateStep ==
  ASSUME ExperimentInv, NEW r \in Runs, Update(r)
  PROVE  /\ ExperimentInv'
         /\ DOMAIN registry' = DOMAIN registry
         /\ \A q \in DOMAIN registry \ {r} : registry'[q] = registry[q]
         /\ \/ registry'[r] = registry[r]
            \/ /\ registry[r].status = "running" /\ registry'[r].status \in Decided
               /\ registry'[r].parent = registry[r].parent
               /\ registry'[r].created = registry[r].created
               /\ registry'[r].data = registry[r].data
<1>1. Shape /\ RegistryLease /\ RunOK(r) /\ WorkOK(r) /\ (Passing(r) => WithinParent(r))
  BY DEF ExperimentInv
<1>2. /\ \/ pc[r] = "dry" /\ pc' = [pc EXCEPT ![r] = "exited"]
         \/ pc[r] = "closing" /\ pc' = [pc EXCEPT ![r] = "exited"]
         \/ pc[r] = "handling" /\ pc' = [pc EXCEPT ![r] = "reporting"]
      /\ access[r] = "open" /\ registry' = Updated(r, registry)
      /\ access' = [access EXCEPT ![r] = "none"]
      /\ snapshot' = [snapshot EXCEPT ![r] = EmptyRegistry]
      /\ UNCHANGED <<local, work, outputs>>
  BY LoadedIsCurrent DEF Update, Goto
<1>3. r \in DOMAIN registry /\ IsEntry(registry[r])
  BY <1>1, <1>2 DEF RunOK, RegistryLease, InTry
<1>4. /\ DOMAIN registry' = DOMAIN registry
      /\ \A q \in DOMAIN registry \ {r} : registry'[q] = registry[q]
  BY <1>2 DEF Updated
<1>5. /\ pc[r] = "dry" => registry'[r] = [registry[r] EXCEPT !.status = "dry_run"]
      /\ pc[r] = "handling" => registry'[r] = [registry[r] EXCEPT !.status = "failed"]
      /\ pc[r] = "closing" =>
           registry'[r] = [registry[r] EXCEPT
                             !.status = IF verdict[r] THEN "candidate" ELSE "rejected",
                             !.promoted = verdict[r], !.benchmark = TRUE]
  BY <1>2, <1>3 DEF Updated
<1>6. /\ pc[r] = "dry" => registry'[r] = registry[r]
      /\ pc[r] = "handling" =>
           registry'[r] = [status |-> "failed", promoted |-> registry[r].promoted,
                           parent |-> registry[r].parent, created |-> registry[r].created,
                           data |-> registry[r].data, benchmark |-> registry[r].benchmark]
      /\ pc[r] = "closing" =>
           registry'[r] = [status |-> IF verdict[r] THEN "candidate" ELSE "rejected",
                           promoted |-> verdict[r],
                           parent |-> registry[r].parent, created |-> registry[r].created,
                           data |-> registry[r].data, benchmark |-> TRUE]
  <2>1. pc[r] = "dry" => registry[r].status = "dry_run"
    BY <1>1 DEF RunOK
  <2> QED
    BY <1>3, <1>5, <2>1 DEF IsEntry
<1>7. /\ registry'[r].parent = registry[r].parent /\ registry'[r].created = registry[r].created
      /\ registry'[r].data = registry[r].data /\ IsEntry(registry'[r])
  BY <1>2, <1>3, <1>6 DEF IsEntry
<1>8. Frame(r)
  BY <1>1, <1>2, <1>4 DEF Frame, Shape, local, work, outputs
<1>9. Shape'
  BY <1>1, <1>2, <1>4 DEF Shape, local, work, outputs
<1>10. /\ \/ pc[r] = "dry" /\ pc'[r] = "exited"
          \/ pc[r] = "closing" /\ pc'[r] = "exited"
          \/ pc[r] = "handling" /\ pc'[r] = "reporting"
       /\ access'[r] = "none" /\ parent'[r] = parent[r]
       /\ config'[r] = config[r] /\ claim'[r] = claim[r] /\ files'[r] = files[r]
       /\ stage'[r] = stage[r] /\ child'[r] = child[r] /\ score' = score
       /\ verdict'[r] = verdict[r]
  BY <1>1, <1>2 DEF Shape, local, work, outputs
<1>11. RegistryLease'
  <2>1. \A q \in DOMAIN registry' : IsEntry(registry'[q])
    BY <1>1, <1>4, <1>7 DEF RegistryLease
  <2> QED
    BY <1>2, <2>1, SavedLease
<1>12. r \in DOMAIN registry' /\ (pc[r] = "handling" => registry'[r].status = "failed")
  BY <1>3, <1>4, <1>6
<1>13. RunOK(r)'
  BY <1>1, <1>7, <1>10, <1>12 DEF RunOK, InTry, Leases!NoClaim
<1>14. ~ registry[r].promoted /\ ~ registry[r].benchmark
  BY <1>1, <1>3, <1>10 DEF WorkOK
<1>15. registry'[r].promoted => pc[r] = "closing" /\ verdict[r] /\ registry'[r].status = "candidate"
  BY <1>6, <1>10, <1>14
<1>16. registry'[r].benchmark => pc[r] = "closing"
  BY <1>6, <1>10, <1>14
<1>17. WorkOK(r)'
  <2>1. Earned(r)' <=> Earned(r)
    BY <1>10 DEF Earned
  <2> QED
    BY <1>1, <1>10, <1>15, <1>16, <2>1 DEF WorkOK
<1>18. Keeps(r)
  BY <1>4, <1>7, <1>14 DEF Keeps
<1>19. Passing(r)' => WithinParent(r)'
  <2> SUFFICES ASSUME Passing(r)' PROVE WithinParent(r)'
    OBVIOUS
  <2>1. WithinParent(r)
    BY <1>1, <1>10, <1>15 DEF Passing
  <2>2. parent[r] # r
    BY <1>14, <2>1, <1>3, NamesAssumption DEF WithinParent
  <2> QED
    BY <1>4, <1>10, <2>1, <2>2 DEF WithinParent
<1>20. \A q \in Runs \ {r} : /\ ~ Leases!Conflict(claim'[r], claim[q])
                             /\ ~ Leases!Conflict(claim[q], claim'[r])
  BY <1>10 DEF ExperimentInv, NoConflicts
<1>21. ExperimentInv'
  BY <1>8, <1>9, <1>11, <1>13, <1>17, <1>18, <1>19, <1>20, RunStep
<1>22. \/ registry'[r] = registry[r]
       \/ registry[r].status = "running" /\ registry'[r].status \in Decided
  <2>1. pc[r] \in {"closing", "handling"} => registry[r].status = "running"
    BY <1>1 DEF RunOK, InTry
  <2>2. pc[r] = "closing" => registry'[r].status \in {"candidate", "rejected"}
    BY <1>6
  <2> QED
    BY <1>6, <1>10, <1>12, <2>1, <2>2 DEF Decided, Statuses
<1> QED
  BY <1>4, <1>7, <1>21, <1>22

LEMMA StepOfRun ==
  ASSUME ExperimentInv, NEW r \in Runs,
         Begin(r) \/ Advance(r) \/ Fault(r) \/ Crash(r) \/ OrphanEnds(r)
  PROVE  ExperimentInv'
<1>1. CASE Advance(r)
  BY <1>1, LeaseStep, RegisterStep, UpdateStep, MoveStep, AcquireStep, StartStep, StageDoneStep,
     StagesEndStep, JudgeStep DEF Advance
<1>2. CASE Fault(r)
  BY <1>2, LeaseStep, MoveStep DEF Fault
<1> QED
  BY <1>1, <1>2, BeginStep, CrashStep, OrphanStep

LEMMA StutterStep == ExperimentInv /\ UNCHANGED vars => ExperimentInv'
<1> SUFFICES ASSUME ExperimentInv, UNCHANGED vars PROVE ExperimentInv'
  OBVIOUS
<1> USE DEF vars, local, shared, work, outputs
<1>1. Shape' /\ RegistryLease' /\ NoConflicts'
  BY DEF ExperimentInv, Shape, RegistryLease, IsEntry, NoConflicts, Leases!Conflict
<1>2. ASSUME NEW r \in Runs PROVE RunOK(r)' /\ WorkOK(r)' /\ (Passing(r)' => WithinParent(r)')
  <2>1. RunOK(r) /\ WorkOK(r) /\ (Passing(r) => WithinParent(r))
    BY DEF ExperimentInv
  <2>2. RunOK(r)'
    BY <2>1 DEF RunOK, InTry, Claim, Leases!NoClaim
  <2>3. WorkOK(r)'
    BY <2>1 DEF WorkOK, Earned
  <2>4. Passing(r)' => WithinParent(r)'
    BY <2>1 DEF Passing, WithinParent
  <2> QED
    BY <2>2, <2>3, <2>4
<1> QED
  BY <1>1, <1>2 DEF ExperimentInv

LEMMA InitialExperiment == Init => ExperimentInv
<1> SUFFICES ASSUME Init PROVE ExperimentInv
  OBVIOUS
<1>1. Shape /\ RegistryLease
  BY DEF Init, Shape, RegistryLease, EmptyRegistry
<1>2. ASSUME NEW r \in Runs PROVE RunOK(r) /\ WorkOK(r) /\ ~ Passing(r)
  BY DEF Init, RunOK, WorkOK, Passing, EmptyRegistry, InTry
<1>3. NoConflicts
  BY NothingConflictsWithNone DEF Init, NoConflicts
<1> QED
  BY <1>1, <1>2, <1>3 DEF ExperimentInv

LEMMA ExperimentInvariance == Spec => []ExperimentInv
<1>1. ExperimentInv /\ [Next]_vars => ExperimentInv'
  BY StepOfRun, StutterStep DEF Next
<1> QED
  BY <1>1, InitialExperiment, PTL DEF Spec

(* A promoted run has all its artifacts, passes its gates and is within the *)
(* budget of the parent the registry records for it, for any number of runs *)
(* that register, fail, die and are promoted meanwhile.                     *)
THEOREM PromotionsAreEarned == Spec => []PromotionEarned
<1>1. ExperimentInv => PromotionEarned
  <2> SUFFICES ASSUME ExperimentInv, NEW r \in DOMAIN registry, registry[r].promoted
               PROVE  /\ registry[r].status = "candidate"
                      /\ Artifacts(config[r]) \cup {"manifest", "promotion"} \subseteq files[r]
                      /\ "failure" \notin files[r]
                      /\ score[r].metric >= Floor
                      /\ registry[r].parent # NoRun =>
                           /\ registry[r].parent \in DOMAIN registry
                           /\ registry[registry[r].parent].data = registry[r].data
                           /\ registry[registry[r].parent].benchmark
                           /\ score[registry[r].parent].metric - score[r].metric <= Budget
    BY DEF PromotionEarned, Artifacts
  <2>1. r \in Runs
    BY DEF ExperimentInv, Shape
  <2>2. RunOK(r) /\ WorkOK(r) /\ WithinParent(r)
    BY <2>1 DEF ExperimentInv, Passing
  <2> QED
    BY <2>2 DEF RunOK, WorkOK, Earned, WithinParent
<1> QED
  BY <1>1, ExperimentInvariance, PTL

(* failure.json is only ever in the directory of a run that the registry    *)
(* calls failed.                                                            *)
THEOREM FailuresAreRecorded == Spec => []FailureRecorded
<1>1. ExperimentInv => FailureRecorded
  BY DEF ExperimentInv, RunOK, FailureRecorded
<1> QED
  BY <1>1, ExperimentInvariance, PTL

(* Living runs whose stages stay on the card they lease share no card, for  *)
(* any number of runs and cards, pinned or on the pool as a whole.          *)
THEOREM CardsAreExclusive == Spec => []LeasedCardsExclusive
<1>1. ExperimentInv => LeasedCardsExclusive
  <2> SUFFICES ASSUME ExperimentInv, NEW r \in Runs, NEW q \in Runs, r # q,
                      pc[r] # "dead", pc[q] # "dead", OnLeasedCard(r), OnLeasedCard(q)
               PROVE  CardOf(r, child[r]) # CardOf(q, child[q])
    BY DEF LeasedCardsExclusive
  <2>1. claim[r] = Claim(config[r], r) /\ claim[q] = Claim(config[q], q)
    BY DEF ExperimentInv, RunOK, OnLeasedCard
  <2>2. ~ Leases!Conflict(Claim(config[r], r), Claim(config[q], q))
    BY <2>1 DEF ExperimentInv, NoConflicts
  <2>3. ASSUME NEW n \in LeaseNames(config[r], r), n \in LeaseNames(config[q], q)
        PROVE  Claim(config[r], r)[n] # "exclusive" /\ Claim(config[q], q)[n] # "exclusive"
    BY <2>2, <2>3 DEF Leases!Conflict, Claim
  <2>4. CASE Pinned(config[r], "train") /\ Pinned(config[q], "train")
    <3> SUFFICES ASSUME config[r].device["train"] = config[q].device["train"] PROVE FALSE
      BY <2>4 DEF OnLeasedCard
    <3> DEFINE card == <<"gpu", config[r].device["train"]>>
    <3>1. card \in LeaseNames(config[r], r) /\ card \in LeaseNames(config[q], q)
      BY <2>4 DEF LeaseNames
    <3>2. card # <<"datasets">> /\ card # <<"gpu">>
      OBVIOUS
    <3>3. Claim(config[r], r)[card] = "exclusive"
      BY <3>1, <3>2 DEF Claim
    <3> QED
      BY <2>3, <3>1, <3>3
  <2>5. CASE ~ Pinned(config[r], "train")
    <3>1. <<"gpu">> \in LeaseNames(config[r], r) /\ <<"gpu">> \in LeaseNames(config[q], q)
      BY DEF LeaseNames
    <3>2. Claim(config[r], r)[<<"gpu">>] = "exclusive"
      BY <2>5, <3>1 DEF Claim
    <3> QED
      BY <2>3, <3>1, <3>2
  <2>6. CASE ~ Pinned(config[q], "train")
    <3>1. <<"gpu">> \in LeaseNames(config[r], r) /\ <<"gpu">> \in LeaseNames(config[q], q)
      BY DEF LeaseNames
    <3>2. Claim(config[q], q)[<<"gpu">>] = "exclusive"
      BY <2>6, <3>1 DEF Claim
    <3> QED
      BY <2>3, <3>1, <3>2
  <2> QED
    BY <2>4, <2>5, <2>6
<1> QED
  BY <1>1, ExperimentInvariance, PTL

(* A plan that pins the training pins every stage of the run to its card.   *)
StaysOnItsCard(c) ==
  Pinned(c, "train") =>
    \A s \in CommandNames(c) :
      (IF Pinned(c, s) THEN c.device[s] ELSE DefaultCard) = c.device["train"]

(* Where every plan keeps a run on the card it trains on, no two living     *)
(* runs compute on one card, whatever else they do: the leases of           *)
(* gpu_lease_requests are enough for such plans, and only a plan that       *)
(* moves a stage to another card makes two runs share one.                  *)
THEOREM OneCardPlansNeverShare ==
  ASSUME \A c \in Configs : StaysOnItsCard(c)
  PROVE  Spec => []LiveRunsShareNoCard
<1>1. ASSUME ExperimentInv, LeasedCardsExclusive PROVE LiveRunsShareNoCard
  <2>1. ASSUME NEW r \in Runs, pc[r] # "dead", child[r] # "none" PROVE OnLeasedCard(r)
    <3>1. pc[r] = "stages" /\ config[r] \in Configs
      BY <1>1, <2>1 DEF ExperimentInv, RunOK
    <3>2. child[r] \in CommandNames(config[r])
      BY <1>1, <2>1, <3>1 DEF ExperimentInv, WorkOK, CommandNames
    <3> QED
      BY <2>1, <3>1, <3>2 DEF OnLeasedCard, StaysOnItsCard, CardOf
  <2> QED
    BY <1>1, <2>1 DEF LiveRunsShareNoCard, LeasedCardsExclusive
<1> QED
  BY <1>1, ExperimentInvariance, CardsAreExclusive, PTL

(* Every step but a registration and an update leaves the registry alone.  *)
LEMMA RegistryChanges ==
  ASSUME [Next]_vars, registry' # registry
  PROVE  \E r \in Runs : Register(r) \/ Update(r)
<1> USE DEF shared
<1>1. PICK r \in Runs : Begin(r) \/ Advance(r) \/ Fault(r) \/ Crash(r) \/ OrphanEnds(r)
  BY DEF Next, vars
<1>2. ~ Begin(r) /\ ~ Crash(r) /\ ~ OrphanEnds(r)
  BY DEF Begin, Crash, OrphanEnds
<1>3. ~ Fault(r)
  BY DEF Fault, RegistryLeaked, SaveFails, PreparationFails, AcquireFails
<1>4. /\ ~ OpenRegistry(r) /\ ~ RegistryBusy(r) /\ ~ WriteManifest(r) /\ ~ PlanRefused(r)
      /\ ~ PlanAccepted(r) /\ ~ AcquireLeases(r) /\ ~ AcquireFails(r)
  BY DEF OpenRegistry, RegistryBusy, WriteManifest, PlanRefused, PlanAccepted, AcquireLeases,
         AcquireFails
<1>5. /\ ~ StartStage(r) /\ ~ StageDone(r) /\ ~ StageFails(r) /\ ~ ReleaseLeases(r)
      /\ ~ Judge(r) /\ ~ JudgeFails(r) /\ ~ ReportFailure(r)
  BY DEF StartStage, StageDone, StageFails, ReleaseLeases, Judge, JudgeFails, ReportFailure
<1> QED
  BY <1>1, <1>2, <1>3, <1>4, <1>5 DEF Advance

(* "Multiple agents cannot silently overwrite lineage metadata": for any    *)
(* number of runners that load, save, fail and die, no entry is lost, and   *)
(* an entry changes once, from running to its outcome.                      *)
THEOREM UpdatesAreKept == Spec => NoUpdateLost
<1> DEFINE Step ==
      /\ DOMAIN registry \subseteq DOMAIN registry'
      /\ Cardinality(DOMAIN registry' \ DOMAIN registry) <= 1
      /\ \A r \in DOMAIN registry :
           \/ registry'[r] = registry[r]
           \/ /\ registry[r].status = "running"
              /\ registry'[r].status \in Decided
              /\ DOMAIN registry' = DOMAIN registry
              /\ <<registry'[r].parent, registry'[r].created, registry'[r].data>>
                   = <<registry[r].parent, registry[r].created, registry[r].data>>
<1>1. ExperimentInv /\ [Next]_vars => [Step]_registry
  <2> SUFFICES ASSUME ExperimentInv, [Next]_vars, registry' # registry PROVE Step
    OBVIOUS
  <2>1. PICK r \in Runs : Register(r) \/ Update(r)
    BY RegistryChanges
  <2>2. CASE Register(r)
    <3>1. /\ DOMAIN registry' \ DOMAIN registry = {r}
          /\ \A q \in DOMAIN registry : registry'[q] = registry[q]
          /\ DOMAIN registry \subseteq DOMAIN registry'
      BY <2>2, RegisterStep
    <3>2. Cardinality({r}) = 1
      BY FS_Singleton
    <3> QED
      BY <3>1, <3>2
  <2>3. CASE Update(r)
    <3>1. /\ DOMAIN registry' = DOMAIN registry
          /\ \A q \in DOMAIN registry \ {r} : registry'[q] = registry[q]
          /\ \/ registry'[r] = registry[r]
             \/ /\ registry[r].status = "running" /\ registry'[r].status \in Decided
                /\ registry'[r].parent = registry[r].parent
                /\ registry'[r].created = registry[r].created
                /\ registry'[r].data = registry[r].data
      BY <2>3, UpdateStep
    <3>2. DOMAIN registry' \ DOMAIN registry = {}
      BY <3>1
    <3>3. Cardinality(DOMAIN registry' \ DOMAIN registry) <= 1
      BY <3>2, FS_EmptySet
    <3> QED
      BY <3>1, <3>3
  <2> QED
    BY <2>1, <2>2, <2>3
<1> QED
  BY <1>1, ExperimentInvariance, PTL DEF Spec, NoUpdateLost

(* Every step but the leasing and the release leaves the claims alone. *)
LEMMA ClaimChanges ==
  ASSUME [Next]_vars, claim' # claim
  PROVE  \E r \in Runs : AcquireLeases(r) \/ StageFails(r) \/ ReleaseLeases(r) \/ Crash(r)
<1> USE DEF work
<1>1. PICK r \in Runs : Begin(r) \/ Advance(r) \/ Fault(r) \/ Crash(r) \/ OrphanEnds(r)
  BY DEF Next, vars
<1>2. ~ Begin(r) /\ ~ OrphanEnds(r)
  BY DEF Begin, OrphanEnds
<1>3. ~ Fault(r)
  BY DEF Fault, RegistryLeaked, SaveFails, PreparationFails, AcquireFails
<1>4. /\ ~ OpenRegistry(r) /\ ~ RegistryBusy(r) /\ ~ WriteManifest(r) /\ ~ PlanRefused(r)
      /\ ~ PlanAccepted(r) /\ ~ AcquireFails(r) /\ ~ Register(r) /\ ~ Update(r)
  BY DEF OpenRegistry, RegistryBusy, WriteManifest, PlanRefused, PlanAccepted, AcquireFails,
         Register, Update
<1>5. /\ ~ StartStage(r) /\ ~ StageDone(r) /\ ~ Judge(r) /\ ~ JudgeFails(r) /\ ~ ReportFailure(r)
  BY DEF StartStage, StageDone, Judge, JudgeFails, ReportFailure
<1> QED
  BY <1>1, <1>2, <1>3, <1>4, <1>5 DEF Advance

LEMMA ClaimsAreNotEmpty == \A c, r : Claim(c, r) # Leases!NoClaim
<1> SUFFICES ASSUME NEW c, NEW r PROVE Claim(c, r) # Leases!NoClaim
  OBVIOUS
<1>1. <<"datasets">> \in DOMAIN Claim(c, r)
  BY DEF Claim, LeaseNames
<1>2. DOMAIN Leases!NoClaim = {}
  BY DEF Leases!NoClaim
<1> QED
  BY <1>1, <1>2

(* The runners take and give back whole claims that do not conflict: what a *)
(* run holds from leasing to the end of its stages, in success, failure and *)
(* death, is a behaviour of LeaseSpec.                                      *)
THEOREM LeasesAreKept == Spec => LeasesAsSpecified
<1>1. Init => Leases!Init
  BY DEF Init, Leases!Init
<1>2. ExperimentInv /\ [Next]_vars => [Leases!Next]_claim
  <2> SUFFICES ASSUME ExperimentInv, [Next]_vars, claim' # claim PROVE Leases!Next
    OBVIOUS
  <2>1. PICK r \in Runs : AcquireLeases(r) \/ StageFails(r) \/ ReleaseLeases(r) \/ Crash(r)
    BY ClaimChanges
  <2>2. RunOK(r)
    BY DEF ExperimentInv
  <2>3. CASE AcquireLeases(r)
    <3>1. claim[r] = Leases!NoClaim /\ config[r] \in Configs
      BY <2>2, <2>3 DEF AcquireLeases, Goto, RunOK
    <3>2. /\ \A q \in Runs \ {r} : ~ Leases!Conflict(Claim(config[r], r), claim[q])
          /\ claim' = [claim EXCEPT ![r] = Claim(config[r], r)]
      BY <2>3 DEF AcquireLeases
    <3>3. Claim(config[r], r) \in RunClaims
      BY <3>1 DEF RunClaims
    <3>4. Leases!Enter(r)
      BY <3>1, <3>2, <3>3 DEF Leases!Enter
    <3> QED
      BY <3>4 DEF Leases!Next
  <2>4. CASE ~ AcquireLeases(r)
    <3>1. claim' = [claim EXCEPT ![r] = Leases!NoClaim]
      BY <2>1, <2>4 DEF StageFails, ReleaseLeases, Crash
    <3>2. claim[r] # Leases!NoClaim
      <4> SUFFICES ASSUME claim[r] = Leases!NoClaim PROVE FALSE
        OBVIOUS
      <4>1. claim' = claim
        BY <3>1 DEF ExperimentInv, Shape
      <4> QED
        BY <4>1
    <3>3. Leases!Leave(r)
      BY <3>1, <3>2 DEF Leases!Leave
    <3> QED
      BY <3>3 DEF Leases!Next
  <2> QED
    BY <2>3, <2>4
<1> QED
  BY <1>1, <1>2, ExperimentInvariance, PTL DEF Spec, LeasesAsSpecified, Leases!Spec

(* Where a runner may be. *)
Pcs == {"idle", "registering", "manifest", "planning", "dry", "leasing", "stages",
        "judging", "closing", "handling", "reporting", "exited", "dead"}

Entries ==
  [status : Statuses, promoted : BOOLEAN, benchmark : BOOLEAN,
   parent : Runs \cup {NoRun, Ghost}, created : 1 .. Cardinality(Begun), data : {"d1", "d2"}]

RunFiles == {"manifest", "checkpoint", "calibration", "benchmark", "fleet", "promotion", "failure"}

LocalTypes ==
  /\ config \in [Runs -> Configs]
  /\ created \in [Runs -> 0 .. Cardinality(Begun)]
  /\ parent \in [Runs -> Runs \cup {NoRun, Ghost}]

SharedTypes ==
  /\ DOMAIN registry \subseteq Runs
  /\ \A r \in DOMAIN registry : registry[r] \in Entries
  /\ access \in [Runs -> {"none", "open", "leaked"}]
  /\ \A r \in Runs : DOMAIN snapshot[r] \subseteq Runs

StageTypes ==
  /\ stage \in [Runs -> 1 .. 5]
  /\ child \in [Runs -> Stages \cup {"none"}]

OutputTypes ==
  /\ \A r \in Runs : files[r] \subseteq RunFiles
  /\ score \in [Runs -> [metric : Metrics \cup {0}, fleet : BOOLEAN]]
  /\ verdict \in [Runs -> BOOLEAN]

(* Where the times and the parents in the registry come from. *)
Origins ==
  /\ IsFiniteSet(Begun)
  /\ \A r \in Runs :
       /\ created[r] = 0 <=> pc[r] = "idle"
       /\ pc[r] # "idle" /\ config[r].parent \in Runs => config[r].parent \in DOMAIN registry
       /\ r \in DOMAIN registry =>
            /\ registry[r].created = created[r]
            /\ registry[r].parent \in DOMAIN registry \cup {NoRun, Ghost}

(* A run linked to the latest promoted one has a promoted parent. *)
LinkedToPromoted ==
  \A r \in DOMAIN registry :
    config[r].parent = "latest_promoted" /\ registry[r].parent # NoRun =>
      registry[r].parent \in DOMAIN registry /\ registry[registry[r].parent].promoted

NoCycle ==
  \A S \in (SUBSET DOMAIN registry) \ {{}} : \E r \in S : registry[r].parent \notin S

LineageInv ==
  /\ ExperimentInv
  /\ pc \in [Runs -> Pcs] /\ LocalTypes /\ SharedTypes /\ StageTypes /\ OutputTypes
  /\ Origins
  /\ LinkedToPromoted /\ NoCycle

LEMMA TypesAreTypeOK == LineageInv => TypeOK
<1> SUFFICES ASSUME LineageInv PROVE TypeOK
  OBVIOUS
<1>1. \A r \in Runs : claim[r] \in {Leases!NoClaim, Claim(config[r], r)}
  BY DEF LineageInv, ExperimentInv, RunOK
<1> QED
  BY <1>1 DEF LineageInv, TypeOK, Pcs, LocalTypes, SharedTypes, StageTypes, OutputTypes, Entries,
     RunFiles

(* One step: which variables it may change. *)
LEMMA PcChanges ==
  ASSUME NEW r \in Runs, Begin(r) \/ Advance(r) \/ Fault(r) \/ Crash(r) \/ OrphanEnds(r)
  PROVE  pc' = pc \/ \E p \in Pcs \ {"idle"} : pc' = [pc EXCEPT ![r] = p]
<1> DEFINE Moves == pc' = pc \/ \E p \in Pcs \ {"idle"} : pc' = [pc EXCEPT ![r] = p]
<1> USE DEF Goto, Pcs
<1>1. Begin(r) \/ Crash(r) \/ OrphanEnds(r) => Moves
  BY DEF Begin, Crash, OrphanEnds
<1>2. OpenRegistry(r) \/ RegistryBusy(r) \/ RegistryLeaked(r) \/ SaveFails(r) => Moves
  BY DEF OpenRegistry, RegistryBusy, RegistryLeaked, SaveFails, AfterRaise
<1>3. Register(r) \/ Update(r) \/ WriteManifest(r) \/ PlanRefused(r) => Moves
  BY DEF Register, Update, WriteManifest, PlanRefused
<1>4. PlanAccepted(r) \/ PreparationFails(r) \/ AcquireLeases(r) \/ AcquireFails(r) => Moves
  BY DEF PlanAccepted, PreparationFails, AcquireLeases, AcquireFails
<1>5. StartStage(r) \/ StageDone(r) \/ StageFails(r) \/ ReleaseLeases(r) => Moves
  BY DEF StartStage, StageDone, StageFails, ReleaseLeases
<1>6. Judge(r) \/ JudgeFails(r) \/ ReportFailure(r) => Moves
  BY DEF Judge, JudgeFails, ReportFailure
<1> QED
  BY <1>1, <1>2, <1>3, <1>4, <1>5, <1>6 DEF Advance, Fault

(* Only a run that begins changes the configurations and the times. *)
LEMMA LocalChanges ==
  ASSUME NEW r \in Runs, Begin(r) \/ Advance(r) \/ Fault(r) \/ Crash(r) \/ OrphanEnds(r),
         ~ Begin(r), ~ Register(r)
  PROVE  UNCHANGED local
<1>1. Crash(r) \/ OrphanEnds(r) => UNCHANGED local
  BY DEF Crash, OrphanEnds
<1>2. OpenRegistry(r) \/ RegistryBusy(r) \/ RegistryLeaked(r) \/ SaveFails(r) => UNCHANGED local
  BY DEF OpenRegistry, RegistryBusy, RegistryLeaked, SaveFails
<1>3. Update(r) \/ WriteManifest(r) \/ PlanRefused(r) \/ PlanAccepted(r) => UNCHANGED local
  BY DEF Update, WriteManifest, PlanRefused, PlanAccepted
<1>4. PreparationFails(r) \/ AcquireLeases(r) \/ AcquireFails(r) => UNCHANGED local
  BY DEF PreparationFails, AcquireLeases, AcquireFails
<1>5. StartStage(r) \/ StageDone(r) \/ StageFails(r) \/ ReleaseLeases(r) => UNCHANGED local
  BY DEF StartStage, StageDone, StageFails, ReleaseLeases
<1>6. Judge(r) \/ JudgeFails(r) \/ ReportFailure(r) => UNCHANGED local
  BY DEF Judge, JudgeFails, ReportFailure
<1> QED
  BY <1>1, <1>2, <1>3, <1>4, <1>5, <1>6 DEF Advance, Fault

(* The latest promoted run exists: it is one of finitely many that began. *)
LEMMA LatestIsPromoted ==
  ASSUME SharedTypes, Origins, Latest(registry) # NoRun
  PROVE  Latest(registry) \in DOMAIN registry /\ registry[Latest(registry)].promoted
<1> DEFINE promoted == {q \in DOMAIN registry : registry[q].promoted}
           top == Cardinality(Begun)
           Gaps == {top - registry[q].created : q \in promoted}
<1>1. promoted # {}
  BY DEF Latest
<1>2. top \in Nat
  BY FS_CardinalityType DEF Origins
<1>3. \A q \in promoted : registry[q].created \in Nat /\ top - registry[q].created \in Nat
  <2> TAKE q \in promoted
  <2>1. registry[q].created \in 1 .. top
    BY DEF SharedTypes, Entries
  <2> HIDE DEF top
  <2> QED
    BY <1>2, <2>1
<1>4. PICK g \in Gaps : \A h \in Gaps : ~ (<<h, g>> \in OpToRel(<, Nat))
  <2>1. Gaps \subseteq Nat /\ Gaps # {}
    BY <1>1, <1>3
  <2> HIDE DEF Gaps
  <2> QED
    BY <2>1, NatLessThanWellFounded, WFMin, Zenon
<1>5. g \in Nat /\ \A h \in Gaps : h \in Nat /\ ~ (h < g)
  <2>1. Gaps \subseteq Nat
    BY <1>3
  <2> HIDE DEF Gaps
  <2> QED
    BY <1>4, <2>1, Zenon DEF OpToRel
<1>6. PICK q \in promoted : g = top - registry[q].created
  OBVIOUS
<1>7. \A o \in promoted : registry[o].created <= registry[q].created
  <2> TAKE o \in promoted
  <2>1. ~ (top - registry[o].created < top - registry[q].created)
    BY <1>5, <1>6
  <2> HIDE DEF top
  <2> QED
    BY <1>2, <1>3, <2>1
<1>8. (CHOOSE x \in promoted : \A o \in promoted : registry[o].created <= registry[x].created)
        \in promoted
  BY <1>7
<1> QED
  BY <1>1, <1>8 DEF Latest

LEMMA ParentsAreKnown ==
  ASSUME SharedTypes, Origins, NEW r \in Runs, pc[r] # "idle", config[r] \in Config
  PROVE  ResolveParent(config[r], registry) \in DOMAIN registry \cup {NoRun, Ghost}
<1>1. config[r].parent \in Runs \cup {"none", "latest_promoted", "ghost"}
  BY DEF Config
<1>2. config[r].parent \in Runs => config[r].parent \in DOMAIN registry
  BY DEF Origins
<1>3. Latest(registry) \in DOMAIN registry \cup {NoRun}
  BY LatestIsPromoted
<1> QED
  BY <1>1, <1>2, <1>3 DEF ResolveParent

(* A run that begins takes a time later than those there are. *)
LEMMA BeginTypes ==
  ASSUME LineageInv, NEW r \in Runs, Begin(r)
  PROVE  /\ Begun' = Begun \cup {r} /\ IsFiniteSet(Begun')
         /\ Cardinality(Begun') = Cardinality(Begun) + 1 /\ Cardinality(Begun) \in Nat
         /\ LocalTypes'
<1>1. /\ pc[r] = "idle" /\ created' = [created EXCEPT ![r] = 1 + Cardinality(Begun)]
      /\ parent' = parent
  BY DEF Begin, Goto
<1>2. PICK c \in Configs : config' = [config EXCEPT ![r] = c]
  BY DEF Begin
<1>3. IsFiniteSet(Begun) /\ r \notin Begun
  BY <1>1 DEF LineageInv, Origins, Begun
<1>4. Cardinality(Begun) \in Nat
  BY <1>3, FS_CardinalityType
<1>5. Begun' = Begun \cup {r}
  <2>1. created \in [Runs -> Nat]
    BY <1>4 DEF LineageInv, LocalTypes
  <2>2. \A q \in Runs : created'[q] # 0 <=> q = r \/ created[q] # 0
    BY <1>1, <1>4, <2>1
  <2> QED
    BY <2>2 DEF Begun
<1>6. IsFiniteSet(Begun') /\ Cardinality(Begun') = Cardinality(Begun) + 1
  BY <1>3, <1>5, FS_AddElement
<1>7. LocalTypes'
  <2>1. created' \in [Runs -> 0 .. Cardinality(Begun)']
    <3>1. created \in [Runs -> 0 .. Cardinality(Begun)]
      BY DEF LineageInv, LocalTypes
    <3> QED
      BY <1>1, <1>4, <1>6, <3>1
  <2> QED
    BY <1>1, <1>2, <2>1 DEF LineageInv, LocalTypes
<1> QED
  BY <1>4, <1>5, <1>6, <1>7

LEMMA RegisterTypes ==
  ASSUME LineageInv, NEW r \in Runs, Register(r)
  PROVE  /\ UNCHANGED <<config, created>> /\ LocalTypes' /\ registry'[r] \in Entries'
         /\ registry'[r].parent \in DOMAIN registry \cup {NoRun, Ghost}
         /\ registry'[r].created = created[r]
         /\ ~ registry'[r].promoted
         /\ config[r].parent = "latest_promoted" /\ registry'[r].parent # NoRun =>
              registry'[r].parent \in DOMAIN registry /\ registry[registry'[r].parent].promoted
<1>1. /\ pc[r] = "registering" /\ registry' = Registered(r, registry)
      /\ parent' = [parent EXCEPT ![r] = registry'[r].parent]
      /\ UNCHANGED <<config, created>>
  BY LoadedIsCurrent DEF Register, Goto, LineageInv
<1>2. config[r] \in Config
  BY ConfigsAssumption DEF LineageInv, LocalTypes
<1> DEFINE p == ResolveParent(config[r], registry)
<1>3. registry'[r] = [status |-> IF config[r].dry THEN "dry_run" ELSE "running",
                      promoted |-> FALSE, parent |-> p, created |-> created[r],
                      data |-> config[r].data, benchmark |-> FALSE]
  BY <1>1 DEF Registered
<1>4. p \in DOMAIN registry \cup {NoRun, Ghost}
  BY <1>1, <1>2, ParentsAreKnown DEF LineageInv
<1>5. created[r] \in 1 .. Cardinality(Begun)
  <2>1. created[r] # 0 /\ created[r] \in 0 .. Cardinality(Begun) /\ Cardinality(Begun) \in Nat
    BY <1>1, FS_CardinalityType DEF LineageInv, Origins, LocalTypes
  <2> QED
    BY <2>1
<1>6. config[r].parent = "latest_promoted" => p = Latest(registry)
  BY DEF ResolveParent
<1>7. Begun' = Begun
  BY <1>1 DEF Begun
<1>8. p \in Runs \cup {NoRun, Ghost}
  BY <1>4 DEF LineageInv, SharedTypes
<1> HIDE DEF p
<1>9. registry'[r] \in Entries'
  <2>1. config[r].data \in {"d1", "d2"}
    BY <1>2 DEF Config
  <2>2. Entries' = Entries
    BY <1>7 DEF Entries
  <2>3. registry'[r] \in Entries
    BY <1>3, <1>5, <1>8, <2>1 DEF Entries, Statuses
  <2> QED
    BY <2>2, <2>3
<1>10. LocalTypes'
  BY <1>1, <1>3, <1>7, <1>8 DEF LineageInv, LocalTypes
<1> QED
  BY <1>1, <1>3, <1>4, <1>6, <1>9, <1>10, LatestIsPromoted DEF LineageInv

LEMMA UpdateTypes ==
  ASSUME LineageInv, NEW r \in Runs, Update(r)
  PROVE  /\ UNCHANGED local /\ registry'[r] \in Entries
         /\ registry'[r].parent = registry[r].parent /\ registry'[r].created = registry[r].created
         /\ registry[r].promoted => registry'[r].promoted
<1>1. RunOK(r) /\ WorkOK(r) /\ RegistryLease
  BY DEF LineageInv, ExperimentInv
<1>2. /\ pc[r] \in {"dry", "closing", "handling"} /\ registry' = Updated(r, registry)
      /\ UNCHANGED local
  BY LoadedIsCurrent DEF Update, Goto, LineageInv
<1>3. r \in DOMAIN registry /\ IsEntry(registry[r]) /\ registry[r] \in Entries
  BY <1>1, <1>2 DEF RunOK, RegistryLease, InTry, LineageInv, SharedTypes
<1>4. \/ registry'[r] = [registry[r] EXCEPT !.status = "dry_run"]
      \/ registry'[r] = [registry[r] EXCEPT !.status = "failed"]
      \/ registry'[r] = [registry[r] EXCEPT
                           !.status = IF verdict[r] THEN "candidate" ELSE "rejected",
                           !.promoted = verdict[r], !.benchmark = TRUE]
  BY <1>2, <1>3 DEF Updated
<1>5. verdict[r] \in BOOLEAN
  BY DEF LineageInv, OutputTypes
<1>6. registry'[r] \in Entries
  BY <1>3, <1>4, <1>5 DEF Entries, Statuses
<1>7. ~ registry[r].promoted
  BY <1>1, <1>2, <1>3 DEF WorkOK
<1>8. registry'[r].parent = registry[r].parent /\ registry'[r].created = registry[r].created
  BY <1>3, <1>4 DEF Entries
<1> QED
  BY <1>2, <1>6, <1>7, <1>8

(* The registry after a step: as it was, with one run more, or with one     *)
(* entry changed that keeps its parent.                                     *)
LEMMA RegistrySteps ==
  ASSUME LineageInv, NEW r \in Runs,
         Begin(r) \/ Advance(r) \/ Fault(r) \/ Crash(r) \/ OrphanEnds(r)
  PROVE  /\ DOMAIN registry \subseteq DOMAIN registry'
         /\ \A q \in DOMAIN registry :
              /\ registry'[q].parent = registry[q].parent
              /\ registry'[q].created = registry[q].created
              /\ registry[q].promoted => registry'[q].promoted
         /\ \/ DOMAIN registry' = DOMAIN registry
            \/ Register(r) /\ DOMAIN registry' = DOMAIN registry \cup {r} /\ r \notin DOMAIN registry
         /\ registry' = registry \/ Register(r) \/ Update(r)
<1>1. CASE Register(r)
  BY <1>1, RegisterStep DEF LineageInv
<1>2. CASE Update(r)
  BY <1>2, UpdateStep, UpdateTypes DEF LineageInv
<1>3. CASE ~ Register(r) /\ ~ Update(r)
  <2>1. Begin(r) \/ Crash(r) \/ OrphanEnds(r) => UNCHANGED registry
    BY DEF Begin, Crash, OrphanEnds, shared
  <2>2. OpenRegistry(r) \/ RegistryBusy(r) \/ RegistryLeaked(r) \/ SaveFails(r) => UNCHANGED registry
    BY DEF OpenRegistry, RegistryBusy, RegistryLeaked, SaveFails
  <2>3. WriteManifest(r) \/ PlanRefused(r) \/ PlanAccepted(r) => UNCHANGED registry
    BY DEF WriteManifest, PlanRefused, PlanAccepted, shared
  <2>4. PreparationFails(r) \/ AcquireLeases(r) \/ AcquireFails(r) => UNCHANGED registry
    BY DEF PreparationFails, AcquireLeases, AcquireFails, shared
  <2>5. StartStage(r) \/ StageDone(r) \/ StageFails(r) \/ ReleaseLeases(r) => UNCHANGED registry
    BY DEF StartStage, StageDone, StageFails, ReleaseLeases, shared
  <2>6. Judge(r) \/ JudgeFails(r) \/ ReportFailure(r) => UNCHANGED registry
    BY DEF Judge, JudgeFails, ReportFailure, shared
  <2>7. UNCHANGED registry
    BY <1>3, <2>1, <2>2, <2>3, <2>4, <2>5, <2>6 DEF Advance, Fault
  <2> QED
    BY <2>7
<1> QED
  BY <1>1, <1>2, <1>3

LEMMA LocalTypesKept ==
  ASSUME LineageInv, NEW r \in Runs,
         Begin(r) \/ Advance(r) \/ Fault(r) \/ Crash(r) \/ OrphanEnds(r)
  PROVE  /\ LocalTypes' /\ IsFiniteSet(Begun)' /\ (Begin(r) \/ Begun' = Begun)
         /\ Entries \subseteq Entries'
<1>1. CASE Begin(r)
  <2>1. Cardinality(Begun) \in Nat /\ Cardinality(Begun)' = Cardinality(Begun) + 1
    BY <1>1, BeginTypes
  <2>2. 1 .. Cardinality(Begun) \subseteq (1 .. Cardinality(Begun))'
    BY <2>1
  <2>3. Entries \subseteq Entries'
    BY <2>2 DEF Entries
  <2> QED
    BY <1>1, <2>3, BeginTypes
<1>2. CASE Register(r)
  <2>1. Begun' = Begun /\ LocalTypes'
    BY <1>2, RegisterTypes DEF Begun
  <2> QED
    BY <2>1 DEF LineageInv, Origins, Entries
<1>3. CASE ~ Begin(r) /\ ~ Register(r)
  <2>1. UNCHANGED local
    BY <1>3, LocalChanges
  <2>2. Begun' = Begun
    BY <2>1 DEF Begun, local
  <2> QED
    BY <2>1, <2>2 DEF LineageInv, Origins, Entries, LocalTypes, local
<1> QED
  BY <1>1, <1>2, <1>3

LEMMA SharedTypesKept ==
  ASSUME LineageInv, NEW r \in Runs,
         Begin(r) \/ Advance(r) \/ Fault(r) \/ Crash(r) \/ OrphanEnds(r)
  PROVE  SharedTypes'
<1>1. DOMAIN registry' \subseteq Runs
  BY RegistrySteps DEF LineageInv, SharedTypes
<1>2. \A q \in DOMAIN registry' : registry'[q] \in Entries'
  <2>0. \A q \in DOMAIN registry : registry[q] \in Entries'
    BY LocalTypesKept DEF LineageInv, SharedTypes
  <2>1. CASE Register(r)
    <3>1. /\ DOMAIN registry' = DOMAIN registry \cup {r}
          /\ \A q \in DOMAIN registry : registry'[q] = registry[q]
      BY <2>1, RegisterStep DEF LineageInv
    <3>2. registry'[r] \in Entries'
      BY <2>1, RegisterTypes
    <3> QED
      BY <2>0, <3>1, <3>2
  <2>2. CASE Update(r)
    <3>1. /\ DOMAIN registry' = DOMAIN registry
          /\ \A q \in DOMAIN registry \ {r} : registry'[q] = registry[q]
      BY <2>2, UpdateStep DEF LineageInv
    <3>2. registry'[r] \in Entries'
      BY <2>2, UpdateTypes, LocalTypesKept
    <3> QED
      BY <2>0, <3>1, <3>2
  <2>3. CASE registry' = registry
    BY <2>0, <2>3
  <2> QED
    BY <2>1, <2>2, <2>3, RegistrySteps
<1>3. /\ access' \in [Runs -> {"none", "open", "leaked"}]
      /\ \A q \in Runs : DOMAIN snapshot'[q] \subseteq Runs
  <2>1. /\ access' = access \/ \E a \in {"none", "open", "leaked"} : access' = [access EXCEPT ![r] = a]
        /\ \/ snapshot' = snapshot \/ snapshot' = [snapshot EXCEPT ![r] = registry]
           \/ snapshot' = [snapshot EXCEPT ![r] = EmptyRegistry]
    <3> DEFINE Uses ==
          /\ access' = access \/ \E a \in {"none", "open", "leaked"} : access' = [access EXCEPT ![r] = a]
          /\ \/ snapshot' = snapshot \/ snapshot' = [snapshot EXCEPT ![r] = registry]
             \/ snapshot' = [snapshot EXCEPT ![r] = EmptyRegistry]
    <3>1. OpenRegistry(r) \/ RegistryLeaked(r) \/ SaveFails(r) => Uses
      BY DEF OpenRegistry, RegistryLeaked, SaveFails
    <3>2. RegistryBusy(r) => Uses
      <4> SUFFICES ASSUME RegistryBusy(r) PROVE Uses
        OBVIOUS
      <4>1. \/ access' = [access EXCEPT ![r] = "none"]
            \/ access' = [access EXCEPT ![r] = access[r]]
        BY DEF RegistryBusy
      <4>2. access[r] \in {"none", "open", "leaked"} /\ snapshot' = snapshot
        BY DEF RegistryBusy, LineageInv, SharedTypes
      <4> QED
        BY <4>1, <4>2
    <3>3. Register(r) \/ Update(r) \/ Crash(r) => Uses
      BY DEF Register, Update, Crash
    <3>4. Begin(r) \/ OrphanEnds(r) => UNCHANGED shared
      BY DEF Begin, OrphanEnds
    <3>5. WriteManifest(r) \/ PlanRefused(r) \/ PlanAccepted(r) => UNCHANGED shared
      BY DEF WriteManifest, PlanRefused, PlanAccepted
    <3>6. PreparationFails(r) \/ AcquireLeases(r) \/ AcquireFails(r) => UNCHANGED shared
      BY DEF PreparationFails, AcquireLeases, AcquireFails
    <3>7. StartStage(r) \/ StageDone(r) \/ StageFails(r) \/ ReleaseLeases(r) => UNCHANGED shared
      BY DEF StartStage, StageDone, StageFails, ReleaseLeases
    <3>8. Judge(r) \/ JudgeFails(r) \/ ReportFailure(r) => UNCHANGED shared
      BY DEF Judge, JudgeFails, ReportFailure
    <3>9. UNCHANGED shared => Uses
      BY DEF shared
    <3> QED
      BY <3>1, <3>2, <3>3, <3>4, <3>5, <3>6, <3>7, <3>8, <3>9 DEF Advance, Fault
  <2>2. DOMAIN snapshot = Runs /\ DOMAIN EmptyRegistry = {}
    BY DEF LineageInv, ExperimentInv, Shape, EmptyRegistry
  <2> QED
    BY <2>1, <2>2 DEF LineageInv, SharedTypes
<1> QED
  BY <1>1, <1>2, <1>3 DEF SharedTypes

LEMMA FewCommands == \A c : Len(Commands(c)) <= 4
BY DEF Commands

LEMMA StageTypesKept ==
  ASSUME LineageInv, NEW r \in Runs,
         Begin(r) \/ Advance(r) \/ Fault(r) \/ Crash(r) \/ OrphanEnds(r)
  PROVE  StageTypes'
<1> USE DEF work
<1>1. CASE StageDone(r)
  <2>1. pc[r] = "stages" /\ child[r] # "none" /\ WorkOK(r)
    BY <1>1 DEF StageDone, LineageInv, ExperimentInv
  <2>2. stage[r] \in 1 .. 4
    BY <2>1, CommandsAreStages, FewCommands DEF WorkOK
  <2>3. stage' = [stage EXCEPT ![r] = @ + 1] /\ child' = [child EXCEPT ![r] = "none"]
    BY <1>1 DEF StageDone
  <2> QED
    BY <2>2, <2>3 DEF LineageInv, StageTypes
<1>2. CASE StartStage(r)
  <2>1. stage[r] \in DOMAIN Commands(config[r])
    BY <1>2, CommandsAreStages DEF StartStage, LineageInv, StageTypes
  <2>2. Commands(config[r])[stage[r]] \in Stages
    BY <2>1, CommandsAreStages
  <2>3. stage' = stage /\ child' = [child EXCEPT ![r] = Commands(config[r])[stage[r]]]
    BY <1>2 DEF StartStage, Current
  <2> QED
    BY <2>2, <2>3 DEF LineageInv, StageTypes
<1>3. CASE ~ StageDone(r) /\ ~ StartStage(r)
  <2> DEFINE Calm == stage' = stage /\ (child' = child \/ child' = [child EXCEPT ![r] = "none"])
  <2>1. Begin(r) \/ Crash(r) \/ OrphanEnds(r) => Calm
    BY DEF Begin, Crash, OrphanEnds
  <2>2. OpenRegistry(r) \/ RegistryBusy(r) \/ RegistryLeaked(r) \/ SaveFails(r) => Calm
    BY DEF OpenRegistry, RegistryBusy, RegistryLeaked, SaveFails
  <2>3. Register(r) \/ Update(r) \/ WriteManifest(r) \/ PlanRefused(r) \/ PlanAccepted(r) => Calm
    BY DEF Register, Update, WriteManifest, PlanRefused, PlanAccepted
  <2>4. PreparationFails(r) \/ AcquireLeases(r) \/ AcquireFails(r) => Calm
    BY DEF PreparationFails, AcquireLeases, AcquireFails
  <2>5. StageFails(r) \/ ReleaseLeases(r) \/ Judge(r) \/ JudgeFails(r) \/ ReportFailure(r) => Calm
    BY DEF StageFails, ReleaseLeases, Judge, JudgeFails, ReportFailure
  <2>6. Calm
    BY <1>3, <2>1, <2>2, <2>3, <2>4, <2>5 DEF Advance, Fault
  <2> QED
    BY <2>6 DEF LineageInv, StageTypes
<1> QED
  BY <1>1, <1>2, <1>3

LEMMA OutputTypesKept ==
  ASSUME LineageInv, NEW r \in Runs,
         Begin(r) \/ Advance(r) \/ Fault(r) \/ Crash(r) \/ OrphanEnds(r)
  PROVE  OutputTypes'
<1> USE DEF outputs
<1>1. DOMAIN files = Runs
  BY DEF LineageInv, ExperimentInv, Shape
<1>2. child[r] # "none" => Artifact[child[r]] \in RunFiles
  BY DEF LineageInv, StageTypes, Stages, Artifact, RunFiles
<1>3. CASE StageDone(r)
  <2>1. PICK m \in Metrics, b \in BOOLEAN :
          score' = CASE child[r] = "benchmark" -> [score EXCEPT ![r].metric = m]
                     [] child[r] = "fleet_benchmark" -> [score EXCEPT ![r].fleet = b]
                     [] OTHER -> score
    BY <1>3 DEF StageDone
  <2>2. score' \in [Runs -> [metric : Metrics \cup {0}, fleet : BOOLEAN]]
    BY <2>1 DEF LineageInv, OutputTypes
  <2>3. /\ files' = [files EXCEPT ![r] = @ \cup {Artifact[child[r]]}] /\ child[r] # "none"
        /\ verdict' = verdict
    BY <1>3 DEF StageDone
  <2> QED
    BY <1>1, <1>2, <2>2, <2>3 DEF LineageInv, OutputTypes
<1>4. CASE Judge(r)
  <2>1. /\ \E b \in BOOLEAN : verdict' = [verdict EXCEPT ![r] = b]
        /\ files' = [files EXCEPT ![r] = @ \cup {"promotion"}] /\ score' = score
    BY <1>4 DEF Judge
  <2> QED
    BY <1>1, <2>1 DEF LineageInv, OutputTypes, RunFiles
<1>5. CASE ~ StageDone(r) /\ ~ Judge(r)
  <2> DEFINE Calm == /\ \/ files' = files
                        \/ \E f \in RunFiles : files' = [files EXCEPT ![r] = @ \cup {f}]
                     /\ UNCHANGED <<score, verdict>>
  <2>1. Begin(r) \/ Crash(r) => Calm
    BY DEF Begin, Crash
  <2>2. OpenRegistry(r) \/ RegistryBusy(r) \/ RegistryLeaked(r) \/ SaveFails(r) => Calm
    BY DEF OpenRegistry, RegistryBusy, RegistryLeaked, SaveFails
  <2>3. Register(r) \/ Update(r) \/ PlanRefused(r) \/ PlanAccepted(r) => Calm
    BY DEF Register, Update, PlanRefused, PlanAccepted
  <2>4. PreparationFails(r) \/ AcquireLeases(r) \/ AcquireFails(r) => Calm
    BY DEF PreparationFails, AcquireLeases, AcquireFails
  <2>5. StartStage(r) \/ StageFails(r) \/ ReleaseLeases(r) \/ JudgeFails(r) => Calm
    BY DEF StartStage, StageFails, ReleaseLeases, JudgeFails
  <2>6. WriteManifest(r) \/ ReportFailure(r) => Calm
    BY DEF WriteManifest, ReportFailure, RunFiles
  <2>7. OrphanEnds(r) => Calm
    BY <1>2 DEF OrphanEnds
  <2>8. Calm
    BY <1>5, <2>1, <2>2, <2>3, <2>4, <2>5, <2>6, <2>7 DEF Advance, Fault
  <2> QED
    BY <1>1, <2>8 DEF LineageInv, OutputTypes
<1> QED
  BY <1>3, <1>4, <1>5

LEMMA OriginsKept ==
  ASSUME LineageInv, NEW r \in Runs,
         Begin(r) \/ Advance(r) \/ Fault(r) \/ Crash(r) \/ OrphanEnds(r)
  PROVE  Origins'
<1>1. IsFiniteSet(Begun)'
  BY LocalTypesKept
<1>2. ASSUME NEW q \in Runs
      PROVE  /\ created'[q] = 0 <=> pc'[q] = "idle"
             /\ pc'[q] # "idle" /\ config'[q].parent \in Runs =>
                  config'[q].parent \in DOMAIN registry'
  <2>0. /\ created[q] = 0 <=> pc[q] = "idle"
        /\ pc[q] # "idle" /\ config[q].parent \in Runs => config[q].parent \in DOMAIN registry
        /\ DOMAIN pc = Runs /\ DOMAIN created = Runs /\ DOMAIN config = Runs
    BY DEF LineageInv, Origins, ExperimentInv, Shape
  <2>1. CASE Begin(r)
    <3>1. PICK c \in Configs : /\ c.parent \in Runs => c.parent \in DOMAIN registry
                               /\ config' = [config EXCEPT ![r] = c]
      BY <2>1 DEF Begin
    <3>2. /\ pc' = [pc EXCEPT ![r] = "registering"] /\ registry' = registry
          /\ created' = [created EXCEPT ![r] = 1 + Cardinality(Begun)]
      BY <2>1 DEF Begin, Goto, shared
    <3>3. 1 + Cardinality(Begun) # 0
      BY <2>1, BeginTypes
    <3> QED
      BY <2>0, <3>1, <3>2, <3>3
  <2>2. CASE ~ Begin(r)
    <3>1. UNCHANGED <<config, created>>
      <4>1. CASE Register(r)
        BY <4>1, RegisterTypes
      <4>2. CASE ~ Register(r)
        BY <2>2, <4>2, LocalChanges DEF local
      <4> QED
        BY <4>1, <4>2
    <3>2. pc'[q] = "idle" <=> pc[q] = "idle"
      <4>1. pc[r] # "idle"
        <5>1. CASE Advance(r)
          <6>1. OpenRegistry(r) \/ RegistryBusy(r) => pc[r] # "idle"
            BY DEF OpenRegistry, RegistryBusy, AtRegistry
          <6>2. Register(r) \/ Update(r) \/ WriteManifest(r) \/ PlanRefused(r) => pc[r] # "idle"
            BY DEF Register, Update, WriteManifest, PlanRefused, Goto
          <6>3. PlanAccepted(r) \/ AcquireLeases(r) \/ AcquireFails(r) => pc[r] # "idle"
            BY DEF PlanAccepted, AcquireLeases, AcquireFails, Goto
          <6>4. StartStage(r) \/ StageDone(r) \/ StageFails(r) \/ ReleaseLeases(r) => pc[r] # "idle"
            BY DEF StartStage, StageDone, StageFails, ReleaseLeases, Goto
          <6>5. Judge(r) \/ JudgeFails(r) \/ ReportFailure(r) => pc[r] # "idle"
            BY DEF Judge, JudgeFails, ReportFailure, Goto
          <6> QED
            BY <5>1, <6>1, <6>2, <6>3, <6>4, <6>5 DEF Advance
        <5>2. CASE Fault(r)
          <6>1. access[r] = "open" => pc[r] # "idle"
            BY DEF LineageInv, ExperimentInv, RunOK
          <6> QED
            BY <5>2, <6>1 DEF Fault, RegistryLeaked, AtRegistry, SaveFails, PreparationFails,
               AcquireFails, Goto
        <5> QED
          BY <2>2, <5>1, <5>2 DEF Crash, OrphanEnds
      <4>2. pc' = pc \/ \E p \in Pcs \ {"idle"} : pc' = [pc EXCEPT ![r] = p]
        BY PcChanges
      <4> QED
        BY <2>0, <4>1, <4>2
    <3>3. DOMAIN registry \subseteq DOMAIN registry'
      BY RegistrySteps
    <3> QED
      BY <2>0, <3>1, <3>2, <3>3
  <2> QED
    BY <2>1, <2>2
<1>3. ASSUME NEW q \in DOMAIN registry'
      PROVE  /\ registry'[q].created = created'[q]
             /\ registry'[q].parent \in DOMAIN registry' \cup {NoRun, Ghost}
  <2>1. CASE q \in DOMAIN registry
    <3>1. /\ registry'[q].parent = registry[q].parent /\ registry'[q].created = registry[q].created
          /\ DOMAIN registry \subseteq DOMAIN registry'
      BY <2>1, RegistrySteps
    <3>2. /\ q \in Runs /\ registry[q].created = created[q]
          /\ registry[q].parent \in DOMAIN registry \cup {NoRun, Ghost}
      BY <2>1 DEF LineageInv, Origins, SharedTypes
    <3>3. created'[q] = created[q]
      <4>1. CASE Begin(r)
        <5>1. q # r
          BY <2>1, <4>1 DEF LineageInv, ExperimentInv, RunOK, Begin, Goto
        <5> QED
          BY <3>2, <4>1, <5>1 DEF Begin, LineageInv, ExperimentInv, Shape
      <4>2. CASE Register(r)
        BY <4>2, RegisterTypes
      <4>3. CASE ~ Begin(r) /\ ~ Register(r)
        BY <4>3, LocalChanges DEF local
      <4> QED
        BY <4>1, <4>2, <4>3
    <3> QED
      BY <3>1, <3>2, <3>3
  <2>2. CASE q \notin DOMAIN registry
    <3>1. Register(r) /\ q = r /\ DOMAIN registry \subseteq DOMAIN registry'
      BY <2>2, RegistrySteps
    <3> QED
      BY <3>1, RegisterTypes
  <2> QED
    BY <2>1, <2>2
<1> QED
  BY <1>1, <1>2, <1>3 DEF Origins

LEMMA LinkedKept ==
  ASSUME LineageInv, NEW r \in Runs,
         Begin(r) \/ Advance(r) \/ Fault(r) \/ Crash(r) \/ OrphanEnds(r)
  PROVE  LinkedToPromoted'
<1> SUFFICES ASSUME NEW q \in DOMAIN registry', config'[q].parent = "latest_promoted",
                    registry'[q].parent # NoRun
             PROVE  registry'[q].parent \in DOMAIN registry' /\ registry'[registry'[q].parent].promoted
  BY DEF LinkedToPromoted
<1>1. registry'[q].parent \in DOMAIN registry /\ registry[registry'[q].parent].promoted
  <2>1. CASE q \in DOMAIN registry
    <3>1. config'[q] = config[q]
      <4>1. CASE Begin(r)
        <5>1. q # r /\ q \in Runs
          BY <2>1, <4>1 DEF LineageInv, SharedTypes, ExperimentInv, RunOK, Begin, Goto
        <5> QED
          BY <4>1, <5>1 DEF Begin, LineageInv, ExperimentInv, Shape
      <4>2. CASE Register(r)
        BY <4>2, RegisterTypes
      <4>3. CASE ~ Begin(r) /\ ~ Register(r)
        BY <4>3, LocalChanges DEF local
      <4> QED
        BY <4>1, <4>2, <4>3
    <3>2. registry'[q].parent = registry[q].parent
      BY <2>1, RegistrySteps
    <3> QED
      BY <2>1, <3>1, <3>2 DEF LineageInv, LinkedToPromoted
  <2>2. CASE q \notin DOMAIN registry
    <3>1. Register(r) /\ q = r
      BY <2>2, RegistrySteps
    <3> QED
      BY <3>1, RegisterTypes
  <2> QED
    BY <2>1, <2>2
<1> QED
  BY <1>1, RegistrySteps

(* The new run is nobody's parent yet, and its own parent is there already. *)
LEMMA NoCycleKept ==
  ASSUME LineageInv, NEW r \in Runs,
         Begin(r) \/ Advance(r) \/ Fault(r) \/ Crash(r) \/ OrphanEnds(r)
  PROVE  NoCycle'
<1> SUFFICES ASSUME NEW S \in (SUBSET DOMAIN registry') \ {{}}
             PROVE  \E q \in S : registry'[q].parent \notin S
  BY DEF NoCycle
<1>1. CASE S \subseteq DOMAIN registry
  <2>1. PICK q \in S : registry[q].parent \notin S
    BY <1>1 DEF LineageInv, NoCycle
  <2> QED
    BY <1>1, <2>1, RegistrySteps
<1>2. CASE ~ (S \subseteq DOMAIN registry)
  <2>1. Register(r) /\ r \in S /\ r \notin DOMAIN registry /\ S \ {r} \subseteq DOMAIN registry
    BY <1>2, RegistrySteps
  <2>2. registry'[r].parent \in DOMAIN registry \cup {NoRun, Ghost}
    BY <2>1, RegisterTypes
  <2>3. CASE S = {r}
    <3>1. registry'[r].parent # r
      BY <2>1, <2>2, NamesAssumption
    <3> QED
      BY <2>3, <3>1
  <2>4. CASE S # {r}
    <3>1. PICK q \in S \ {r} : registry[q].parent \notin S \ {r}
      BY <2>1, <2>4 DEF LineageInv, NoCycle
    <3>2. q \in DOMAIN registry /\ registry'[q].parent = registry[q].parent
      BY <2>1, <3>1, RegistrySteps
    <3>3. registry[q].parent \in DOMAIN registry \cup {NoRun, Ghost}
      BY <3>2 DEF LineageInv, SharedTypes, Origins
    <3>4. registry[q].parent # r
      BY <2>1, <3>3, NamesAssumption
    <3> QED
      BY <3>1, <3>2, <3>4
  <2> QED
    BY <2>3, <2>4
<1> QED
  BY <1>1, <1>2

LEMMA InitialLineage == Init => LineageInv
<1> SUFFICES ASSUME Init PROVE LineageInv
  OBVIOUS
<1>1. ExperimentInv
  BY InitialExperiment
<1>2. Begun = {} /\ IsFiniteSet(Begun) /\ Cardinality(Begun) = 0
  <2>1. Begun = {}
    BY DEF Init, Begun
  <2> QED
    BY <2>1, FS_EmptySet
<1>3. DOMAIN registry = {}
  BY DEF Init, EmptyRegistry
<1>4. LocalTypes
  <2>1. (CHOOSE c \in Configs : TRUE) \in Configs
    BY ConfigsAssumption
  <2>2. 0 \in 0 .. Cardinality(Begun)
    BY <1>2
  <2> QED
    BY <2>1, <2>2 DEF Init, LocalTypes
<1>5. pc \in [Runs -> Pcs] /\ SharedTypes /\ StageTypes /\ OutputTypes
  BY <1>3 DEF Init, Pcs, SharedTypes, StageTypes, OutputTypes, EmptyRegistry
<1>6. Origins /\ LinkedToPromoted /\ NoCycle
  BY <1>2, <1>3 DEF Init, Origins, LinkedToPromoted, NoCycle
<1> QED
  BY <1>1, <1>4, <1>5, <1>6 DEF LineageInv

LEMMA LineageStutters == LineageInv /\ UNCHANGED vars => LineageInv'
<1> SUFFICES ASSUME LineageInv, UNCHANGED vars PROVE LineageInv'
  OBVIOUS
<1>1. ExperimentInv'
  BY StutterStep DEF LineageInv
<1> USE DEF vars, local, shared, work, outputs
<1>2. pc' \in [Runs -> Pcs] /\ LocalTypes' /\ SharedTypes' /\ StageTypes' /\ OutputTypes'
  BY DEF LineageInv, LocalTypes, SharedTypes, StageTypes, OutputTypes, Entries, Begun
<1>3. Origins' /\ LinkedToPromoted' /\ NoCycle'
  BY DEF LineageInv, Origins, LinkedToPromoted, NoCycle, Begun
<1> QED
  BY <1>1, <1>2, <1>3 DEF LineageInv

LEMMA LineageInvariance == Spec => []LineageInv
<1>1. LineageInv /\ [Next]_vars => LineageInv'
  <2> SUFFICES ASSUME LineageInv, Next PROVE LineageInv'
    BY LineageStutters
  <2>1. PICK r \in Runs : Begin(r) \/ Advance(r) \/ Fault(r) \/ Crash(r) \/ OrphanEnds(r)
    BY DEF Next
  <2>2. ExperimentInv'
    BY <2>1, StepOfRun DEF LineageInv
  <2>3. pc' \in [Runs -> Pcs]
    BY <2>1, PcChanges DEF LineageInv
  <2>4. LocalTypes' /\ SharedTypes' /\ StageTypes' /\ OutputTypes'
    BY <2>1, LocalTypesKept, SharedTypesKept, StageTypesKept, OutputTypesKept
  <2> QED
    BY <2>1, <2>2, <2>3, <2>4, OriginsKept, LinkedKept, NoCycleKept DEF LineageInv
<1> QED
  BY <1>1, InitialLineage, PTL DEF Spec

(* Every variable keeps to its values, for any number of runs.              *)
THEOREM ExperimentTypes == Spec => []TypeOK
BY LineageInvariance, TypesAreTypeOK, PTL

(* A run linked to the latest promoted one has a promoted parent, and the   *)
(* parents of any set of runs lead out of it, for any number of runs that   *)
(* choose their parents while others register, fail and are promoted.       *)
THEOREM LineageIsGrounded == Spec => []LineageGrounded
<1>1. LineageInv => LineageGrounded
  BY DEF LineageInv, LinkedToPromoted, NoCycle, LineageGrounded
<1> QED
  BY <1>1, LineageInvariance, PTL
=============================================================================
