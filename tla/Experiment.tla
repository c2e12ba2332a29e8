----------------------------- MODULE Experiment -----------------------------
(***************************************************************************)
(* run_experiment of src/my_jev/experiment.py with the registry of         *)
(* registry.py and the leases of locking.py: runner processes that         *)
(* register a run, train, calibrate and benchmark it in child processes on *)
(* leased cards, judge it against its gates and its parent, and record the *)
(* outcome.  Runners share the registry file, the lock directory and the   *)
(* cards; each may fail at any step, or be killed.                         *)
(*                                                                         *)
(* A LeaseSet is taken and given back in one step, as LeaseSpec allows     *)
(* (module Locking shows that it may be), and a file is replaced in one    *)
(* step (module AtomicWrite).  The registry lease, which is never waited   *)
(* for, is modelled here.  All runs belong to one experiment family.       *)
(***************************************************************************)
EXTENDS Integers, Sequences, FiniteSets

CONSTANTS
  Runs,         \* runs, one runner process each
  Configs,      \* what a runner may be started with
  Cards,        \* accelerators of the host
  DefaultCard,  \* the card an unpinned "cuda" resolves to
  NoRun,        \* no parent
  Ghost,        \* a parent id that is not in the registry
  Metrics,      \* benchmark scores
  Floor,        \* the score the absolute gates ask for
  Budget        \* the drop against the parent that [regression] allows

ASSUME NamesAssumption == NoRun \notin Runs /\ Ghost \notin Runs \cup {NoRun}
ASSUME MetricsAssumption == Metrics \subseteq Nat /\ Floor \in Nat /\ Budget \in Nat
ASSUME CardsAssumption == DefaultCard \in Cards

Stages == {"train", "calibrate", "benchmark", "fleet_benchmark"}

\* What each stage leaves in the run directory when it exits with 0.
Artifact == [train |-> "checkpoint", calibrate |-> "calibration",
             benchmark |-> "benchmark", fleet_benchmark |-> "fleet"]

\* The order of `commands` in run_experiment.
Commands(c) ==
  <<"train", "calibrate", "benchmark">>
    \o (IF c.fleet THEN <<"fleet_benchmark">> ELSE <<>>)

CommandNames(c) == {Commands(c)[i] : i \in DOMAIN Commands(c)}

\* A device id that canonical_device_id refuses.
Malformed == "cuda/0"

Config ==
  [dry      : BOOLEAN,
   blocking : BOOLEAN,
   fleet    : BOOLEAN,       \* benchmark.fleet_states is configured
   device   : UNION {[S -> Cards \cup {Malformed}] : S \in SUBSET (Stages \cup {"deploy"})},
   parent   : Runs \cup {"none", "latest_promoted", "ghost"},
   data     : {"d1", "d2"},  \* the calibration and test hashes
   gates    : BOOLEAN]       \* every gate name in the spec is known

ASSUME ConfigsAssumption == Configs \subseteq Config /\ Configs # {}

VARIABLES
  pc,        \* where each runner is in run_experiment
  config,    \* its arguments and spec
  created,   \* entry.created_at, as an order; 0 before
  parent,    \* the local parent_run_id
  registry,  \* the registry file
  access,    \* its use of the registry lease
  snapshot,  \* the registry it loaded under the lease
  claim,     \* the LeaseSet it has in force
  stage,     \* index of the command it is at
  child,     \* the stage process it started
  files,     \* artifacts in its run directory
  score,     \* what benchmark.json and fleet-benchmark.json say
  verdict    \* promotion["passed"]

local == <<config, created, parent>>
shared == <<registry, access, snapshot>>
work == <<claim, stage, child>>
outputs == <<files, score, verdict>>
vars == <<pc, local, shared, work, outputs>>

------------------------------------------------------------------------------
(* gpu_lease_requests and the other leases of run_experiment *)

Pinned(c, s) == s \in DOMAIN c.device

LeaseNames(c, r) ==
  {<<"datasets">>, <<"gpu">>, <<"run", r>>}
    \cup (IF Pinned(c, "train") THEN {<<"gpu", c.device["train"]>>} ELSE {})

\* mutant: a card is claimed without a claim on the pool
ClaimCardAlone(c, r) ==
  [n \in LeaseNames(c, r) \ (IF Pinned(c, "train") THEN {<<"gpu">>} ELSE {}) |->
     IF n = <<"datasets">> THEN "shared" ELSE "exclusive"]

Claim(c, r) ==
  [n \in LeaseNames(c, r) |->
     IF n = <<"datasets">> \/ (n = <<"gpu">> /\ Pinned(c, "train"))
     THEN "shared" ELSE "exclusive"]

\* Whatever a runner may claim.
RunClaims == {Claim(c, r) : c \in Configs, r \in Runs}

Leases == INSTANCE LeaseSpec WITH
  Procs <- Runs,
  Resources <- {<<"datasets">>, <<"gpu">>} \cup {<<"gpu", d>> : d \in Cards}
                 \cup {<<"run", r>> : r \in Runs},
  Claims <- RunClaims

\* The card a stage process computes on.
CardOf(r, s) == IF Pinned(config[r], s) THEN config[r].device[s] ELSE DefaultCard

------------------------------------------------------------------------------
(* registry.py *)

EmptyRegistry == [r \in {} |-> "no entry"]

\* ExperimentRegistry.latest(promoted_only=True)
Latest(reg) ==
  LET promoted == {q \in DOMAIN reg : reg[q].promoted}
  IN IF promoted = {} THEN NoRun
     ELSE CHOOSE q \in promoted : \A o \in promoted : reg[o].created <= reg[q].created

\* mutant: the spec's parent is recorded as it is spelled
ParentAsSpelled(c, reg) == IF c.parent = "none" THEN NoRun ELSE c.parent

\* mutant: promoted_only is forgotten
LatestOfAll(c, reg) ==
  CASE c.parent = "none" -> NoRun
    [] c.parent = "ghost" -> Ghost
    [] c.parent = "latest_promoted" ->
         (IF DOMAIN reg = {} THEN NoRun
          ELSE CHOOSE q \in DOMAIN reg : \A o \in DOMAIN reg : reg[o].created <= reg[q].created)
    [] OTHER -> c.parent

\* _resolve_parent
ResolveParent(c, reg) ==
  CASE c.parent = "none" -> NoRun
    [] c.parent = "ghost" -> Ghost
    [] c.parent = "latest_promoted" -> Latest(reg)
    [] OTHER -> c.parent

\* ExperimentRegistry.register
Registered(r, reg) ==
  [q \in DOMAIN reg \cup {r} |->
     IF q = r
     THEN [status |-> IF config[r].dry THEN "dry_run" ELSE "running",
           promoted |-> FALSE,
           parent |-> ResolveParent(config[r], reg),
           created |-> created[r],
           data |-> config[r].data,
           benchmark |-> FALSE]
     ELSE reg[q]]

\* ExperimentRegistry.update, with what each caller of _update_run changes
Updated(r, reg) ==
  [reg EXCEPT ![r] =
     CASE pc[r] = "dry" -> [@ EXCEPT !.status = "dry_run"]
       [] pc[r] = "closing" ->
            [@ EXCEPT !.status = IF verdict[r] THEN "candidate" ELSE "rejected",
                      !.promoted = verdict[r],
                      !.benchmark = TRUE]
       [] pc[r] = "handling" -> [@ EXCEPT !.status = "failed"]]

------------------------------------------------------------------------------
(* Steps of run_experiment *)

Init ==
  /\ pc = [r \in Runs |-> "idle"]
  /\ config \in [Runs -> {CHOOSE c \in Configs : TRUE}]
  /\ created = [r \in Runs |-> 0]
  /\ parent = [r \in Runs |-> NoRun]
  /\ registry = EmptyRegistry
  /\ access = [r \in Runs |-> "none"]
  /\ snapshot = [r \in Runs |-> EmptyRegistry]
  /\ claim = [r \in Runs |-> Leases!NoClaim]
  /\ stage = [r \in Runs |-> 1]
  /\ child = [r \in Runs |-> "none"]
  /\ files = [r \in Runs |-> {}]
  /\ score = [r \in Runs |-> [metric |-> 0, fleet |-> TRUE]]
  /\ verdict = [r \in Runs |-> FALSE]

\* The runs that have begun: each took its created_at.
Begun == {q \in Runs : created[q] # 0}

Goto(r, from, to) == pc[r] = from /\ pc' = [pc EXCEPT ![r] = to]

\* The data audit passed, the run directory is made and the entry is built.  A
\* spec names a parent that exists: run ids carry the time they are made.
Begin(r) ==
  /\ Goto(r, "idle", "registering")
  /\ \E c \in Configs :
       /\ c.parent \in Runs => c.parent \in DOMAIN registry
       /\ config' = [config EXCEPT ![r] = c]
  /\ created' = [created EXCEPT ![r] = 1 + Cardinality(Begun)]
  /\ UNCHANGED <<parent, shared, work, outputs>>

\* The points where the registry is updated.
AtRegistry(r) == pc[r] \in {"registering", "dry", "closing", "handling"}

\* mutant: no lease around load and save
OpenUnlocked(r) ==
  /\ AtRegistry(r)
  /\ access[r] = "none"
  /\ access' = [access EXCEPT ![r] = "open"]
  /\ snapshot' = [snapshot EXCEPT ![r] = registry]
  /\ UNCHANGED <<pc, local, registry, work, outputs>>

\* `with Lease(...)` succeeds and ExperimentRegistry(registry_path) loads.
OpenRegistry(r) ==
  /\ AtRegistry(r)
  /\ \A q \in Runs : access[q] = "none"
  /\ access' = [access EXCEPT ![r] = "open"]
  /\ snapshot' = [snapshot EXCEPT ![r] = registry]
  /\ UNCHANGED <<pc, local, registry, work, outputs>>

\* mutant: the last update is tried again until it succeeds
Retry(r) ==
  IF pc[r] = "closing" THEN "closing" ELSE "exited"

\* Where an exception in the registry update leads: only the last update of a
\* run is inside the try statement.
AfterRaise(r) ==
  IF pc[r] = "closing" THEN "handling" ELSE "exited"

\* The lease is busy, and the runner does not wait, --blocking or not.  The
\* holder may be the runner itself, with a lease it leaked.
RegistryBusy(r) ==
  /\ AtRegistry(r)
  /\ access[r] # "open"
  /\ \E q \in Runs : access[q] # "none"
  /\ pc' = [pc EXCEPT ![r] = AfterRaise(r)]
  /\ access' = [access EXCEPT ![r] = IF AfterRaise(r) = "exited" THEN "none" ELSE @]
  /\ UNCHANGED <<local, registry, snapshot, work, outputs>>

\* The owner record of the lease cannot be written: __exit__ never runs, and
\* the lock stays until the process ends.
RegistryLeaked(r) ==
  /\ AtRegistry(r)
  /\ \A q \in Runs : access[q] = "none"
  /\ pc' = [pc EXCEPT ![r] = AfterRaise(r)]
  /\ access' = [access EXCEPT ![r] = IF AfterRaise(r) = "exited" THEN "none" ELSE "leaked"]
  /\ UNCHANGED <<local, registry, snapshot, work, outputs>>

\* _save raises: the file keeps its previous contents and the lease is released.
SaveFails(r) ==
  /\ access[r] = "open"
  /\ pc' = [pc EXCEPT ![r] = AfterRaise(r)]
  /\ access' = [access EXCEPT ![r] = "none"]
  /\ snapshot' = [snapshot EXCEPT ![r] = EmptyRegistry]
  /\ UNCHANGED <<local, registry, work, outputs>>

\* _register_run: resolve the parent, add the entry, save.
Register(r) ==
  /\ access[r] = "open"
  /\ Goto(r, "registering", "manifest")
  /\ registry' = Registered(r, snapshot[r])
  /\ parent' = [parent EXCEPT ![r] = registry'[r].parent]
  /\ access' = [access EXCEPT ![r] = "none"]
  /\ snapshot' = [snapshot EXCEPT ![r] = EmptyRegistry]
  /\ UNCHANGED <<config, created, work, outputs>>

\* _update_run
Update(r) ==
  /\ access[r] = "open"
  /\ \/ Goto(r, "dry", "exited")
     \/ Goto(r, "closing", "exited")
     \/ Goto(r, "handling", "reporting")
  /\ registry' = Updated(r, snapshot[r])
  /\ access' = [access EXCEPT ![r] = "none"]
  /\ snapshot' = [snapshot EXCEPT ![r] = EmptyRegistry]
  /\ UNCHANGED <<local, work, outputs>>

WriteManifest(r) ==
  /\ Goto(r, "manifest", "planning")
  /\ files' = [files EXCEPT ![r] = @ \cup {"manifest"}]
  /\ UNCHANGED <<local, shared, work, score, verdict>>

\* The plan names a stage this run does not have, or the card to lease is
\* malformed; both are found after the registration and before the try.
PlanRefused(r) ==
  /\ Goto(r, "planning", "exited")
  /\ \/ ~ DOMAIN config[r].device \subseteq CommandNames(config[r])
     \/ /\ ~ config[r].dry
        /\ Pinned(config[r], "train")
        /\ config[r].device["train"] = Malformed
  /\ UNCHANGED <<local, shared, work, outputs>>

PlanAccepted(r) ==
  /\ Goto(r, "planning", IF config[r].dry THEN "dry" ELSE "leasing")
  /\ DOMAIN config[r].device \subseteq CommandNames(config[r])
  /\ \/ config[r].dry
     \/ Pinned(config[r], "train") => config[r].device["train"] # Malformed
  /\ UNCHANGED <<local, shared, work, outputs>>

\* manifest.json or the stage commands of a dry run cannot be written.
PreparationFails(r) ==
  /\ pc[r] \in {"manifest", "planning"}
  /\ pc' = [pc EXCEPT ![r] = "exited"]
  /\ UNCHANGED <<local, shared, work, outputs>>

\* mutant: the leases are not taken
AcquireNothing(r) ==
  /\ Goto(r, "leasing", "stages")
  /\ claim' = [claim EXCEPT ![r] = Claim(config[r], r)]
  /\ UNCHANGED <<local, shared, stage, child, outputs>>

\* leases.acquire()
AcquireLeases(r) ==
  /\ Goto(r, "leasing", "stages")
  /\ \A q \in Runs \ {r} : ~ Leases!Conflict(Claim(config[r], r), claim[q])
  /\ claim' = [claim EXCEPT ![r] = Claim(config[r], r)]
  /\ UNCHANGED <<local, shared, stage, child, outputs>>

\* leases.acquire() raises: a claim in force, a run or a probe half-way through
\* its own acquire, or an I/O error.
AcquireFails(r) ==
  /\ Goto(r, "leasing", "handling")
  /\ UNCHANGED <<local, shared, work, outputs>>

Current(r) == Commands(config[r])[stage[r]]

\* _stage: the command file is written and the process started.
StartStage(r) ==
  /\ pc[r] = "stages"
  /\ child[r] = "none"
  /\ stage[r] <= Len(Commands(config[r]))
  /\ CardOf(r, Current(r)) # Malformed
  /\ child' = [child EXCEPT ![r] = Current(r)]
  /\ UNCHANGED <<pc, local, shared, claim, stage, outputs>>

\* The stage exits with 0 and its artifact is there.
StageDone(r) ==
  /\ pc[r] = "stages"
  /\ child[r] # "none"
  /\ child' = [child EXCEPT ![r] = "none"]
  /\ stage' = [stage EXCEPT ![r] = @ + 1]
  /\ files' = [files EXCEPT ![r] = @ \cup {Artifact[child[r]]}]
  /\ \E m \in Metrics, b \in BOOLEAN :
       score' = CASE child[r] = "benchmark" -> [score EXCEPT ![r].metric = m]
                  [] child[r] = "fleet_benchmark" -> [score EXCEPT ![r].fleet = b]
                  [] OTHER -> score
  /\ UNCHANGED <<pc, local, shared, claim, verdict>>

\* _stage raises: a refused pin, a file that cannot be written, a stage that
\* failed.  The finally clause releases the leases.
StageFails(r) ==
  /\ Goto(r, "stages", "handling")
  /\ child' = [child EXCEPT ![r] = "none"]
  /\ claim' = [claim EXCEPT ![r] = Leases!NoClaim]
  /\ UNCHANGED <<local, shared, stage, outputs>>

\* All stages are done and the leases are released.
ReleaseLeases(r) ==
  /\ stage[r] > Len(Commands(config[r]))
  /\ Goto(r, "stages", "judging")
  /\ claim' = [claim EXCEPT ![r] = Leases!NoClaim]
  /\ UNCHANGED <<local, shared, stage, child, outputs>>

\* mutant: a benchmark on other data is compared all the same
RegressionOnAnyData(r) ==
  \/ parent[r] = NoRun
  \/ /\ parent[r] \in DOMAIN registry
     /\ registry[parent[r]].benchmark
     /\ score[parent[r]].metric - score[r].metric <= Budget

\* _parent_regression, which reads the registry without the lease
RegressionPassed(r) ==
  \/ parent[r] = NoRun
  \/ /\ parent[r] \in DOMAIN registry
     /\ registry[parent[r]].data = config[r].data
     /\ registry[parent[r]].benchmark
     /\ score[parent[r]].metric - score[r].metric <= Budget

\* The gates are evaluated and promotion.json is written.
Judge(r) ==
  /\ Goto(r, "judging", "closing")
  /\ config[r].gates
  /\ verdict' = [verdict EXCEPT ![r] =
                   /\ score[r].metric >= Floor
                   /\ RegressionPassed(r)
                   /\ config[r].fleet => score[r].fleet]
  /\ files' = [files EXCEPT ![r] = @ \cup {"promotion"}]
  /\ UNCHANGED <<local, shared, work, score>>

\* An unknown gate name, noticed only now, or a file that cannot be written.
JudgeFails(r) ==
  /\ Goto(r, "judging", "handling")
  /\ UNCHANGED <<local, shared, work, outputs>>

\* mutant: failure.json is written before the registry is updated
ReportFirst(r) ==
  /\ Goto(r, "handling", "exited")
  /\ files' = [files EXCEPT ![r] = @ \cup {"failure"}]
  /\ UNCHANGED <<local, shared, work, score, verdict>>

\* failure.json is written, or cannot be, and the exception goes on.
ReportFailure(r) ==
  /\ Goto(r, "reporting", "exited")
  /\ \/ files' = [files EXCEPT ![r] = @ \cup {"failure"}]
     \/ UNCHANGED files
  /\ UNCHANGED <<local, shared, work, score, verdict>>

\* The runner is killed: its locks go, its stage process stays.
Crash(r) ==
  /\ pc[r] \notin {"idle", "exited", "dead"}
  /\ pc' = [pc EXCEPT ![r] = "dead"]
  /\ claim' = [claim EXCEPT ![r] = Leases!NoClaim]
  /\ access' = [access EXCEPT ![r] = "none"]
  /\ snapshot' = [snapshot EXCEPT ![r] = EmptyRegistry]
  /\ UNCHANGED <<local, registry, stage, child, outputs>>

OrphanEnds(r) ==
  /\ pc[r] = "dead"
  /\ child[r] # "none"
  /\ child' = [child EXCEPT ![r] = "none"]
  /\ \/ files' = [files EXCEPT ![r] = @ \cup {Artifact[child[r]]}]
     \/ UNCHANGED files
  /\ UNCHANGED <<pc, local, shared, claim, stage, score, verdict>>

\* An I/O error.
Fault(r) ==
  \/ RegistryLeaked(r) \/ SaveFails(r) \/ PreparationFails(r)
  \/ config[r].blocking /\ AcquireFails(r)

Advance(r) ==
  \/ OpenRegistry(r) \/ RegistryBusy(r) \/ Register(r) \/ Update(r)
  \/ WriteManifest(r) \/ PlanRefused(r) \/ PlanAccepted(r)
  \/ AcquireLeases(r) \/ (~ config[r].blocking /\ AcquireFails(r))
  \/ StartStage(r) \/ StageDone(r) \/ StageFails(r) \/ ReleaseLeases(r)
  \/ Judge(r) \/ JudgeFails(r) \/ ReportFailure(r)

Next == \E r \in Runs : Begin(r) \/ Advance(r) \/ Fault(r) \/ Crash(r) \/ OrphanEnds(r)

Spec == Init /\ [][Next]_vars

\* A runner that started keeps going, a stage process ends, and a --blocking
\* runner gets its leases once nothing conflicts with them for good.  Nothing
\* obliges an I/O error to happen.
FairSpec == Spec /\ \A r \in Runs : WF_vars(Advance(r))

------------------------------------------------------------------------------
Statuses == {"running", "dry_run", "candidate", "rejected", "failed"}

Decided == Statuses \ {"running"}

(* Type invariant. *)
TypeOK ==
  /\ pc \in [Runs -> {"idle", "registering", "manifest", "planning", "dry", "leasing", "stages",
                      "judging", "closing", "handling", "reporting", "exited", "dead"}]
  /\ config \in [Runs -> Configs]
  /\ created \in [Runs -> 0 .. Cardinality(Begun)]
  /\ parent \in [Runs -> Runs \cup {NoRun, Ghost}]
  /\ DOMAIN registry \subseteq Runs
  /\ \A r \in DOMAIN registry :
       registry[r] \in [status : Statuses, promoted : BOOLEAN, benchmark : BOOLEAN,
                        parent : Runs \cup {NoRun, Ghost},
                        created : 1 .. Cardinality(Begun), data : {"d1", "d2"}]
  /\ access \in [Runs -> {"none", "open", "leaked"}]
  /\ \A r \in Runs : DOMAIN snapshot[r] \subseteq Runs
  /\ \A r \in Runs : claim[r] \in {Leases!NoClaim, Claim(config[r], r)}
  /\ stage \in [Runs -> 1 .. 5]
  /\ child \in [Runs -> Stages \cup {"none"}]
  /\ \A r \in Runs : files[r] \subseteq {"manifest", "checkpoint", "calibration", "benchmark",
                                         "fleet", "promotion", "failure"}
  /\ score \in [Runs -> [metric : Metrics \cup {0}, fleet : BOOLEAN]]
  /\ verdict \in [Runs -> BOOLEAN]

(* Whatever the interleaving of the runners' load and save, and whichever of  *)
(* them fail or die in between, no entry is lost or taken back to an earlier  *)
(* state, an outcome is final, and a save touches one run: "multiple agents   *)
(* cannot silently overwrite lineage metadata" (registry.py under the         *)
(* registry lease of experiment.py).                                          *)
NoUpdateLost ==
  [][/\ DOMAIN registry \subseteq DOMAIN registry'
     /\ Cardinality(DOMAIN registry' \ DOMAIN registry) <= 1
     /\ \A r \in DOMAIN registry :
          \/ registry'[r] = registry[r]
          \/ /\ registry[r].status = "running"
             /\ registry'[r].status \in Decided
             /\ DOMAIN registry' = DOMAIN registry
             /\ <<registry'[r].parent, registry'[r].created, registry'[r].data>>
                  = <<registry[r].parent, registry[r].created, registry[r].data>>]_registry

(* A promoted run earned it: every artifact was produced and judged, the      *)
(* absolute gates held, and the run was within budget of the parent recorded  *)
(* for it, on the same evaluation data, although the parent was chosen at     *)
(* registration and read again, without the lease, after the stages.          *)
PromotionEarned ==
  \A r \in DOMAIN registry :
    registry[r].promoted =>
      /\ registry[r].status = "candidate"
      /\ {Artifact[s] : s \in CommandNames(config[r])} \cup {"manifest", "promotion"} \subseteq files[r]
      /\ "failure" \notin files[r]
      /\ score[r].metric >= Floor
      /\ LET p == registry[r].parent
         IN p # NoRun =>
              /\ p \in DOMAIN registry
              /\ registry[p].data = registry[r].data
              /\ registry[p].benchmark
              /\ score[p].metric - score[r].metric <= Budget

(* A run linked by parent = "latest_promoted" has a promoted parent, and      *)
(* following the parents ends: no set of runs has all its parents inside.     *)
LineageGrounded ==
  /\ \A r \in DOMAIN registry :
       config[r].parent = "latest_promoted" /\ registry[r].parent # NoRun =>
         registry[r].parent \in DOMAIN registry /\ registry[registry[r].parent].promoted
  /\ \A S \in (SUBSET DOMAIN registry) \ {{}} :
       \E r \in S : registry[r].parent \notin S

(* A run directory with failure.json belongs to a run the registry calls      *)
(* failed, however many of the steps around the failure failed too.           *)
FailureRecorded ==
  \A r \in Runs :
    "failure" \in files[r] => r \in DOMAIN registry /\ registry[r].status = "failed"

OnLeasedCard(r) ==
  /\ child[r] # "none"
  /\ Pinned(config[r], "train") => CardOf(r, child[r]) = config[r].device["train"]

(* Two living runs whose stages compute on the card each has leased, or on    *)
(* the pool it leased as a whole, never compute on the same card: pinned and  *)
(* unpinned runs, and runs of the older scheme, exclude each other.           *)
LeasedCardsExclusive ==
  \A r, q \in Runs :
    r # q /\ pc[r] # "dead" /\ pc[q] # "dead" /\ OnLeasedCard(r) /\ OnLeasedCard(q) =>
      CardOf(r, child[r]) # CardOf(q, child[q])

(* The runners take and give back their leases as LeaseSpec says, in success, *)
(* failure and death, which is what module Locking provides.                  *)
LeasesAsSpecified == Leases!Spec

(* A run that has begun comes to an end, waiting for leases included.         *)
EveryRunEnds == \A r \in Runs : pc[r] = "registering" ~> pc[r] \in {"exited", "dead"}

------------------------------------------------------------------------------
(* What documents and comments say, and the code does not do. *)

(* experiment.py, gpu_lease_requests: "this specific card, so two runs cannot *)
(* share it".  Of two runs, both alive.                                       *)
LiveRunsShareNoCard ==
  \A r, q \in Runs :
    r # q /\ pc[r] # "dead" /\ pc[q] # "dead" /\ child[r] # "none" /\ child[q] # "none" =>
      CardOf(r, child[r]) # CardOf(q, child[q])

(* docs/EXPERIMENTS.md: "A failed run writes failure.json and remains in the  *)
(* registry", with "failure notes": a runner that ended leaves no run that    *)
(* looks as if it were still running.                                         *)
NoneLeftRunning ==
  \A r \in DOMAIN registry : pc[r] = "exited" => registry[r].status # "running"
==============================================================================
