------------------------------ MODULE GpuPlan ------------------------------
(***************************************************************************)
(* gpu_inventory.py, gpu_plan.py and gpu_plan_cli.py: which cards a host   *)
(* reports as free, what the stages of a job are expected to cost, and the *)
(* cards each stage is placed on.  Minutes are whole numbers; a share of   *)
(* the horizon and a rescaled price are rounded down.                      *)
(***************************************************************************)
EXTENDS Rules

CONSTANTS PlanRequests,    \* a job with the documents and options of one call
          CardRank         \* the order of the card ids, as strings

VARIABLES planRequest, pool, plan
gpuVars == <<planRequest, pool, plan>>

(* Times are added by counting: minutes[x] pairs for each x of a set. *)
Sum(S, minutes) == Cardinality(UNION {{x} \X (1 .. minutes[x]) : x \in S})

StageKind == {"train", "calibrate", "benchmark", "fleet_benchmark"}

Stages(job) == IF job.fleet THEN StageKind ELSE StageKind \ {"fleet_benchmark"}

(* estimate_gpu_minutes: calibration costs 15 percent of the training, the *)
(* benchmark 35 percent and the fleet benchmark 30 percent.                *)
Estimate(job, stage) ==
  job.unit * [train |-> 20, calibrate |-> 3, benchmark |-> 7, fleet_benchmark |-> 6][stage]
---------------------------------------------------------------------------
(* A card with no time left is as good as a card in use. *)
Card(id, free, trusted) == [id |-> id, free |-> free, trusted |-> trusted]

CardType == [id : DOMAIN CardRank, free : Nat, trusted : BOOLEAN]

(* What pydantic, the spec and the documents of the options let through. *)
IsPlanRequest(r) ==
  /\ r.job.fleet \in BOOLEAN /\ r.job.unit \in Nat \ {0}
  /\ DOMAIN r.measured \subseteq StageKind /\ \A s \in DOMAIN r.measured : r.measured[s] \in Nat
  /\ IsFiniteSet(DOMAIN r.registry) /\ \A i \in DOMAIN r.registry : r.registry[i].minutes \in Int
  /\ DOMAIN r.timings \subseteq StageKind /\ \A s \in DOMAIN r.timings : r.timings[s].minutes \in Int
  /\ r.inventory \in {"none", "file", "probe"}
  /\ r.cards \subseteq CardType /\ IsFiniteSet(r.cards)
  /\ r.devices \subseteq DOMAIN CardRank /\ IsFiniteSet(r.devices)
  /\ r.horizon \in Nat

ASSUME PlansAssumption == \A r \in PlanRequests : IsPlanRequest(r)
ASSUME CardsAssumption ==
  \A c, d \in DOMAIN CardRank : CardRank[c] \in Int /\ (CardRank[c] = CardRank[d] => c = d)

(* The directory of --lock-dir, or else the one the registry path implies. *)
LockDir(r) == IF r.asked # None THEN r.asked ELSE r.derived

(* free_devices: the lease of a run is taken and given back.  A run shares *)
(* the pool with other runs; "pool" is here the lease of all of it.        *)
FreeDevices(r) ==
  IF LockDir(r) = None THEN r.devices
  ELSE {d \in r.devices : r.held[LockDir(r)] \cap {d, "pool"} = {}}

Horizon(r) ==
  IF r.per_device THEN r.horizon ELSE r.horizon \div Cardinality(FreeDevices(r))

LocalInventory(r) ==
  {Card(d, IF d \in FreeDevices(r) THEN Horizon(r) ELSE 0, d \notin r.untrusted) : d \in r.devices}

PlanInit == planRequest \in PlanRequests /\ pool = None /\ plan = None

(* _inventory: no inventory, a document, or what this host reports. *)
Inventory(r) == CASE r.inventory = "none"  -> {}
                  [] r.inventory = "file"  -> r.cards
                  [] r.inventory = "probe" -> LocalInventory(r)

TakeInventory ==
  /\ planRequest # None /\ pool = None
  /\ pool' = Inventory(planRequest)
  /\ UNCHANGED <<planRequest, plan>>
---------------------------------------------------------------------------
(* calibration_from_registry: the runs that went through the whole chain.  *)
Samples(r) ==
  {i \in DOMAIN r.registry : r.registry[i].status \in {"candidate", "rejected"} /\ r.registry[i].minutes > 0}

(* measured_stage_minutes_from_run, of the stages that succeeded. *)
Timed(r) == {s \in DOMAIN r.timings : r.timings[s].completed /\ r.timings[s].minutes > 0}

(* What the chain took: the sum of the timed stages, even of a part of the *)
(* chain, or else the mean of the runs.                                    *)
Total(r) ==
  IF Timed(r) # {} THEN Sum(Timed(r), [s \in Timed(r) |-> r.timings[s].minutes])
  ELSE Sum(Samples(r), [i \in Samples(r) |-> r.registry[i].minutes]) \div Cardinality(Samples(r))

Estimated(job) == Sum(Stages(job), [s \in Stages(job) |-> Estimate(job, s)])

Price(r, stage) ==
  IF stage \in DOMAIN r.measured THEN r.measured[stage]
  ELSE IF Samples(r) = {} THEN Estimate(r.job, stage)
  ELSE IF stage \in Timed(r) THEN r.timings[stage].minutes
  ELSE (Estimate(r.job, stage) * Total(r)) \div Estimated(r.job)

(* The whole chain or nothing, and only on a baseline that passed. *)
WithinBudget(r) ==
  /\ r.readiness # None => r.readiness.completed /\ r.readiness.passed
  /\ Sum(Stages(r.job), [s \in Stages(r.job) |-> Price(r, s)]) <= r.budget

(* Mutant: the smallest first. *)
SmallerFirst(c, d) == c.free < d.free \/ (c.free = d.free /\ CardRank[c.id] < CardRank[d.id])

LargerFirst(c, d) == c.free > d.free \/ (c.free = d.free /\ CardRank[c.id] < CardRank[d.id])

Minutes(cards) == Sum(cards, [c \in cards |-> c.free])
Placeable(cards) == {c \in cards : c.trusted /\ c.free > 0}

(* _select_gpus: from the largest card on, each card is taken unless those *)
(* before it cover the stage.                                              *)
SelectGpus(needed, cards) ==
  {c \in Placeable(cards) : Minutes({d \in Placeable(cards) : LargerFirst(d, c)}) < needed}

ModelVersionPlan(funded, placed) ==
  [within_budget |-> funded, gpu_ids |-> placed,
   fully_placed  |-> funded /\ \A s \in DOMAIN placed : placed[s] # {}]

(* Every stage is placed as if the others took nothing of the cards. *)
StageGpus(r, cards) ==
  [s \in Stages(r.job) |-> IF WithinBudget(r) THEN SelectGpus(Price(r, s), cards) ELSE {}]

(* build_model_version_plan and the exit status of the program. *)
BuildPlan ==
  /\ pool # None /\ plan = None
  /\ plan' = ModelVersionPlan(WithinBudget(planRequest), StageGpus(planRequest, pool))
  /\ UNCHANGED <<planRequest, pool>>

PlanNext == TakeInventory \/ BuildPlan
PlanSpec == PlanInit /\ [][PlanNext]_gpuVars
---------------------------------------------------------------------------
PlanTypeOK ==
  /\ pool # None => \A c \in pool : c.free >= 0 /\ c.trusted \in BOOLEAN
  /\ plan # None => \A s \in DOMAIN plan.gpu_ids : plan.gpu_ids[s] \subseteq pool

(* A plan that cannot be paid for names no card.  One that can names for   *)
(* every stage only cards it may use; as few of them as cover the stage,   *)
(* and all of them where all do not; and none that a run held when this    *)
(* host was probed.                                                        *)
FewestCards ==
  plan # None =>
    \A s \in DOMAIN plan.gpu_ids :
      LET chosen == plan.gpu_ids[s]
          price  == Price(planRequest, s)
          covers == {cards \in SUBSET Placeable(pool) : Minutes(cards) >= price}
      IN IF ~plan.within_budget THEN chosen = {}
         ELSE /\ IF covers = {} THEN chosen = Placeable(pool)
                 ELSE chosen \in covers /\ \A cards \in covers : Cardinality(chosen) <= Cardinality(cards)
              /\ planRequest.inventory = "probe" /\ LockDir(planRequest) # None =>
                   {c.id : c \in chosen} \cap planRequest.held[LockDir(planRequest)] = {}
=============================================================================
