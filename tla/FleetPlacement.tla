--------------------------- MODULE FleetPlacement ---------------------------
(***************************************************************************)
(* fleet_policy.py and fleet_resolver.py: which nodes a workload may run   *)
(* on, their order, and what becomes of the shape the model proposes.      *)
(***************************************************************************)
EXTENDS Rules

CONSTANTS Workloads,       \* the placement states (workload and fleet) to resolve
          Proposals,       \* the scores the model may give
          IdRank           \* the order of the node ids, as strings

(* The fields of a FleetPlacementState; amounts are whole numbers. *)
IsWorkload(w) ==
  /\ {"nodes", "required", "preferred", "ram", "vram", "pinned", "checkpoint"} \subseteq DOMAIN w
  /\ w.nodes \in Seq({w.nodes[i] : i \in DOMAIN w.nodes})
  /\ w.ram \in Int /\ w.vram \in Int /\ IsFiniteSet(w.preferred)
  /\ \A i \in DOMAIN w.nodes :
       LET n == w.nodes[i]
       IN n.id \in DOMAIN IdRank /\ {n.ram, n.vram, n.cpu, n.claims} \subseteq Int

ASSUME IdsAssumption ==
  \A a, b \in DOMAIN IdRank : IdRank[a] \in Int /\ (IdRank[a] = IdRank[b] => a = b)

ASSUME WorkloadsAssumption == \A w \in Workloads : IsWorkload(w)

ASSUME ProposalsAssumption ==
  \A p \in Proposals : \A o \in DOMAIN p.placement : p.placement[o] \in Int

Shapes == <<"local", "preferred_node", "any_eligible", "split", "defer", "abstain">>
Confidences == <<"very_low", "low", "medium", "high", "very_high">>
MinimumConfidence == "medium"

VARIABLES workload, proposal, placement
fleetVars == <<workload, proposal, placement>>

(* eligible_nodes: what makes a node legal for a workload. *)
Fits(n, w) ==
  /\ n.healthy /\ n.health_fresh /\ ~n.drained /\ n.reachable
  /\ w.required \subseteq n.capabilities
  /\ n.ram >= w.ram /\ n.vram >= w.vram
  /\ w.pinned # None => n.id = w.pinned

Eligible(w) == {i \in DOMAIN w.nodes : Fits(w.nodes[i], w)}
Ids(w) == {w.nodes[i].id : i \in Eligible(w)}

Preferred(n, w) == Cardinality(w.preferred \cap n.capabilities)

(* Mutant: no id in the key. *)
RankKeyTied(n, w) == << -Preferred(n, w), w.vram - n.vram, w.ram - n.ram, -n.cpu, n.claims >>

(* The sort key of rank_eligible_nodes. *)
RankKey(n, w) == << -Preferred(n, w), w.vram - n.vram, w.ram - n.ram, -n.cpu, n.claims,
                    IdRank[n.id] >>

Ranked(w) == Sorted(Eligible(w), [i \in Eligible(w) |-> RankKey(w.nodes[i], w)])

(* validate_score_options: every option scored and no other. *)
Scored(options, scores) == DOMAIN scores = {options[i] : i \in DOMAIN options}

ConfidenceRank(name) == FirstIn(Confidences, LAMBDA c : c = name)

Outcome(shape, selected) == [shape |-> shape, selected |-> selected]

(* Mutant: every snapshot counts. *)
CanSplitAnyNodes(w) == Len(w.nodes) >= 2 /\ w.checkpoint

CanSplit(w) == Len(Ranked(w)) >= 2 /\ w.checkpoint

(* resolve_fleet_placement *)
Placement(p, w) ==
  LET shape == Choice(Shapes, p.placement)
      confidence == Choice(Confidences, p.confidence)
      ranked == Ranked(w)
      top == IF ranked = <<>> THEN None ELSE w.nodes[ranked[1]].id
  IN Answer(<<
       Rule(ranked = <<>>, Outcome("defer", None)),
       Rule(ConfidenceRank(confidence) < ConfidenceRank(MinimumConfidence),
            Outcome("abstain", None)),
       Rule(shape \in {"defer", "abstain"}, Outcome(shape, None)),
       Rule(w.pinned # None, Outcome("local", w.pinned)),
       Rule(shape = "local", Outcome("defer", None)),
       Rule(shape = "split" /\ ~CanSplit(w), Outcome("defer", None)),
       Rule(shape = "split", Outcome("split", None)),
       Rule(TRUE, Outcome(shape, top)) >>)

FleetInit == workload \in Workloads /\ proposal \in Proposals /\ placement = None

Place == /\ placement = None /\ workload # None
         /\ Scored(Shapes, proposal.placement)
         /\ Scored(Confidences, proposal.confidence)
         /\ placement' = Placement(proposal, workload)
         /\ UNCHANGED <<workload, proposal>>

(* The ValueError of validate_score_options. *)
PlaceRefused == /\ placement = None /\ workload # None
                /\ \/ ~Scored(Shapes, proposal.placement)
                   \/ ~Scored(Confidences, proposal.confidence)
                /\ placement' = Outcome("refused", None)
                /\ UNCHANGED <<workload, proposal>>

FleetNext == Place \/ PlaceRefused
FleetSpec == FleetInit /\ [][FleetNext]_fleetVars

Placed == placement # None /\ placement.shape # "refused"
---------------------------------------------------------------------------
FleetTypeOK ==
  Placed => /\ placement.shape \in {Shapes[i] : i \in DOMAIN Shapes}
            /\ placement.selected \in Ids(workload) \cup {None}

Without(w, i) ==
  [w EXCEPT !.nodes = [j \in 1..(Len(w.nodes) - 1) |->
                         w.nodes[IF j < i THEN j ELSE j + 1]]]

Reversed(w) ==
  [w EXCEPT !.nodes = [j \in DOMAIN w.nodes |-> w.nodes[Len(w.nodes) + 1 - j]]]

(* A node that may not be used has no influence at all: without its        *)
(* snapshot the answer is the same.                                        *)
IllegalNodesAreInvisible ==
  Placed =>
    \A i \in DOMAIN workload.nodes :
      ~Fits(workload.nodes[i], workload) =>
        Placement(proposal, Without(workload, i)) = placement

(* The order in which the snapshots arrive does not decide. *)
ArrivalOrderIrrelevant == Placed => Placement(proposal, Reversed(workload)) = placement
=============================================================================
