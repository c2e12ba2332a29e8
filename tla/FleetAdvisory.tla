--------------------------- MODULE FleetAdvisory ---------------------------
(***************************************************************************)
(* fleet_benchmark_bridge.py and fleet_benchmark_qualification.py: the      *)
(* report of a benchmark campaign is joined with the health of the fleet   *)
(* into a matrix of lanes, and the matrix with the state of the fleet into *)
(* advice.  Times are in units of a few minutes, fractions in tenths.      *)
(***************************************************************************)
EXTENDS FleetPlacement

CONSTANTS Campaigns,       \* reports with the health of the fleet, to join
          Matrices,        \* matrices that are given as such
          Requests,        \* what the advice is asked for
          MaxAge,          \* max_evidence_age_seconds
          MaxHealthAge,    \* max_health_freshness_seconds
          MinQuality,      \* min_quality_confidence
          MaxPriority      \* MAX_FLEET_PRIORITY

ASSUME LimitsAssumption ==
  /\ {MaxAge, MaxHealthAge, MinQuality} \subseteq Int /\ MaxPriority \in Nat \ {0}

ASSUME RequestsAssumption ==
  \A r \in Requests : IsWorkload(r.workload) /\ r.now \in Int

(* Numbers of a lane, of an entry and of a node's health. *)
IsLane(l) ==
  /\ l.node \in DOMAIN IdRank
  /\ {l.confidence, l.speed, l.pressure, l.freshness, l.observed} \subseteq Int

IsCampaign(c) ==
  /\ c.entries \in Seq({c.entries[i] : i \in DOMAIN c.entries}) /\ c.generated \in Int
  /\ \A i \in DOMAIN c.entries :
       LET e == c.entries[i]
       IN  /\ e.node \in DOMAIN IdRank \cup {None} /\ e.confidence \in Int \cup {None}
           /\ e.family \in Int /\ e.speed \in Int
  /\ \A n \in DOMAIN c.health : c.health[n].pressure \in Int /\ c.health[n].freshness \in Int

ASSUME EvidenceAssumption ==
  /\ \A c \in Campaigns : c # None /\ IsCampaign(c)
  /\ \A m \in Matrices : /\ m # None /\ m \in Seq({m[i] : i \in DOMAIN m})
                         /\ \A i \in DOMAIN m : IsLane(m[i])
  /\ None \notin DOMAIN IdRank \cup Int

VARIABLES campaign, lanes, request, advice
adviceVars == <<campaign, lanes, request, advice>>

Ladder == <<"CODE_QUALIFIED", "REVIEW_QUALIFIED", "SCOUT_QUALIFIED", "SUMMARY_ONLY">>
RoleRank(role) == FirstIn(Ladder, LAMBDA r : r = role)     \* 0: not recognised

(* _entry_rank: smaller is stronger.  A confidence that is None counts 0.  *)
EntryKey(e) == <<RoleRank(e.role), IF e.confidence = None THEN 0 ELSE -e.confidence, e.family>>

(* The entries matrix_from_campaign groups, and the first of the strongest *)
(* ones of a node.                                                         *)
Known(c) == {i \in DOMAIN c.entries : c.entries[i].node # None /\ RoleRank(c.entries[i].role) # 0}
EntriesOf(c, node) == {i \in Known(c) : c.entries[i].node = node}
Best(c, node) ==
  LET mine == EntriesOf(c, node)
  IN Sorted(mine, [i \in mine |-> EntryKey(c.entries[i])])[1]

(* _lane_from_entry raises on a confidence or a health that is no number.  *)
Joinable(c, i) ==
  LET e == c.entries[i]
  IN  /\ i = Best(c, e.node) /\ e.confidence # None
      /\ e.node \in DOMAIN c.health /\ c.health[e.node].usable

Lane(c, i) ==
  LET e == c.entries[i]
  IN [node |-> e.node, code |-> e.code, review |-> e.review, scout |-> e.scout,
      summary_only |-> ~(e.code \/ e.review \/ e.scout),
      confidence |-> e.confidence, speed |-> e.speed,
      pressure |-> c.health[e.node].pressure, freshness |-> c.health[e.node].freshness,
      observed |-> c.generated]

(* matrix_from_campaign: one lane for each node that survives, by node id. *)
Matrix(c) ==
  LET joined == {i \in Known(c) : Joinable(c, i)}
      order  == Sorted(joined, [i \in joined |-> <<IdRank[c.entries[i].node]>>])
  IN [k \in DOMAIN order |-> Lane(c, order[k])]
---------------------------------------------------------------------------
(* _assess *)
Age(l, r) == r.now - l.observed
Fresh(l, r) == Age(l, r) \in 0..MaxAge
Trusted(l) == l.confidence >= MinQuality
HealthFresh(l) == l.freshness <= MaxHealthAge
InFleet(l, r) == l.node \in Ids(r.workload)
Usable(l, r) == Fresh(l, r) /\ Trusted(l) /\ HealthFresh(l) /\ InFleet(l, r)

(* Mutant: a stale lane of low quality is counted twice. *)
IgnoredTwice(m, r) ==
  LET count(Test(_)) == Cardinality({i \in DOMAIN m : Test(m[i])})
  IN [stale      |-> count(LAMBDA l : ~Fresh(l, r) /\ Age(l, r) >= 0),
      future     |-> count(LAMBDA l : Age(l, r) < 0),
      low        |-> count(LAMBDA l : ~Trusted(l)),
      unhealthy  |-> count(LAMBDA l : Fresh(l, r) /\ Trusted(l) /\ ~HealthFresh(l)),
      ineligible |-> count(LAMBDA l : /\ Fresh(l, r) /\ Trusted(l) /\ HealthFresh(l)
                                      /\ ~InFleet(l, r))]

(* The counts of ignored lanes the advice carries, each lane under one.    *)
Ignored(m, r) ==
  LET count(Test(_)) == Cardinality({i \in DOMAIN m : Test(m[i])})
  IN [stale      |-> count(LAMBDA l : ~Fresh(l, r) /\ Age(l, r) >= 0),
      future     |-> count(LAMBDA l : Age(l, r) < 0),
      low        |-> count(LAMBDA l : Fresh(l, r) /\ ~Trusted(l)),
      unhealthy  |-> count(LAMBDA l : Fresh(l, r) /\ Trusted(l) /\ ~HealthFresh(l)),
      ineligible |-> count(LAMBDA l : /\ Fresh(l, r) /\ Trusted(l) /\ HealthFresh(l)
                                      /\ ~InFleet(l, r))]

(* _qualifies: a summary-only lane certifies nothing else. *)
Qualifies(l, role) ==
  IF l.summary_only THEN role = "summary"
  ELSE \/ role = "code" /\ l.code
       \/ role = "review" /\ l.review
       \/ role = "scout" /\ l.scout

(* _qualification_score: the product of its factors, each scaled to an      *)
(* integer.  `speed` stands for latency and throughput, 0 when unknown.    *)
Score(l, r) == l.confidence * (MaxAge - Age(l, r)) * (MaxHealthAge - l.freshness)
                 * (10 - l.pressure) * l.speed

(* _preferences: the best lanes of a role, as many as the advice may name; *)
(* `barred` is the node the reviewers may not be on.                       *)
Qualified(m, r, role, barred) ==
  {i \in DOMAIN m : Usable(m[i], r) /\ Qualifies(m[i], role) /\ m[i].node # barred}

Preference(l, r, role) ==
  [role |-> role, handle |-> r.handles[l.node], score |-> Score(l, r), node |-> l.node]

Preferences(m, r, role, barred) ==
  LET lanesOf == Qualified(m, r, role, barred)
      scored  == Sorted(lanesOf, [i \in lanesOf |-> <<-Score(m[i], r), IdRank[m[i].node]>>])
  IN [k \in {j \in DOMAIN scored : j <= MaxPriority} |-> Preference(m[scored[k]], r, role)]

(* _opaque_handle and the duplicate check: where _preferences raises. *)
HandlesRefused(prefs) ==
  \/ \E i \in DOMAIN prefs : prefs[i].handle \in {None, prefs[i].node}
  \/ \E i, j \in DOMAIN prefs : i # j /\ prefs[i].handle = prefs[j].handle

Advised(shape, role, fallback, preferred, selected) ==
  [shape |-> shape, role |-> role, fallback |-> fallback,
   preferred |-> preferred, selected |-> selected]

DeferredAsAbstain(fallback) == Advised("abstain", None, fallback, <<>>, None)   \* mutant
Deferred(fallback) == Advised("defer", None, fallback, <<>>, None)
AdviceRefused == Advised("refused", None, None, <<>>, None)

RoleFor == [coding |-> "code", review |-> "review", scout |-> "scout", summary |-> "summary"]

ASSUME IntentsAssumption == \A r \in Requests : r.intent \in DOMAIN RoleFor

(* What a split needs besides a coder and a reviewer on two nodes. *)
MaySplitUnsaved(w) == Cardinality(Ids(w)) >= 2                \* mutant
MaySplit(w) == Cardinality(Ids(w)) >= 2 /\ w.checkpoint

(* build_fleet_benchmark_advisory *)
Advice(m, r) ==
  LET role == RoleFor[r.intent]
      primary == Preferences(m, r, role, None)
      leader == primary[1].node
      scouts == Preferences(m, r, "scout", None)
      reviewers == Preferences(m, r, "review", leader)
      single == Advised("preferred_node", role, None, primary, leader)
  IN IF Eligible(r.workload) = {} THEN Deferred(None)
     ELSE IF HandlesRefused(primary) THEN AdviceRefused
     ELSE IF primary = <<>> THEN
            IF role # "code" \/ scouts = <<>> THEN Deferred(None)
            ELSE IF HandlesRefused(scouts) THEN AdviceRefused
            ELSE Deferred("scout")
     ELSE IF role # "code" THEN single
     ELSE IF HandlesRefused(reviewers) THEN AdviceRefused
     ELSE IF reviewers # <<>> /\ MaySplit(r.workload)
          THEN Advised("split", "code", None, primary \o reviewers, None)
     ELSE single

AdviceInit == /\ \/ campaign \in Campaigns /\ lanes = None
                 \/ campaign = None /\ lanes \in Matrices
              /\ request = None /\ advice = None

Join == /\ campaign # None /\ lanes = None
        /\ lanes' = Matrix(campaign)
        /\ UNCHANGED <<campaign, request, advice>>

(* The joined matrix is used with a state of the fleet and at a time that  *)
(* are not those of the campaign.  A matrix without lanes is refused by    *)
(* the join (BenchmarkBridgeError).                                        *)
Advise == /\ lanes # None /\ lanes # <<>> /\ advice = None
          /\ request' \in Requests
          /\ advice' = Advice(lanes, request')
          /\ UNCHANGED <<campaign, lanes>>

AdviceNext == Join \/ Advise
AdviceSpec == AdviceInit /\ [][AdviceNext]_adviceVars

IsAdvised == advice # None /\ advice.shape # "refused"
---------------------------------------------------------------------------
AdviceTypeOK ==
  IsAdvised => /\ advice.shape \in {"defer", "preferred_node", "split"}
               /\ advice.role \in {"code", "review", "scout", "summary", None}

DropLane(m, i) == [j \in 1..(Len(m) - 1) |-> m[IF j < i THEN j ELSE j + 1]]

(* A lane the advice ignores has no influence: the advice without it is the *)
(* same.  And each lane is used or is under exactly one count.             *)
IgnoredIsInert ==
  IsAdvised =>
    LET usable == {i \in DOMAIN lanes : Usable(lanes[i], request)}
        counts == Ignored(lanes, request)
    IN  /\ \A i \in DOMAIN lanes \ usable : Advice(DropLane(lanes, i), request) = advice
        /\ Cardinality(usable) + counts.stale + counts.future + counts.low
             + counts.unhealthy + counts.ineligible = Len(lanes)

AllOn(options, o) == [x \in {options[i] : i \in DOMAIN options} |-> IF x = o THEN 10 ELSE 0]

(* The advice can be followed: asked for the advised shape with confidence, *)
(* the resolver gives that shape, and a split is between two nodes.        *)
AdviceCanBeFollowed ==
  IsAdvised /\ request.workload.pinned = None =>
    /\ Placement([placement |-> AllOn(Shapes, advice.shape),
                  confidence |-> AllOn(Confidences, "high")], request.workload).shape
         = advice.shape
    /\ advice.shape = "split" =>
         \E i, j \in DOMAIN advice.preferred :
           /\ advice.preferred[i].role = "code" /\ advice.preferred[j].role = "review"
           /\ advice.preferred[i].node # advice.preferred[j].node
=============================================================================
