---------------------------- MODULE MCDecisions ----------------------------
(***************************************************************************)
(* The deterministic deciders side by side: a behaviour is the work of one *)
(* of them, with the variables of the others at None.                      *)
(***************************************************************************)
EXTENDS AgentPolicy, FleetAdvisory, Splits, GpuPlan, Market

CONSTANTS n1, n2, h1, h2, v1, v2

Elements(s) == {s[i] : i \in DOMAIN s}

(* p percent on one option, the rest spread out. *)
Peak(options, o, p) ==
  [x \in Elements(options) |-> IF x = o THEN p ELSE (100 - p) \div (Len(options) - 1)]

(* Both sides of every threshold of the resolver. *)
Turn(routes, confs, scopes, graphs, approvals) ==
  { [route |-> Peak(Routes, route, conf), action_scope |-> Peak(Scopes, scope, 40),
     risk |-> risk, needs_tools |-> tools, needs_task_graph |-> graph,
     context_sufficient |-> context, external_effect |-> outside, approval_likely |-> approval] :
    route \in routes, conf \in confs, scope \in scopes,
    risk \in {[low |-> 34, moderate |-> 22, high |-> 22, critical |-> 22],
              [low |-> 33, moderate |-> 22, high |-> 22, critical |-> 23]},
    tools \in {49, 50}, graph \in graphs, context \in {54, 55},
    outside \in {49, 50}, approval \in approvals }

MCTurns == Turn({"act"}, {44, 45, 54, 55}, Elements(Scopes), {49}, {49, 50})
             \cup Turn(Elements(Routes) \ {"act"}, {45}, {"none", "privileged"}, {49, 50}, {49})
             \cup Turn(Elements(Routes) \ {"act"}, {44}, {"none"}, {49}, {49})
             \cup {[t EXCEPT !.route = [r \in DOMAIN @ |-> IF r \in {"act", "abstain"} THEN 45 ELSE 2]] :
                     t \in Turn({"act"}, {45}, {"read_only"}, {49}, {49})}
---------------------------------------------------------------------------
MCIdRank == n1 :> 1 @@ n2 :> 2

Node(id) == [id |-> id, capabilities |-> {"run"}, healthy |-> TRUE, health_fresh |-> TRUE,
             drained |-> FALSE, reachable |-> TRUE, ram |-> 2, vram |-> 2, cpu |-> 1, claims |-> 1]

(* A plain node, six that may not be used and five that rank otherwise. *)
Snapshots(id) ==
  LET n == Node(id)
  IN {n, [n EXCEPT !.healthy = FALSE], [n EXCEPT !.health_fresh = FALSE],
      [n EXCEPT !.drained = TRUE], [n EXCEPT !.reachable = FALSE],
      [n EXCEPT !.capabilities = {"fast"}], [n EXCEPT !.ram = 0], [n EXCEPT !.vram = 0],
      [n EXCEPT !.capabilities = {"run", "fast"}, !.claims = 2],
      [n EXCEPT !.vram = 3, !.ram = 1], [n EXCEPT !.ram = 3, !.cpu = 0],
      [n EXCEPT !.cpu = 2], [n EXCEPT !.claims = 0]}

Workload(nodes, pinned, checkpoint, preferred) ==
  [nodes |-> nodes, pinned |-> pinned, checkpoint |-> checkpoint, preferred |-> preferred,
   required |-> {"run"}, ram |-> 1, vram |-> 1]

MCWorkloads ==
  { Workload(<<b, a>>, pinned, checkpoint, preferred) :
      a \in Snapshots(n1), b \in Snapshots(n2), pinned \in {None, n1},
      checkpoint \in BOOLEAN, preferred \in {{}, {"fast"}} }
  \cup {Workload(<<>>, None, TRUE, {})}

MCProposals ==
  { [placement |-> Peak(Shapes, shape, 40), confidence |-> Peak(Confidences, confidence, 40)] :
      shape \in Elements(Shapes), confidence \in {"low", "medium"} }
  \cup {[placement |-> [s \in {"local", "split"} |-> 50],
         confidence |-> Peak(Confidences, "high", 40)]}
---------------------------------------------------------------------------
Entry(node, role, family, confidence, speed) ==
  [node |-> node, role |-> role, family |-> family, confidence |-> confidence, speed |-> speed,
   code |-> role = "CODE_QUALIFIED",
   review |-> role \in {"CODE_QUALIFIED", "REVIEW_QUALIFIED"},
   scout |-> role \in {"CODE_QUALIFIED", "REVIEW_QUALIFIED", "SCOUT_QUALIFIED"}]

Health(usable, freshness) == [usable |-> usable, freshness |-> freshness, pressure |-> 2]

MCCampaigns ==
  { [entries |-> <<Entry(n2, "CODE_QUALIFIED", 1, 8, 1), first, second>>,
     health |-> health, generated |-> 1] :
      first \in {Entry(n1, "CODE_QUALIFIED", 1, 8, 1), Entry(n1, "REVIEW_QUALIFIED", 2, 9, 2),
                 Entry(None, "CODE_QUALIFIED", 1, 8, 1), Entry(n1, "UNKNOWN", 1, 8, 1)},
      second \in {Entry(n1, "SUMMARY_ONLY", 2, 8, 2), Entry(n1, "CODE_QUALIFIED", 1, 8, 2),
                  Entry(n1, "CODE_QUALIFIED", 2, None, 2)},
      health \in {n1 :> Health(TRUE, 0) @@ n2 :> Health(TRUE, 0),
                  n1 :> Health(TRUE, 3) @@ n2 :> Health(FALSE, 0),
                  n1 :> Health(TRUE, 1)} }

LaneOf(node) == [node |-> node, code |-> TRUE, review |-> FALSE, scout |-> FALSE,
                 summary_only |-> FALSE, confidence |-> 8, speed |-> 1, pressure |-> 2,
                 freshness |-> 0, observed |-> 1]

LaneKinds(node) ==
  LET l == LaneOf(node)
  IN {l, [l EXCEPT !.review = TRUE], [l EXCEPT !.code = FALSE, !.review = TRUE],
      [l EXCEPT !.code = FALSE, !.scout = TRUE], [l EXCEPT !.summary_only = TRUE],
      [l EXCEPT !.confidence = 5], [l EXCEPT !.freshness = 3], [l EXCEPT !.speed = 0],
      [l EXCEPT !.pressure = 10, !.review = TRUE], [l EXCEPT !.observed = 0, !.speed = 2]}

MCMatrices ==
  { <<a, b>> : a \in LaneKinds(n1), b \in LaneKinds(n2) }
  \cup { <<a, LaneOf(n1), b>> : a \in {[l EXCEPT !.observed = 2] : l \in LaneKinds(n1)},
                                b \in {LaneOf(n2), [LaneOf(n2) EXCEPT !.review = TRUE]} }

MCRequests ==
  { [workload |-> Workload(nodes, pinned, checkpoint, {}), intent |-> intent, now |-> now,
     handles |-> handles] :
      nodes \in {<<Node(n1), Node(n2)>>, <<Node(n1), [Node(n2) EXCEPT !.drained = TRUE]>>,
                 <<[Node(n1) EXCEPT !.drained = TRUE]>>},
      pinned \in {None, n2}, checkpoint \in BOOLEAN,
      intent \in DOMAIN RoleFor, now \in {0, 2, 3, 4},
      handles \in {n1 :> h1 @@ n2 :> h2, n1 :> h1 @@ n2 :> n2} }
  \cup
  { [workload |-> Workload(<<Node(n1), Node(n2)>>, None, TRUE, {}), intent |-> intent, now |-> 2,
     handles |-> handles] :
      intent \in DOMAIN RoleFor, handles \in {n1 :> h1 @@ n2 :> None, n1 :> h1 @@ n2 :> h1} }
---------------------------------------------------------------------------
Record(family, state) == [family |-> family, state |-> state, labelled |-> TRUE]

(* Families given, blank or absent, on records that are all different or   *)
(* of which the first and the last are the same; and a family for each     *)
(* side, with two equal records inside or across the families.             *)
MCSplitCorpora ==
  { [i \in 1 .. 4 |-> Record(families[i], states[i])] :
      families \in [1 .. 4 -> {None, "", "f1", "f2"}], states \in {<<1, 2, 3, 4>>, <<1, 2, 3, 1>>} }
  \cup
  { [i \in 1 .. 5 |-> Record(<<"f1", "f1", "f2", "f3", "f4">>[i], states[i])] :
      states \in {<<1, 2, 3, 4, 5>>, <<1, 1, 2, 3, 4>>, <<1, 2, 2, 3, 4>>} }
  \cup {<<>>, <<[Record("f1", 1) EXCEPT !.labelled = FALSE], Record("f2", 2), Record("f2", 3)>>}

SplitRequest(key, train, validation, calibration) ==
  [key |-> key, train |-> train, validation |-> validation, calibration |-> calibration]

MCSplitRequests ==
  {SplitRequest(key, 3, 3, 3) : key \in {"auto", "none", "family_id"}}
  \cup {SplitRequest("auto", 5, 3, 2), SplitRequest("auto", 0, 3, 3), SplitRequest("auto", 5, -1, 3), SplitRequest("auto", 7, 1, 1)}
---------------------------------------------------------------------------
MCCardRank == "cuda:0" :> 0 @@ "cuda:1" :> 1 @@ "cuda:2" :> 2

AnyPlan == [job |-> [unit |-> 6, fleet |-> FALSE], readiness |-> None, measured |-> <<>>,
            registry |-> <<>>, timings |-> <<>>, budget |-> 200, inventory |-> "none",
            cards |-> {}, devices |-> {}, untrusted |-> {}, horizon |-> 0, per_device |-> FALSE,
            asked |-> None, derived |-> None, held |-> <<>>]

Run(status, minutes) == [status |-> status, minutes |-> minutes]
Timing(completed, minutes) == [completed |-> completed, minutes |-> minutes]

(* Prices on both sides of the budget, on cards of different sizes. *)
FromFile ==
  { [AnyPlan EXCEPT !.job.fleet = fleet, !.measured = measured, !.registry = registry,
                    !.timings = timings, !.inventory = "file", !.cards = cards] :
      fleet \in BOOLEAN, measured \in {<<>>, "train" :> 150, "calibrate" :> 0},
      registry \in {<<>>, <<Run("candidate", 180), Run("failed", 20), Run("rejected", 0)>>,
                    <<Run("candidate", 90), Run("rejected", 150)>>},
      timings \in {<<>>, "train" :> Timing(TRUE, 90),
                   "train" :> Timing(FALSE, 90) @@ "benchmark" :> Timing(TRUE, 0)},
      cards \in { {Card("cuda:0", a, TRUE), Card("cuda:1", b, trusted), Card("cuda:2", c, TRUE)} :
                    a \in {0, 40}, b \in {40, 120}, c \in {0, 100}, trusted \in BOOLEAN } }

(* A host with a run in one of two lock directories. *)
FromHost ==
  { [AnyPlan EXCEPT !.readiness = readiness, !.inventory = inventory, !.devices = devices,
                    !.untrusted = untrusted, !.horizon = 120, !.per_device = perDevice,
                    !.asked = asked, !.derived = derived, !.held = ("here" :> held @@ "there" :> {})] :
      readiness \in {None} \cup [completed : BOOLEAN, passed : BOOLEAN],
      inventory \in {"none", "probe"}, devices \in {{}, {"cuda:0", "cuda:1"}},
      untrusted \in {{}, {"cuda:1"}}, perDevice \in BOOLEAN, asked \in {None, "here"},
      derived \in {None, "there"}, held \in {{}, {"cuda:0"}, {"pool"}} }

MCPlanRequests == FromFile \cup FromHost
---------------------------------------------------------------------------
MCVenueRank == None :> 0 @@ v1 :> 1 @@ v2 :> 2

Quote(venue, price, at) ==
  [source |-> venue, last |-> price, bid |-> price - 1, ask |-> price + 1, nav |-> None, at |-> at]

(* Quotes that may not be used, that name no price, or that abstain. *)
QuoteKinds(t) ==
  LET q == Quote(v1, 1000, t)
  IN {q, [q EXCEPT !.at = t - 1], [q EXCEPT !.at = LastClose(t)], [q EXCEPT !.at = t - 1000], [q EXCEPT !.at = t + 1],
      [q EXCEPT !.bid = 1100], [q EXCEPT !.bid = 900], [q EXCEPT !.bid = None],
      [q EXCEPT !.last = None], [q EXCEPT !.last = None, !.bid = None],
      [q EXCEPT !.last = None, !.bid = None, !.ask = None],
      [q EXCEPT !.nav = 900], [q EXCEPT !.last = None, !.nav = 900], [q EXCEPT !.source = None],
      [q EXCEPT !.last = 1003], [q EXCEPT !.last = 1030]}

Observations(t) ==
  {<<>>} \cup {<<q>> : q \in QuoteKinds(t)} \cup {<<q, Quote(v2, 1001, t)>> : q \in QuoteKinds(t)}

TradeOf(venue, price, at) == [Quote(venue, price, at) EXCEPT !.bid = None, !.ask = None]

(* Moves that hold, that revert, that one venue tells or that are too old. *)
Histories(t) ==
  LET told(a, b, c, ages) == <<TradeOf(v1, a, t - ages[1]), TradeOf(v2, b, t - ages[2]), TradeOf(v1, c, t - ages[3])>>
      recent == <<3, 2, 1>>
  IN {<<>>, told(800, 900, 1000, recent), told(1000, 900, 800, recent), told(1000, 1100, 1000, recent),
      told(1000, 1000, 1000, recent), told(970, 960, 1000, recent), told(900, 1100, 1000, recent),
      told(800, 900, 1000, <<2, 2, 1>>), told(800, 900, 1000, <<3, 2, -1>>),
      told(800, 900, 1000, <<700, 2, 1>>),
      <<TradeOf(v2, 800, t - 4)>> \o told(800, 900, 1000, recent),
      <<TradeOf(None, 800, t - 3), TradeOf(v2, 900, t - 2), [TradeOf(v2, 1000, t - 1) EXCEPT !.last = None, !.nav = 1000]>>}

Reading(venue, at, reachable) == [venue |-> venue, at |-> at, reachable |-> reachable]

Livenesses(t) ==
  LET both == <<Reading(v1, t, TRUE), Reading(v2, t, TRUE)>>
  IN {<<>>, both, <<both[1]>>, <<both[2]>>, <<both[1], Reading(v2, t - 1, TRUE)>>,
      <<Reading(v1, t - 1, TRUE), both[2], Reading(v1, t, FALSE)>>,
      <<both[1], both[2], Reading(v2, t + 1, TRUE)>>}

(* The second week: Monday night, Tuesday at noon, Wednesday evening, a    *)
(* holiday on Thursday, Saturday.                                          *)
MCMoments == {7 * DayLength + 24, 8 * DayLength + 144, 9 * DayLength + 200, 9 * DayLength + 60,
              9 * DayLength + 250, 10 * DayLength + 144, 12 * DayLength + 144}
MCClosures == {10}

Document(class, observations, history, liveness) ==
  [class |-> class, observations |-> observations, history |-> history, liveness |-> liveness]

CallsAt(t, classes, histories) ==
  { [by |-> "decide_instrument", moment |-> t,
     document |-> Document(class, observations, history, liveness)] :
      class \in classes, observations \in Observations(t), history \in histories,
      liveness \in Livenesses(t) }

(* The other function takes one quote and no history. *)
AlsoAlone(calls) ==
  { [c EXCEPT !.by = "decide_market_action"] :
      c \in {d \in calls : Len(d.document.observations) <= 1 /\ d.document.history = <<>>} }

MCMarketCalls ==
  LET noon == 8 * DayLength + 144
      calls == CallsAt(noon, DOMAIN Policies, Histories(noon))
                 \cup CallsAt(noon, {None, "unheard_of"}, {<<>>})
                 \cup UNION {CallsAt(t, DOMAIN Policies, {<<>>}) : t \in MCMoments}
  IN calls \cup AlsoAlone(calls)
---------------------------------------------------------------------------
PolicyIdle == turn = None /\ facts = {} /\ decision = None
FleetIdle  == workload = None /\ proposal = None /\ placement = None
AdviceIdle == campaign = None /\ lanes = None /\ request = None /\ advice = None

SplitIdle  == corpus = None /\ splitRequest = None /\ splits = None /\ audit = None
PlanIdle   == planRequest = None /\ pool = None /\ plan = None
MarketIdle == call = None /\ proposed = None

MCInit ==
  \/ PolicyInit /\ FleetIdle /\ AdviceIdle /\ SplitIdle /\ PlanIdle /\ MarketIdle
  \/ PolicyIdle /\ FleetInit /\ AdviceIdle /\ SplitIdle /\ PlanIdle /\ MarketIdle
  \/ PolicyIdle /\ FleetIdle /\ AdviceInit /\ SplitIdle /\ PlanIdle /\ MarketIdle
  \/ PolicyIdle /\ FleetIdle /\ AdviceIdle /\ SplitInit /\ PlanIdle /\ MarketIdle
  \/ PolicyIdle /\ FleetIdle /\ AdviceIdle /\ SplitIdle /\ PlanInit /\ MarketIdle
  \/ PolicyIdle /\ FleetIdle /\ AdviceIdle /\ SplitIdle /\ PlanIdle /\ MarketInit

MCNext ==
  \/ Resolve /\ UNCHANGED <<fleetVars, adviceVars, splitVars, gpuVars, marketVars>>
  \/ FleetNext /\ UNCHANGED <<policyVars, adviceVars, splitVars, gpuVars, marketVars>>
  \/ AdviceNext /\ UNCHANGED <<policyVars, fleetVars, splitVars, gpuVars, marketVars>>
  \/ SplitNext /\ UNCHANGED <<policyVars, fleetVars, adviceVars, gpuVars, marketVars>>
  \/ PlanNext /\ UNCHANGED <<policyVars, fleetVars, adviceVars, splitVars, marketVars>>
  \/ MarketNext /\ UNCHANGED <<policyVars, fleetVars, adviceVars, splitVars, gpuVars>>

MCSpec == MCInit /\ [][MCNext]_<<policyVars, fleetVars, adviceVars, splitVars, gpuVars, marketVars>>

MCTypeOK == PolicyTypeOK /\ FleetTypeOK /\ AdviceTypeOK /\ SplitTypeOK /\ PlanTypeOK /\ MarketTypeOK
============================================================================
