---------------------------- MODULE AgentPolicy ----------------------------
(***************************************************************************)
(* agent_policy.py and assistx_adapter.py: from the scores of the model    *)
(* and the facts of the runtime to a disposition, and from there to the    *)
(* two documents that AssistX and Hermes act on.  Scores are in percent.   *)
(***************************************************************************)
EXTENDS Rules, FiniteSets

CONSTANT Turns                     \* the scores the model may give a turn

Routes == <<"chat", "create_tasks", "act", "clarify", "cancel", "abstain">>
Scopes == <<"none", "read_only", "local_write", "external_side_effect", "privileged">>

(* PolicyConstraints: the facts that hold, each of which permits something. *)
Facts == {"speaker_verified", "actions_allowed", "local_writes_allowed",
          "external_actions_allowed", "privileged_actions_allowed",
          "approval_gate_available", "active_work"}

(* PolicyThresholds, as shipped. *)
Threshold == [route |-> 45, act |-> 55, context |-> 55, approval |-> 50, high_risk |-> 45]

(* What the resolver relies on: every question is answered, and every route *)
(* and level of risk has a score.                                          *)
ASSUME TurnsAssumption ==
  \A t \in Turns :
    /\ {"route", "action_scope", "risk", "needs_tools", "needs_task_graph",
        "context_sufficient", "external_effect", "approval_likely"} \subseteq DOMAIN t
    /\ t.route \in [{Routes[i] : i \in DOMAIN Routes} -> Int]
    /\ {"high", "critical"} \subseteq DOMAIN t.risk

VARIABLES turn, facts, decision
policyVars == <<turn, facts, decision>>

Route(t) == Choice(Routes, t.route)
Scope(t) == Choice(Scopes, t.action_scope)
Confidence(t) == t.route[Route(t)]
Says(score) == score >= 50

(* policy_consistency_violations: answers that do not fit together.        *)
Audit(t) ==
  LET route == Route(t)
      scope == Scope(t)
      mutation == scope \in {"local_write", "external_side_effect", "privileged"}
      outside == scope \in {"external_side_effect", "privileged"}
  IN  [act_without_tools    |-> route = "act" /\ ~Says(t.needs_tools),
       act_with_none_scope  |-> route = "act" /\ scope = "none",
       create_tasks_without_task_graph |->
                                route = "create_tasks" /\ ~Says(t.needs_task_graph),
       chat_with_task_graph |-> route = "chat" /\ Says(t.needs_task_graph),
       chat_with_external_effect |-> route = "chat" /\ Says(t.external_effect),
       chat_with_action_scope |-> route = "chat" /\ scope # "none",
       mutation_scope_without_tools |-> mutation /\ ~Says(t.needs_tools),
       external_scope_without_external_effect |->
                                outside /\ ~Says(t.external_effect)]

Violations(t) == LET audit == Audit(t) IN {v \in DOMAIN audit : audit[v]}

(* Mutant: the last one is not on the list. *)
UnsafeShapeShort == {"act_without_tools", "act_with_none_scope",
                     "mutation_scope_without_tools"}

(* The violations that keep an action from being executed directly. *)
UnsafeShape == {"act_without_tools", "act_with_none_scope",
                "mutation_scope_without_tools",
                "external_scope_without_external_effect"}

(* The scopes the runtime has not granted. *)
OutOfAuthority(t, f) ==
  \/ Scope(t) = "local_write" /\ "local_writes_allowed" \notin f
  \/ Scope(t) = "external_side_effect" /\ "external_actions_allowed" \notin f
  \/ Scope(t) = "privileged" /\ "privileged_actions_allowed" \notin f

(* Mutant: only the mass of one level counts. *)
NeedsApprovalHigh(t) ==
  \/ t.approval_likely >= Threshold.approval
  \/ Scope(t) = "privileged"
  \/ t.risk["high"] >= 22

NeedsApproval(t) ==
  \/ t.approval_likely >= Threshold.approval
  \/ Scope(t) = "privileged"
  \/ t.risk["high"] + t.risk["critical"] >= Threshold.high_risk

(* resolve_agent_policy: the returns that execute nothing, in order.       *)
Unexecuted(t, f) ==
  LET route == Route(t)
  IN << Rule(Confidence(t) < Threshold.route, "clarify"),
        Rule(route = "act" /\ Violations(t) \cap UnsafeShape # {}, "propose_action"),
        Rule("create_tasks_without_task_graph" \in Violations(t), "clarify"),
        Rule(route = "cancel", IF "active_work" \in f THEN "cancel" ELSE "chat"),
        Rule(route \in {"act", "create_tasks"}
               /\ t.context_sufficient < Threshold.context, "clarify"),
        Rule(route # "act", route),
        Rule(Confidence(t) < Threshold.act, "propose_action"),
        Rule("speaker_verified" \notin f, "clarify"),
        Rule("actions_allowed" \notin f, "propose_action"),
        Rule(OutOfAuthority(t, f), "propose_action") >>

(* Mutant: without a gate the action runs. *)
PermittedUngated(t, f) ==
  << Rule(NeedsApproval(t) /\ "approval_gate_available" \in f, "act_with_approval"),
     Rule(TRUE, "act") >>

(* ... and the ones reached by a permitted action. *)
Permitted(t, f) ==
  << Rule(~NeedsApproval(t), "act"),
     Rule("approval_gate_available" \in f, "act_with_approval"),
     Rule(TRUE, "propose_action") >>

(* Mutant: `approval_required` is computed up front. *)
ResolutionAskedEarly(t, f) ==
  LET refusals == Unexecuted(t, f)
      stopped == Applying(refusals) # 0
  IN  [disposition |-> Answer(IF stopped THEN refusals ELSE Permitted(t, f)),
       approval_required |-> NeedsApproval(t),
       violations |-> Violations(t)]

(* `approval_required` is assigned between the two lists.                  *)
Resolution(t, f) ==
  LET refusals == Unexecuted(t, f)
      stopped == Applying(refusals) # 0
  IN  [disposition |-> Answer(IF stopped THEN refusals ELSE Permitted(t, f)),
       approval_required |-> ~stopped /\ NeedsApproval(t),
       violations |-> Violations(t)]

(* assistx_policy_payload *)
Payload(d) ==
  LET action == [chat |-> <<"query", "answer_inline">>,
                 create_tasks |-> <<"task", "create_task_graph">>,
                 act |-> <<"task", "direct_action">>,
                 act_with_approval |-> <<"task", "direct_action_with_approval">>,
                 propose_action |-> <<"task", "review_dispatch">>,
                 clarify |-> <<"unknown", "needs_clarification">>,
                 cancel |-> <<"cancel", "cancel_active_work">>,
                 abstain |-> <<"unknown", "review_dispatch">>]
  IN  [classification |-> action[d.disposition][1],
       policy_action |-> action[d.disposition][2]]

(* hermes_turn_directive *)
Directive(d) == [disposition |-> d.disposition,
                 requires_approval |-> d.approval_required]

PolicyInit == turn \in Turns /\ facts \in SUBSET Facts /\ decision = None

Resolve == /\ decision = None /\ turn # None
           /\ decision' = Resolution(turn, facts)
           /\ UNCHANGED <<turn, facts>>

PolicySpec == PolicyInit /\ [][Resolve]_policyVars
---------------------------------------------------------------------------
Dispositions == {"chat", "create_tasks", "act", "act_with_approval",
                 "propose_action", "clarify", "cancel", "abstain"}

PolicyTypeOK ==
  /\ facts \subseteq Facts
  /\ decision # None => /\ decision.disposition \in Dispositions
                        /\ decision.approval_required \in BOOLEAN

(* How much a disposition lets happen without a person. *)
Power == [d \in Dispositions |->
            CASE d = "act" -> 3
              [] d = "act_with_approval" -> 2
              [] d \in {"create_tasks", "cancel"} -> 1
              [] OTHER -> 0]

(* "A model prediction can never widen the runtime's permissions": with    *)
(* one fact fewer, the same scores never get further.  Every return of     *)
(* resolve_agent_policy and their order matter.                            *)
AuthorityMonotone ==
  decision # None =>
    \A f \in facts :
      Power[Resolution(turn, facts \ {f}).disposition] <= Power[decision.disposition]

(* The same scores with one answer made more careful. *)
MoreCareful(t) ==
  { [t EXCEPT !.approval_likely = 100], [t EXCEPT !.context_sufficient = 0],
    [t EXCEPT !.needs_tools = 0], [t EXCEPT !.external_effect = 0],
    [t EXCEPT !.risk = [r \in DOMAIN t.risk |-> IF r = "critical" THEN 100 ELSE 0]] }

(* A more careful model never gets further: more risk, a likelier need of  *)
(* approval, less context or a shape that does not fit.                    *)
CautionMonotone ==
  decision # None =>
    \A t \in MoreCareful(turn) :
      Power[Resolution(t, facts).disposition] <= Power[decision.disposition]

(* What is executed has passed the audit, all of it: the resolver's own    *)
(* list of unsafe shapes leaves out no violation an action can have.       *)
ExecutedIsConsistent ==
  decision # None /\ decision.disposition \in {"act", "act_with_approval"} =>
    decision.violations = {}

(* AssistX and Hermes are told the same: the action AssistX may take       *)
(* without a gate is one Hermes is told needs no approval, and a gate is   *)
(* named to both or to neither.                                            *)
AdaptersAgree ==
  decision # None =>
    LET action == Payload(decision).policy_action
        gated == Directive(decision).requires_approval
    IN  /\ action = "direct_action" => ~gated
        /\ action = "direct_action_with_approval" => gated
        /\ gated => action \in {"direct_action_with_approval", "review_dispatch"}
============================================================================
