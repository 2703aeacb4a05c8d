--------------------------- MODULE CaseRuleProofs ---------------------------
(***************************************************************************)
(* What a case finds in its checkpoint, for the same generality as         *)
(* CaseSafetyProofs.                                                       *)
(*                                                                         *)
(* RuleInv: the tables of policies.py, routing.py and action_proposal.py   *)
(* agree.  Whatever is classified, and whatever an earlier request left in *)
(* the checkpoint, a case finds what the rule of its next node needs.      *)
(*                                                                         *)
(* ScopeInv: a case acts on what its own request names.  On a reused       *)
(* thread the context, the selection and the proposal of an earlier        *)
(* request are still in the checkpoint, and none of them reaches the       *)
(* store.                                                                  *)
(***************************************************************************)
EXTENDS CaseSafetyProofs

USE DEF Optional

-----------------------------------------------------------------------------
\* What the rules take for granted.

SafeIntents == {"cancel_order", "address_change"}

SensitiveIntents == {"refund_request", "billing_issue", "product_issue"}

\* What the rule applied in node n takes for granted about the case in s.
RuleReady(s, n) ==
    /\ n \notin {"START", "intake", "classify_request"} => s.intent \in Intents
    /\ n = "evaluate_policy" =>
           LET resolution == s.order_resolution
           IN  /\ s.selected_order_id = resolution.selected_order_id
               /\ \/ s.intent = "other"
                  \/ resolution.status = "needs_clarification"
                  \/ /\ resolution.status = "selected"
                     /\ s.selected_order_id \in DOMAIN s.order_context
                     /\ s.selected_order_id \in Orders
    /\ n = "propose_action" =>
           s.intent \in SafeIntents /\ s.selected_order_id \in Orders
    /\ n = "prepare_approval" =>
           s.intent \in SensitiveIntents /\ s.selected_order_id \in Orders

RuleInv == (\A t \in Threads : RuleReady(state[t], next[t])) /\ NeverCorrupted

-----------------------------------------------------------------------------
\* The rules.

\* The resolver answers in one of three ways, and selects from the context.
LEMMA ResolveOrderSelects ==
    ASSUME NEW intent \in Intents, NEW named, NEW context
    PROVE  LET resolution == ResolveOrder(intent, named, context)
           IN  \/ intent = "other"
               \/ resolution.status = "needs_clarification"
               \/ /\ resolution.status = "selected"
                  /\ resolution.selected_order_id \in DOMAIN context
                  /\ resolution.selected_order_id \in Orders
<1> DEFINE mentioned == MentionedOrders(named, context)
           unique == CHOOSE o \in Orders : mentioned = {o}
<1>1. (\E o \in Orders : mentioned = {o}) => mentioned = {unique} /\ unique \in Orders
  OBVIOUS
<1>2. mentioned \subseteq DOMAIN context
  BY DEF MentionedOrders
<1>3. (\E o \in Orders : mentioned = {o}) => unique \in DOMAIN context /\ unique \in Orders
  BY <1>1, <1>2
<1>4. QED
  BY <1>3 DEF ResolveOrder, Intents, OrderRequiredIntents

\* The router accepts the assessment, and sends the case to a proposal node
\* only with an intent that node has a proposal for.
Routable(intent, resolution, assessment) ==
    LET branch == BranchNode[DetermineCaseRoute(assessment)]
    IN  /\ ~RoutingFails(intent, resolution, assessment)
        /\ branch \in {"clarification", "information", "propose_action",
                       "prepare_approval", "blocked"}
        /\ branch = "propose_action" =>
               intent \in SafeIntents /\ resolution.status = "selected"
        /\ branch = "prepare_approval" =>
               intent \in SensitiveIntents /\ resolution.status = "selected"

LEMMA OutcomesAreRoutable ==
    ASSUME NEW intent, NEW resolution
    PROVE  /\ intent = "other" =>
                  Routable(intent, resolution, Assessment("not_applicable", FALSE))
           /\ resolution.status = "needs_clarification" =>
                  Routable(intent, resolution, Assessment("needs_clarification", FALSE))
           /\ resolution.status = "selected" =>
                  /\ Routable(intent, resolution, Assessment("information_only", FALSE))
                  /\ Routable(intent, resolution, Assessment("blocked", FALSE))
                  /\ intent \in SafeIntents =>
                         Routable(intent, resolution, Assessment("eligible", FALSE))
                  /\ intent \in SensitiveIntents =>
                         Routable(intent, resolution, Assessment("review_required", TRUE))
<1>1. \A outcome, approval :
          /\ Assessment(outcome, approval).outcome = outcome
          /\ Assessment(outcome, approval).requires_human_approval = approval
  BY DEF Assessment
<1>2. /\ RouteByOutcome["not_applicable"] = "information"
      /\ RouteByOutcome["needs_clarification"] = "clarification"
      /\ RouteByOutcome["information_only"] = "information"
      /\ RouteByOutcome["blocked"] = "blocked"
      /\ RouteByOutcome["eligible"] = "action"
      /\ RouteByOutcome["review_required"] = "approval"
      /\ DOMAIN RouteByOutcome = {"needs_clarification", "information_only",
                                  "not_applicable", "eligible", "review_required",
                                  "blocked"}
  BY DEF RouteByOutcome
<1>3. /\ ExpectedApprovalByOutcome["not_applicable"] = FALSE
      /\ ExpectedApprovalByOutcome["needs_clarification"] = FALSE
      /\ ExpectedApprovalByOutcome["information_only"] = FALSE
      /\ ExpectedApprovalByOutcome["blocked"] = FALSE
      /\ ExpectedApprovalByOutcome["eligible"] = FALSE
      /\ ExpectedApprovalByOutcome["review_required"] = TRUE
  BY DEF ExpectedApprovalByOutcome
<1>4. /\ BranchNode["information"] = "information"
      /\ BranchNode["clarification"] = "clarification"
      /\ BranchNode["blocked"] = "blocked"
      /\ BranchNode["action"] = "propose_action"
      /\ BranchNode["approval"] = "prepare_approval"
  BY DEF BranchNode
<1>5. ASSUME NEW outcome \in DOMAIN RouteByOutcome, NEW approval,
             approval = ExpectedApprovalByOutcome[outcome],
             outcome = "needs_clarification" => resolution.status = "needs_clarification",
             outcome \in SelectedOrderOutcomes => resolution.status = "selected",
             outcome = "not_applicable" => intent = "other"
      PROVE  /\ ~RoutingFails(intent, resolution, Assessment(outcome, approval))
             /\ DetermineCaseRoute(Assessment(outcome, approval)) = RouteByOutcome[outcome]
  BY <1>1, <1>5 DEF RoutingFails, DetermineCaseRoute
<1>6. intent = "other" => Routable(intent, resolution, Assessment("not_applicable", FALSE))
  BY <1>2, <1>3, <1>4, <1>5 DEF Routable, SelectedOrderOutcomes
<1>7. resolution.status = "needs_clarification" =>
          Routable(intent, resolution, Assessment("needs_clarification", FALSE))
  BY <1>2, <1>3, <1>4, <1>5 DEF Routable, SelectedOrderOutcomes
<1>8. resolution.status = "selected" =>
          /\ Routable(intent, resolution, Assessment("information_only", FALSE))
          /\ Routable(intent, resolution, Assessment("blocked", FALSE))
  BY <1>2, <1>3, <1>4, <1>5 DEF Routable, SelectedOrderOutcomes
<1>9. resolution.status = "selected" /\ intent \in SafeIntents =>
          Routable(intent, resolution, Assessment("eligible", FALSE))
  BY <1>2, <1>3, <1>4, <1>5 DEF Routable, SelectedOrderOutcomes
<1>10. resolution.status = "selected" /\ intent \in SensitiveIntents =>
           Routable(intent, resolution, Assessment("review_required", TRUE))
  BY <1>2, <1>3, <1>4, <1>5 DEF Routable, SelectedOrderOutcomes
<1>11. QED
  BY <1>6, <1>7, <1>8, <1>9, <1>10

LEMMA PolicyIsRoutable ==
    ASSUME NEW intent \in Intents, NEW resolution, NEW context,
           \/ intent = "other"
           \/ resolution.status = "needs_clarification"
           \/ resolution.status = "selected"
    PROVE  Routable(intent, resolution, EvaluatePolicy(intent, resolution, context))
<1>1. CASE intent = "other"
  BY <1>1, OutcomesAreRoutable DEF EvaluatePolicy
<1>2. CASE intent # "other" /\ resolution.status = "needs_clarification"
  BY <1>2, OutcomesAreRoutable DEF EvaluatePolicy
<1>3. CASE intent # "other" /\ resolution.status = "selected"
  <2> DEFINE assessment == EvaluatePolicy(intent, resolution, context)
  <2>1. \/ assessment = Assessment("information_only", FALSE)
        \/ assessment = Assessment("blocked", FALSE)
        \/ assessment = Assessment("eligible", FALSE) /\ intent \in SafeIntents
        \/ assessment = Assessment("review_required", TRUE) /\ intent \in SensitiveIntents
    BY <1>3 DEF EvaluatePolicy, Intents, EvaluateCancelOrder, EvaluateAddressChange,
                EvaluateRefundRequest, SafeIntents, SensitiveIntents
  <2>2. QED
    BY <1>3, <2>1, OutcomesAreRoutable
<1>4. QED
  BY <1>1, <1>2, <1>3

\* The proposal of an intent asks for approval where the branch expects it.
LEMMA ProposalMatchesBranch ==
    ASSUME NEW o \in Orders
    PROVE  /\ \A intent \in SafeIntents :
                  /\ ~ProposalFails(intent, o)
                  /\ ~ProposeAction(intent, o).requires_human_approval
           /\ \A intent \in SensitiveIntents :
                  /\ ~ProposalFails(intent, o)
                  /\ ProposeAction(intent, o).requires_human_approval
  BY StoreAssumption
     DEF SafeIntents, SensitiveIntents, ProposalFails, ProposeAction, ActionTypeByIntent,
         ApprovalRequiredByIntent

-----------------------------------------------------------------------------
\* The rules along the checkpoints.

LEMMA CommitRules ==
    ASSUME TypeInv, RuleInv, NEW t \in Threads, NEW s, NEW n, RuleReady(s, n), Commit(t, s, n)
    PROVE  RuleInv'
<1>1. \A u \in Threads : /\ state'[u] = IF u = t THEN s ELSE state[u]
                         /\ next'[u] = IF u = t THEN n ELSE next[u]
                         /\ run'[u] \in {run[u], "returned", "running"}
  BY DEF Commit, TypeInv, TypeOK
<1>2. \A u \in Threads : RuleReady(state[u], next[u])'
  BY <1>1 DEF RuleInv, RuleReady
<1>3. NeverCorrupted'
  BY <1>1 DEF RuleInv, NeverCorrupted, CorruptionErrors
<1>4. QED
  BY <1>2, <1>3 DEF RuleInv

LEMMA RaiseRules ==
    ASSUME TypeInv, RuleInv, NEW t \in Threads, NEW e \in ExpectedErrors, Raise(t, e)
    PROVE  RuleInv'
<1>1. \A u \in Threads : RuleReady(state[u], next[u])'
  BY DEF Raise, RuleInv, RuleReady
<1>2. \A u \in Threads : run'[u] = run[u] \/ run'[u] = e
  BY DEF Raise, TypeInv, TypeOK
<1>3. NeverCorrupted'
  BY <1>2 DEF RuleInv, NeverCorrupted, CorruptionErrors, ExpectedErrors
<1>4. QED
  BY <1>1, <1>3 DEF RuleInv

\* Most nodes keep the intent and lead to one that takes nothing else for granted.
LEMMA KeptIntentRules ==
    ASSUME TypeInv, RuleInv, NEW t \in Threads, NEW s, NEW n,
           next[t] \notin {"START", "intake", "classify_request"},
           n \notin {"evaluate_policy", "propose_action", "prepare_approval"},
           s.intent = state[t].intent, Commit(t, s, n)
    PROVE  RuleInv'
<1>1. RuleReady(s, n)
  BY DEF RuleInv, RuleReady
<1>2. QED
  BY <1>1, CommitRules

\* The nodes with no exception of their own kind to raise.
LEMMA UnruledNodes ==
    ASSUME TypeInv, RuleInv, NEW t \in Threads,
           \/ LoadContext(t) \/ Clarification(t) \/ Information(t) \/ Blocked(t)
           \/ PrepareActionInputNode(t) \/ PrepareApprovalInput(t)
           \/ ApprovalRejected(t) \/ FinalResponse(t)
    PROVE  RuleInv'
<1> DEFINE s == state[t]
<1>1. next[t] \notin {"START", "intake", "classify_request"} /\ s \in CaseStates
  BY DEF LoadContext, Clarification, Information, Blocked, PrepareActionInputNode,
         PrepareApprovalInput, ApprovalRejected, FinalResponse, At, TypeInv, TypeOK
<1>2. \A status, step : Logged(s, status, step).intent = s.intent
  BY <1>1 DEF Logged, CaseStates
<1>3. \A x, status, step :
          /\ Logged([s EXCEPT !.order_context = x], status, step).intent = s.intent
          /\ Logged([s EXCEPT !.route = x], status, step).intent = s.intent
          /\ Logged([s EXCEPT !.action_input = x], status, step).intent = s.intent
          /\ Logged([s EXCEPT !.final_response = x], status, step).intent = s.intent
  BY <1>1 DEF Logged, CaseStates
<1>4. ASSUME NEW e \in ExpectedErrors, Raise(t, e)
      PROVE  RuleInv'
  BY <1>4, RaiseRules
<1>5. ASSUME NEW x, NEW n, x.intent = s.intent, Commit(t, x, n),
             n \notin {"evaluate_policy", "propose_action", "prepare_approval"}
      PROVE  RuleInv'
  BY <1>1, <1>5, KeptIntentRules
<1> USE DEF ExpectedErrors
<1>6. CASE LoadContext(t)
  BY <1>3, <1>4, <1>5, <1>6 DEF LoadContext, Settle
<1>7. CASE Clarification(t) \/ Information(t) \/ Blocked(t)
  BY <1>3, <1>5, <1>7 DEF Clarification, Information, Blocked
<1>8. CASE PrepareActionInputNode(t)
  <2>1. CASE Raise(t, "ActionInputError")
    BY <1>4, <2>1
  <2>2. ASSUME NEW input,
               Commit(t, Logged([s EXCEPT !.action_input = input],
                                "action_input_ready", "action_input"),
                      IF input.ready THEN "execute_safe_action" ELSE "clarification")
        PROVE  RuleInv'
    <3> DEFINE update == Logged([s EXCEPT !.action_input = input],
                                "action_input_ready", "action_input")
               n == IF input.ready THEN "execute_safe_action" ELSE "clarification"
    <3>1. update.intent = s.intent
      BY <1>3
    <3>2. n \notin {"evaluate_policy", "propose_action", "prepare_approval"}
      OBVIOUS
    <3>3. Commit(t, update, n)
      BY <2>2
    <3> HIDE DEF update, n
    <3>4. QED
      BY <1>5, <3>1, <3>2, <3>3
  <2>3. QED
    BY <1>8, <2>1, <2>2 DEF PrepareActionInputNode
<1>9. CASE PrepareApprovalInput(t)
  BY <1>3, <1>5, <1>9 DEF PrepareApprovalInput
<1>10. CASE ApprovalRejected(t)
  BY <1>2, <1>4, <1>5, <1>10 DEF ApprovalRejected, Settle
<1>11. CASE FinalResponse(t)
  BY <1>3, <1>4, <1>5, <1>11 DEF FinalResponse
<1>12. QED
  BY <1>6, <1>7, <1>8, <1>9, <1>10, <1>11

LEMMA FirstNodesRules ==
    ASSUME TypeInv, RuleInv, NEW t \in Threads, Intake(t) \/ ClassifyRequest(t)
    PROVE  RuleInv'
<1> DEFINE s == state[t]
<1>1. ASSUME NEW e \in ExpectedErrors, Raise(t, e)
      PROVE  RuleInv'
  BY <1>1, RaiseRules
<1>2. CASE Intake(t)
  <2>1. RuleReady(Logged(s, "received", "intake"), "classify_request")
    BY DEF RuleReady
  <2>2. QED
    BY <1>1, <1>2, <2>1, CommitRules DEF Intake, Settle, ExpectedErrors
<1>3. CASE ClassifyRequest(t)
  <2>1. ASSUME NEW intent \in Classifications
        PROVE  RuleReady(Logged([s EXCEPT !.intent = intent],
                                "classified", "classification"), "load_context")
    <3>1. Logged([s EXCEPT !.intent = intent], "classified", "classification").intent = intent
      BY DEF Logged, TypeInv, TypeOK, CaseStates
    <3>2. QED
      BY <3>1, GraphAssumption DEF RuleReady
  <2>2. QED
    BY <1>1, <1>3, <2>1, CommitRules DEF ClassifyRequest, ExpectedErrors
<1>4. QED
  BY <1>2, <1>3

\* A loaded context and a classified intent are all the resolver asks for.
LEMMA ResolveOrderNodeRules ==
    ASSUME TypeInv, RuleInv, NEW t \in Threads, ResolveOrderNode(t)
    PROVE  RuleInv'
<1> DEFINE s == state[t]
           resolution == ResolveOrder(s.intent, s.customer_message, s.order_context)
           update == Logged([s EXCEPT !.selected_order_id = resolution.selected_order_id,
                                      !.order_resolution = resolution],
                            "order_resolved", "order_resolution")
<1>1. s.intent \in Intents /\ s.order_context # None
  BY DEF ResolveOrderNode, At, RuleInv, RuleReady, TypeInv, ChannelsReady, Ready,
         BeforeContext
<1>2. ~ResolutionFails(s.intent, s.order_context)
  BY <1>1, AbsentAssumption DEF ResolutionFails
<1>3. /\ update.intent = s.intent /\ update.order_context = s.order_context
      /\ update.selected_order_id = resolution.selected_order_id
      /\ update.order_resolution = resolution
  BY DEF Logged, TypeInv, TypeOK, CaseStates
<1>4. \/ s.intent = "other"
      \/ resolution.status = "needs_clarification"
      \/ /\ resolution.status = "selected"
         /\ resolution.selected_order_id \in DOMAIN s.order_context
         /\ resolution.selected_order_id \in Orders
  BY <1>1, ResolveOrderSelects
<1>5. Commit(t, update, "evaluate_policy")
  BY <1>2 DEF ResolveOrderNode, Settle
<1> HIDE DEF update, resolution
<1>6. RuleReady(update, "evaluate_policy")
  BY <1>1, <1>3, <1>4 DEF RuleReady
<1>7. QED
  BY <1>5, <1>6, CommitRules

\* The policy engine finds the selected order, and the router a route.
LEMMA EvaluatePolicyNodeRules ==
    ASSUME TypeInv, RuleInv, NEW t \in Threads, EvaluatePolicyNode(t)
    PROVE  RuleInv'
<1> DEFINE s == state[t]
           resolution == s.order_resolution
           assessment == EvaluatePolicy(s.intent, resolution, s.order_context)
           update == Logged([s EXCEPT !.policy_assessment = assessment],
                            "policy_checked", "policy_evaluation")
           branch == BranchNode[DetermineCaseRoute(assessment)]
<1>1. /\ s.intent \in Intents /\ s.order_context # None
      /\ s.selected_order_id = resolution.selected_order_id
      /\ \/ s.intent = "other"
         \/ resolution.status = "needs_clarification"
         \/ /\ resolution.status = "selected"
            /\ s.selected_order_id \in DOMAIN s.order_context
            /\ s.selected_order_id \in Orders
  BY DEF EvaluatePolicyNode, At, RuleInv, RuleReady, TypeInv, ChannelsReady, Ready,
         BeforeContext
<1>2. ~PolicyFails(s.intent, resolution, s.order_context)
  BY <1>1 DEF PolicyFails
<1>3. Routable(s.intent, resolution, assessment)
  BY <1>1, PolicyIsRoutable
<1>4. /\ update.intent = s.intent
      /\ update.selected_order_id = s.selected_order_id
  BY DEF Logged, TypeInv, TypeOK, CaseStates
<1>5. Commit(t, update, branch)
  BY <1>2, <1>3 DEF EvaluatePolicyNode, Settle, Routable
<1>6. /\ branch \in {"clarification", "information", "propose_action",
                     "prepare_approval", "blocked"}
      /\ branch = "propose_action" =>
             s.intent \in SafeIntents /\ resolution.status = "selected"
      /\ branch = "prepare_approval" =>
             s.intent \in SensitiveIntents /\ resolution.status = "selected"
  BY <1>3 DEF Routable
<1> HIDE DEF update, branch
<1>7. s.intent \in SafeIntents \cup SensitiveIntents /\ resolution.status = "selected" =>
          s.selected_order_id \in Orders
  BY <1>1 DEF SafeIntents, SensitiveIntents
<1>8. RuleReady(update, branch)
  BY <1>1, <1>4, <1>6, <1>7 DEF RuleReady
<1>9. QED
  BY <1>5, <1>8, CommitRules

\* The proposal asks for approval exactly on the approval branch.
LEMMA ProposalRules ==
    ASSUME TypeInv, RuleInv, NEW t \in Threads, ProposeActionNode(t) \/ PrepareApproval(t)
    PROVE  RuleInv'
<1> DEFINE s == state[t]
           action == ProposeAction(s.intent, s.selected_order_id)
           update(route, status, step) ==
               Logged([s EXCEPT !.route = route, !.proposed_action = action], status, step)
<1>1. \A route, status, step : update(route, status, step).intent = s.intent
  BY DEF Logged, TypeInv, TypeOK, CaseStates
<1>2. CASE ProposeActionNode(t)
  <2>1. s.intent \in SafeIntents /\ s.selected_order_id \in Orders
        /\ next[t] = "propose_action"
    BY <1>2 DEF ProposeActionNode, At, RuleInv, RuleReady
  <2>2. Commit(t, update("action", "action_proposed", "action_proposal"),
               "prepare_action_input")
    BY <1>2, <2>1, ProposalMatchesBranch DEF ProposeActionNode, Settle
  <2> HIDE DEF update
  <2>3. QED
    BY <1>1, <2>1, <2>2, KeptIntentRules
<1>3. CASE PrepareApproval(t)
  <2>1. s.intent \in SensitiveIntents /\ s.selected_order_id \in Orders
        /\ next[t] = "prepare_approval"
    BY <1>3 DEF PrepareApproval, At, RuleInv, RuleReady
  <2>2. Commit(t, update("approval", "awaiting_approval", "approval_required"),
               "prepare_approval_input")
    BY <1>3, <2>1, ProposalMatchesBranch DEF PrepareApproval, Settle
  <2> HIDE DEF update
  <2>3. QED
    BY <1>1, <2>1, <2>2, KeptIntentRules
<1>4. QED
  BY <1>2, <1>3

LEMMA ApprovalRules ==
    ASSUME TypeInv, RuleInv, NEW t \in Threads, RequestApproval(t) \/ ResolveApproval(t)
    PROVE  RuleInv'
<1> DEFINE s == state[t]
<1>1. CASE Raise(t, "ApprovalError")
  BY <1>1, RaiseRules DEF ExpectedErrors
<1>2. CASE UNCHANGED <<state, next>> /\ run' = [run EXCEPT ![t] = "paused"]
  <2>1. \A u \in Threads : RuleReady(state[u], next[u])'
    BY <1>2 DEF RuleInv, RuleReady
  <2>2. NeverCorrupted'
    BY <1>2 DEF RuleInv, NeverCorrupted, CorruptionErrors, TypeInv, TypeOK
  <2>3. QED
    BY <2>1, <2>2 DEF RuleInv
<1>3. ASSUME NEW decision, NEW n \in {"execute_approved_action", "approval_rejected"},
             Commit(t, [s EXCEPT !.human_decision = decision,
                                 !.audit_log = Append(@, "human_approval")], n)
      PROVE  RuleInv'
  <2> DEFINE update == [s EXCEPT !.human_decision = decision,
                                 !.audit_log = Append(@, "human_approval")]
  <2>1. update.intent = s.intent
    BY DEF TypeInv, TypeOK, CaseStates
  <2>2. next[t] = "human_approval"
    BY DEF RequestApproval, ResolveApproval, At
  <2>3. Commit(t, update, n)
    BY <1>3
  <2> HIDE DEF update
  <2>4. QED
    BY <2>1, <2>2, <2>3, KeptIntentRules
<1>4. QED
  BY <1>1, <1>2, <1>3 DEF RequestApproval, ResolveApproval

LEMMA ExecuteRules ==
    ASSUME TypeInv, RuleInv, NEW t \in Threads, NEW fails, NEW approved,
           At(t, "execute_safe_action") \/ At(t, "execute_approved_action"),
           Execute(t, fails, approved)
    PROVE  RuleInv'
<1> DEFINE s == state[t]
<1>1. CASE Raise(t, "ActionExecutionError")
  BY <1>1, RaiseRules DEF ExpectedErrors
<1>2. ASSUME NEW result, NEW context,
             Commit(t, Logged([s EXCEPT !.action_result = result,
                                        !.order_context = context],
                              "action_executed", "action_execution"), "final_response")
      PROVE  RuleInv'
  <2> DEFINE update == Logged([s EXCEPT !.action_result = result,
                                        !.order_context = context],
                              "action_executed", "action_execution")
  <2>1. update.intent = s.intent
    BY DEF Logged, TypeInv, TypeOK, CaseStates
  <2>2. Commit(t, update, "final_response")
    BY <1>2
  <2> HIDE DEF update
  <2>3. QED
    BY <2>1, <2>2, KeptIntentRules DEF At
<1>3. QED
  BY <1>1, <1>2 DEF Execute

\* A case starts over at intake, which takes nothing for granted.
LEMMA CallerRules ==
    ASSUME TypeInv, RuleInv, NEW t \in Threads,
           \/ Submit(t) \/ ResumeUnknownThread(t)
           \/ \E d \in Decisions \cup {"malformed"} : Resume(t, d)
    PROVE  RuleInv'
<1>1. /\ run'[t] = "running"
      /\ \A u \in Threads \ {t} :
             state'[u] = state[u] /\ next'[u] = next[u] /\ run'[u] = run[u]
      /\ next'[t] = "intake" \/ UNCHANGED <<state, next>>
  BY DEF Submit, Invoke, StartRequest, Resume, ResumeUnknownThread, TypeInv, TypeOK
<1>2. \A u \in Threads : RuleReady(state[u], next[u])'
  BY <1>1 DEF RuleInv, RuleReady
<1>3. NeverCorrupted'
  BY <1>1 DEF RuleInv, NeverCorrupted, CorruptionErrors
<1>4. QED
  BY <1>2, <1>3 DEF RuleInv

-----------------------------------------------------------------------------
LEMMA InitRules == Init => RuleInv
  BY DEF Init, RuleInv, RuleReady, NeverCorrupted, CorruptionErrors

LEMMA StepRules == TypeInv /\ RuleInv /\ [Next]_vars => RuleInv'
<1> SUFFICES ASSUME TypeInv, RuleInv, [Next]_vars
             PROVE  RuleInv'
  OBVIOUS
<1>1. CASE UNCHANGED vars
  BY <1>1 DEF vars, RuleInv, RuleReady, NeverCorrupted
<1>2. ASSUME NEW t \in Threads, GraphStep(t)
      PROVE  RuleInv'
  <2>1. CASE ExecuteSafeAction(t) \/ ExecuteApprovedAction(t)
    BY <2>1, ExecuteRules DEF ExecuteSafeAction, ExecuteApprovedAction
  <2>2. QED
    BY <1>2, <2>1, FirstNodesRules, UnruledNodes, ResolveOrderNodeRules,
       EvaluatePolicyNodeRules, ProposalRules, ApprovalRules
       DEF GraphStep
<1>3. QED
  BY <1>1, <1>2, CallerRules DEF Next

\* No case raises an exception reserved for a state that should never occur:
\* the order resolver, the policy engine, the router and the proposal tables
\* never disagree about a case, however its thread was used before.
THEOREM RulesAgree == Spec => []NeverCorrupted
<1>1. RuleInv => NeverCorrupted
  BY DEF RuleInv
<1>2. QED
  BY <1>1, InitRules, StepRules, TypeInvariance, PTL DEF Spec

-----------------------------------------------------------------------------
\* What belongs to the request.

\* The request's customer owns the order and its message names it.
InScope(s, o) == OwnerOf[o] = s.customer_id /\ o \in s.customer_message

\* What node n reads was written for the request in s.
Scoped(s, n) ==
    /\ n = "resolve_order" => \A o \in DOMAIN s.order_context : OwnerOf[o] = s.customer_id
    /\ n \in {"evaluate_policy", "propose_action", "prepare_approval"} =>
           (s.selected_order_id # None => InScope(s, s.selected_order_id))
    /\ n \in NeedProposal => InScope(s, s.proposed_action.order_id)

ScopeInv == \A t \in Threads : Scoped(state[t], next[t])

OwnInv == ScopeInv /\ OnlyNamedOwnOrders

-----------------------------------------------------------------------------
\* The request along the checkpoints.

LEMMA CommitScoped ==
    ASSUME TypeInv, ScopeInv, NEW t \in Threads, NEW s, NEW n, Scoped(s, n), Commit(t, s, n)
    PROVE  ScopeInv'
<1>1. \A u \in Threads : /\ state'[u] = IF u = t THEN s ELSE state[u]
                         /\ next'[u] = IF u = t THEN n ELSE next[u]
  BY DEF Commit, TypeInv, TypeOK
<1>2. QED
  BY <1>1 DEF ScopeInv, Scoped, InScope

LEMMA SettleScoped ==
    ASSUME TypeInv, ScopeInv, NEW t \in Threads, NEW fails, NEW e, NEW s, NEW n,
           ~fails => Scoped(s, n), Settle(t, fails, e, s, n)
    PROVE  ScopeInv'
<1>1. CASE fails
  BY <1>1 DEF Settle, Raise, ScopeInv, Scoped, InScope
<1>2. CASE ~fails
  BY <1>2, CommitScoped DEF Settle
<1>3. QED
  BY <1>1, <1>2

\* The nodes that lead to one that reads none of these channels.
LEMMA UnreadScoped ==
    ASSUME NEW s, NEW n \in {"intake", "classify_request", "load_context", "clarification",
                             "approval_rejected", "blocked", "information",
                             "final_response", "END"}
    PROVE  Scoped(s, n)
  BY DEF Scoped, NeedProposal, NeedInput

LEMMA UnscopedNodes ==
    ASSUME TypeInv, ScopeInv, NEW t \in Threads,
           \/ Intake(t) \/ ClassifyRequest(t) \/ Clarification(t) \/ Information(t)
           \/ Blocked(t) \/ ApprovalRejected(t) \/ FinalResponse(t)
    PROVE  ScopeInv'
<1>1. CASE UNCHANGED <<state, next>>
  BY <1>1 DEF ScopeInv, Scoped, InScope
<1>2. ASSUME NEW s, NEW n \in {"classify_request", "load_context", "final_response", "END"},
             Commit(t, s, n)
      PROVE  ScopeInv'
  BY <1>2, CommitScoped, UnreadScoped
<1>3. QED
  BY <1>1, <1>2
     DEF Intake, ClassifyRequest, Clarification, Information, Blocked, ApprovalRejected,
         FinalResponse, Settle, Raise

\* The context is loaded for the request's customer.
LEMMA LoadContextScoped ==
    ASSUME TypeInv, ScopeInv, NEW t \in Threads, LoadContext(t)
    PROVE  ScopeInv'
<1> DEFINE s == state[t]
           update == Logged([s EXCEPT !.order_context = OrdersOfCustomer(s.customer_id)],
                            "context_loaded", "context_loading")
<1>1. /\ update.order_context = OrdersOfCustomer(s.customer_id)
      /\ update.customer_id = s.customer_id
  BY DEF Logged, TypeInv, TypeOK, CaseStates
<1>2. \A o \in DOMAIN OrdersOfCustomer(s.customer_id) : OwnerOf[o] = s.customer_id
  BY DEF OrdersOfCustomer, OwnedBy
<1>3. Scoped(update, "resolve_order")
  BY <1>1, <1>2 DEF Scoped, NeedProposal, NeedInput
<1>4. QED
  BY <1>3, SettleScoped DEF LoadContext

\* The selection is an order of that context which the request names.
LEMMA ResolveOrderNodeScoped ==
    ASSUME TypeInv, ScopeInv, NEW t \in Threads, ResolveOrderNode(t)
    PROVE  ScopeInv'
<1> DEFINE s == state[t]
           resolution == ResolveOrder(s.intent, s.customer_message, s.order_context)
           update == Logged([s EXCEPT !.selected_order_id = resolution.selected_order_id,
                                      !.order_resolution = resolution],
                            "order_resolved", "order_resolution")
<1>1. /\ update.selected_order_id = resolution.selected_order_id
      /\ update.customer_id = s.customer_id
      /\ update.customer_message = s.customer_message
  BY DEF Logged, TypeInv, TypeOK, CaseStates
<1>2. resolution.selected_order_id # None => InScope(s, resolution.selected_order_id)
  <2> DEFINE mentioned == MentionedOrders(s.customer_message, s.order_context)
             unique == CHOOSE o \in Orders : mentioned = {o}
  <2>1. \A o \in mentioned : InScope(s, o)
    BY DEF ResolveOrderNode, At, ScopeInv, Scoped, InScope, MentionedOrders
  <2>2. (\E o \in Orders : mentioned = {o}) => mentioned = {unique}
    OBVIOUS
  <2>3. resolution.selected_order_id # None =>
            (\E o \in Orders : mentioned = {o}) /\ resolution.selected_order_id = unique
    BY DEF ResolveOrder
  <2>4. QED
    BY <2>1, <2>2, <2>3
<1>3. Scoped(update, "evaluate_policy")
  BY <1>1, <1>2 DEF Scoped, InScope, NeedProposal, NeedInput
<1>4. QED
  BY <1>3, SettleScoped DEF ResolveOrderNode

\* The route changes neither the request nor the selection.
LEMMA EvaluatePolicyNodeScoped ==
    ASSUME TypeInv, ScopeInv, NEW t \in Threads, EvaluatePolicyNode(t)
    PROVE  ScopeInv'
<1> DEFINE s == state[t]
           assessment == EvaluatePolicy(s.intent, s.order_resolution, s.order_context)
           policyFails == PolicyFails(s.intent, s.order_resolution, s.order_context)
           fails == policyFails \/ RoutingFails(s.intent, s.order_resolution, assessment)
           update == Logged([s EXCEPT !.policy_assessment = assessment],
                            "policy_checked", "policy_evaluation")
           branch == BranchNode[DetermineCaseRoute(assessment)]
<1>1. /\ update.selected_order_id = s.selected_order_id
      /\ update.customer_id = s.customer_id
      /\ update.customer_message = s.customer_message
  BY DEF Logged, TypeInv, TypeOK, CaseStates
<1>2. s.selected_order_id # None => InScope(s, s.selected_order_id)
  BY DEF EvaluatePolicyNode, At, ScopeInv, Scoped
<1>3. ~fails => branch \in {"clarification", "information", "propose_action",
                            "prepare_approval", "blocked"}
  BY EvaluatePolicyType, BranchNodeType
<1>4. ~fails => Scoped(update, branch)
  BY <1>1, <1>2, <1>3 DEF Scoped, InScope, NeedProposal, NeedInput
<1>5. Settle(t, fails, IF policyFails THEN "PolicyEvaluationError" ELSE "RoutingError",
             update, branch)
  BY DEF EvaluatePolicyNode
<1> HIDE DEF fails, update, branch
<1>6. QED
  BY <1>4, <1>5, SettleScoped

\* The proposal is about the selection.
LEMMA ProposalScoped ==
    ASSUME TypeInv, ScopeInv, NEW t \in Threads, ProposeActionNode(t) \/ PrepareApproval(t)
    PROVE  ScopeInv'
<1> DEFINE s == state[t]
           action == ProposeAction(s.intent, s.selected_order_id)
           update(route, status, step) ==
               Logged([s EXCEPT !.route = route, !.proposed_action = action], status, step)
<1>1. s.selected_order_id # None => InScope(s, s.selected_order_id)
  BY DEF ProposeActionNode, PrepareApproval, At, ScopeInv, Scoped
<1>2. ASSUME NEW route, NEW status, NEW step,
             NEW n \in {"prepare_action_input", "prepare_approval_input"},
             ~ProposalFails(s.intent, s.selected_order_id)
      PROVE  Scoped(update(route, status, step), n)
  <2>1. /\ update(route, status, step).proposed_action = action
        /\ update(route, status, step).customer_id = s.customer_id
        /\ update(route, status, step).customer_message = s.customer_message
    BY DEF Logged, TypeInv, TypeOK, CaseStates
  <2>2. action.order_id = s.selected_order_id /\ s.selected_order_id # None
    BY <1>2 DEF ProposeAction, ProposalFails
  <2>3. QED
    BY <1>1, <2>1, <2>2 DEF Scoped, InScope, NeedProposal, NeedInput
<1>3. CASE ProposeActionNode(t)
  BY <1>2, <1>3, SettleScoped DEF ProposeActionNode
<1>4. CASE PrepareApproval(t)
  BY <1>2, <1>4, SettleScoped DEF PrepareApproval
<1>5. QED
  BY <1>3, <1>4

\* The input changes neither the request nor the proposal.
LEMMA InputScoped ==
    ASSUME TypeInv, ScopeInv, NEW t \in Threads,
           PrepareActionInputNode(t) \/ PrepareApprovalInput(t)
    PROVE  ScopeInv'
<1> DEFINE s == state[t]
           update(input, status, step) ==
               Logged([s EXCEPT !.action_input = input], status, step)
<1>1. InScope(s, s.proposed_action.order_id)
  BY DEF PrepareActionInputNode, PrepareApprovalInput, At, ScopeInv, Scoped, NeedProposal
<1>2. ASSUME NEW input, NEW status, NEW step,
             NEW n \in {"execute_safe_action", "clarification", "human_approval"},
             Commit(t, update(input, status, step), n)
      PROVE  ScopeInv'
  <2>1. /\ update(input, status, step).proposed_action = s.proposed_action
        /\ update(input, status, step).customer_id = s.customer_id
        /\ update(input, status, step).customer_message = s.customer_message
    BY DEF Logged, TypeInv, TypeOK, CaseStates
  <2>2. Scoped(update(input, status, step), n)
    BY <1>1, <2>1 DEF Scoped, InScope
  <2> HIDE DEF update
  <2>3. QED
    BY <1>2, <2>2, CommitScoped
<1>3. CASE Raise(t, "ActionInputError")
  BY <1>3 DEF Raise, ScopeInv, Scoped, InScope
<1>4. QED
  BY <1>2, <1>3 DEF PrepareActionInputNode, PrepareApprovalInput

\* Neither do the question and the answer.
LEMMA ApprovalScoped ==
    ASSUME TypeInv, ScopeInv, NEW t \in Threads, RequestApproval(t) \/ ResolveApproval(t)
    PROVE  ScopeInv'
<1> DEFINE s == state[t]
<1>1. CASE UNCHANGED <<state, next>>
  BY <1>1 DEF ScopeInv, Scoped, InScope
<1>2. ASSUME NEW decision, NEW n \in {"execute_approved_action", "approval_rejected"},
             Commit(t, [s EXCEPT !.human_decision = decision,
                                 !.audit_log = Append(@, "human_approval")], n)
      PROVE  ScopeInv'
  <2> DEFINE update == [s EXCEPT !.human_decision = decision,
                                 !.audit_log = Append(@, "human_approval")]
  <2>1. /\ update.proposed_action = s.proposed_action
        /\ update.customer_id = s.customer_id
        /\ update.customer_message = s.customer_message
    BY DEF TypeInv, TypeOK, CaseStates
  <2>2. InScope(s, s.proposed_action.order_id)
    BY DEF RequestApproval, ResolveApproval, At, ScopeInv, Scoped, NeedProposal, NeedInput
  <2>3. Scoped(update, n)
    BY <2>1, <2>2 DEF Scoped, InScope
  <2> HIDE DEF update
  <2>4. QED
    BY <1>2, <2>3, CommitScoped DEF update
<1>3. QED
  BY <1>1, <1>2 DEF RequestApproval, ResolveApproval, Raise

LEMMA ExecuteScoped ==
    ASSUME TypeInv, ScopeInv, NEW t \in Threads, NEW fails, NEW approved,
           At(t, "execute_safe_action") \/ At(t, "execute_approved_action"),
           Execute(t, fails, approved)
    PROVE  ScopeInv'
<1>1. \A u \in Threads \ {t} : state'[u] = state[u] /\ next'[u] = next[u]
  BY ExecuteEffect
<1>2. Scoped(state[t], next[t])'
  <2>1. CASE Refused(t)
    BY <2>1 DEF Refused, ScopeInv, Scoped, InScope
  <2>2. CASE Executed(t, approved)
    BY <2>2, UnreadScoped DEF Executed
  <2>3. QED
    BY <2>1, <2>2, ExecuteEffect
<1>3. QED
  BY <1>1, <1>2 DEF ScopeInv, Scoped, InScope

\* A new request starts over at intake, which reads none of the old channels.
LEMMA CallerScoped ==
    ASSUME TypeInv, ScopeInv, NEW t \in Threads,
           \/ Submit(t) \/ ResumeUnknownThread(t)
           \/ \E d \in Decisions \cup {"malformed"} : Resume(t, d)
    PROVE  ScopeInv'
<1>1. CASE UNCHANGED <<state, next>>
  BY <1>1 DEF ScopeInv, Scoped, InScope
<1>2. CASE Submit(t) \/ ResumeUnknownThread(t)
  <2>1. /\ next'[t] = "intake"
        /\ \A u \in Threads \ {t} : state'[u] = state[u] /\ next'[u] = next[u]
    BY <1>2 DEF Submit, Invoke, StartRequest, ResumeUnknownThread, TypeInv, TypeOK
  <2>2. QED
    BY <2>1, UnreadScoped DEF ScopeInv, Scoped, InScope
<1>3. QED
  BY <1>1, <1>2 DEF Resume

-----------------------------------------------------------------------------
\* The effects.

\* A journalled request keeps the submission its effect is measured by.
LEMMA OwnEffectsStay ==
    ASSUME TypeInv, OnlyNamedOwnOrders, SubmissionsStay, journal' = journal
    PROVE  OnlyNamedOwnOrders'
<1>1. \A t \in Threads : \A i \in DOMAIN journal[t] :
          submitted'[journal[t][i].request_id] = submitted[journal[t][i].request_id]
  BY JournalledRequest DEF OnlyNamedOwnOrders, SubmissionsStay
<1>2. QED
  BY <1>1 DEF OnlyNamedOwnOrders

LEMMA ExecuteOwn ==
    ASSUME TypeInv, ReviewInv, EffectInv, OwnInv, NEW t \in Threads, NEW fails, NEW approved,
           At(t, "execute_safe_action") \/ At(t, "execute_approved_action"),
           Execute(t, fails, approved),
           UNCHANGED <<resume, interrupts, catalog, submitted, reviews, replies>>
    PROVE  OnlyNamedOwnOrders'
<1> DEFINE s == state[t]
<1>1. CASE Refused(t)
  BY <1>1, OwnEffectsStay DEF Refused, OwnInv, SubmissionsStay
<1>2. CASE Executed(t, approved)
  <2> PICK address : journal' = [journal EXCEPT ![t] = Append(@, EffectAt(t, address))]
    BY <1>2 DEF Executed
  <2>1. InScope(s, s.action_input.order_id)
    <3>1. s.action_input.order_id = s.proposed_action.order_id
      BY <1>2 DEF Executed, ReviewInv, ThreadReviewed, InputMatches, At, NeedInput
    <3>2. InScope(s, s.proposed_action.order_id)
      BY DEF OwnInv, ScopeInv, Scoped, At, NeedProposal, NeedInput
    <3>3. QED
      BY <3>1, <3>2
  <2>2. StartedWith(submitted[s.request_id], t, s)
    BY DEF TypeInv, ChannelsReady, Ready, At, EffectInv, ThreadEffects
  <2>3. ASSUME NEW u \in Threads, NEW i \in DOMAIN journal'[u],
               \/ i \in DOMAIN journal[u] /\ journal'[u][i] = journal[u][i]
               \/ u = t /\ journal'[u][i] = EffectAt(t, address)
        PROVE  /\ submitted'[journal'[u][i].request_id] # None
               /\ submitted'[journal'[u][i].request_id].thread = u
               /\ OwnerOf[journal'[u][i].order_id] =
                      submitted'[journal'[u][i].request_id].customer_id
               /\ journal'[u][i].order_id \in
                      submitted'[journal'[u][i].request_id].customer_message
    <3>1. CASE i \in DOMAIN journal[u] /\ journal'[u][i] = journal[u][i]
      BY <3>1 DEF OwnInv, OnlyNamedOwnOrders
    <3>2. CASE u = t /\ journal'[u][i] = EffectAt(t, address)
      BY <2>1, <2>2, <3>2 DEF EffectAt, InScope, StartedWith
    <3>3. QED
      BY <2>3, <3>1, <3>2
  <2>4. ASSUME NEW u \in Threads, NEW i \in DOMAIN journal'[u]
        PROVE  \/ i \in DOMAIN journal[u] /\ journal'[u][i] = journal[u][i]
               \/ u = t /\ journal'[u][i] = EffectAt(t, address)
    <3>1. journal[u] \in Seq(Effects)
      BY DEF TypeInv, TypeOK
    <3>2. QED
      BY <3>1 DEF TypeInv, TypeOK
  <2>5. QED
    BY <2>3, <2>4 DEF OnlyNamedOwnOrders
<1>3. QED
  BY <1>1, <1>2, ExecuteEffect

-----------------------------------------------------------------------------
LEMMA InitOwn == Init => OwnInv
  BY DEF Init, OwnInv, ScopeInv, Scoped, OnlyNamedOwnOrders, NeedProposal, NeedInput

LEMMA StepScope == TypeInv /\ ScopeInv /\ [Next]_vars => ScopeInv'
<1> SUFFICES ASSUME TypeInv, ScopeInv, [Next]_vars
             PROVE  ScopeInv'
  OBVIOUS
<1>1. CASE UNCHANGED vars
  BY <1>1 DEF vars, ScopeInv, Scoped, InScope
<1>2. ASSUME NEW t \in Threads, GraphStep(t)
      PROVE  ScopeInv'
  <2>1. CASE ExecuteSafeAction(t) \/ ExecuteApprovedAction(t)
    BY <2>1, ExecuteScoped DEF ExecuteSafeAction, ExecuteApprovedAction
  <2>2. QED
    BY <1>2, <2>1, UnscopedNodes, LoadContextScoped, ResolveOrderNodeScoped,
       EvaluatePolicyNodeScoped, ProposalScoped, InputScoped, ApprovalScoped
       DEF GraphStep
<1>3. QED
  BY <1>1, <1>2, CallerScoped DEF Next

LEMMA StepOwn ==
    TypeInv /\ ReviewInv /\ EffectInv /\ OwnInv /\ [Next]_vars => OnlyNamedOwnOrders'
<1> SUFFICES ASSUME TypeInv, ReviewInv, EffectInv, OwnInv, [Next]_vars
             PROVE  OnlyNamedOwnOrders'
  OBVIOUS
<1>1. CASE SubmissionsStay /\ journal' = journal
  BY <1>1, OwnEffectsStay DEF OwnInv
<1>2. CASE UNCHANGED vars
  BY <1>1, <1>2 DEF vars, history, SubmissionsStay
<1>3. ASSUME NEW t \in Threads, GraphStep(t)
      PROVE  OnlyNamedOwnOrders'
  <2>1. CASE ExecuteSafeAction(t) \/ ExecuteApprovedAction(t)
    BY <2>1, ExecuteOwn DEF ExecuteSafeAction, ExecuteApprovedAction
  <2>2. CASE PlainStep(t) \/ RequestApproval(t) \/ ResolveApproval(t)
    BY <1>1, <2>2 DEF PlainStep, RequestApproval, ResolveApproval, history, SubmissionsStay
  <2>3. QED
    BY <1>3, <2>1, <2>2, GraphSteps
<1>4. ASSUME NEW t \in Threads, Submit(t)
      PROVE  OnlyNamedOwnOrders'
  <2>1. SubmissionsStay /\ journal' = journal
    BY <1>4, SubmitStarts DEF StartRequest, SubmissionsStay, TypeInv, TypeOK
  <2>2. QED
    BY <1>1, <2>1
<1>5. ASSUME NEW t \in Threads,
             ResumeUnknownThread(t) \/ \E d \in Decisions \cup {"malformed"} : Resume(t, d)
      PROVE  OnlyNamedOwnOrders'
  BY <1>1, <1>5 DEF ResumeUnknownThread, Resume, history, SubmissionsStay
<1>6. QED
  BY <1>2, <1>3, <1>4, <1>5 DEF Next

\* A request mutates only an order owned by the customer and named by the
\* message it was started with, whatever earlier requests left on its thread
\* and whichever of the two its payload left to the thread.
THEOREM CasesStayInScope == Spec => []OnlyNamedOwnOrders
<1>1. OwnInv <=> ScopeInv /\ OnlyNamedOwnOrders
  BY DEF OwnInv
<1>2. QED
  BY <1>1, InitOwn, StepScope, StepOwn, TypeInvariance, ReviewInvariance, EffectInvariance,
     PTL DEF Spec

=============================================================================
