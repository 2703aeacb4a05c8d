------------------------- MODULE CaseOutcomeProofs -------------------------
(***************************************************************************)
(* What a case leaves behind, for the same generality as CaseSafetyProofs: *)
(* the records of a request - its route, its reviews, its effect, its      *)
(* reply and its audit log - agree with each other.                        *)
(*                                                                         *)
(* The properties speak of a case that is paused, has raised or has        *)
(* returned.  OutcomeInv says what holds on the way there.                 *)
(*                                                                         *)
(* The second half is what the cases know of the store: it is its fixture  *)
(* plus the journal, a case's order context lags behind it only by what    *)
(* others did, and so a store call that the policy allowed is refused only *)
(* where another request was faster.                                       *)
(***************************************************************************)
EXTENDS CaseSafetyProofs, CaseRuleProofs, FiniteSetTheorems

USE DEF Optional

-----------------------------------------------------------------------------
\* The supersteps that neither ask, resolve, execute nor reply.

SafeNodes == {"prepare_action_input", "execute_safe_action"}

ApprovalNodes == {"prepare_approval_input", "human_approval",
                  "execute_approved_action", "approval_rejected"}

\* The route of the branch node n is on.
RouteFits(s, n) ==
    /\ n \in SafeNodes => s.route = "action"
    /\ n \in ApprovalNodes => s.route = "approval"

OtherSteps == AuditSteps \ {"human_approval", "action_execution", "final_response"}

\* Update z of s keeps what is known of the request and logs one event.
Recorded(z, s) ==
    /\ z.request_id = s.request_id
    /\ z.human_decision = s.human_decision
    /\ z.action_result = s.action_result
    /\ z.final_response = s.final_response
    /\ \E step \in OtherSteps : z.audit_log = Append(s.audit_log, step)

\* Node m updates s to z and schedules n.
QuietUpdate(s, m, z, n) ==
    /\ Recorded(z, s)
    /\ z.order_context = IF m = "load_context" THEN OrdersOfCustomer(s.customer_id)
                                               ELSE s.order_context
    /\ n \in {"classify_request", "load_context"} =>
           z.workflow_status \in {"received", "classified"}
    /\ n \notin {"execute_approved_action", "approval_rejected", "END"}
    /\ m = "approval_rejected" => n = "final_response" /\ z.route = s.route
    /\ n = "final_response" /\ m # "approval_rejected" =>
           z.route \in {"clarification", "information", "blocked"}
    /\ RouteFits(s, m) => RouteFits(z, n)

QuietStep(t) ==
    /\ UNCHANGED replies
    /\ next[t] # "final_response"
    /\ \/ run'[t] \in Errors /\ state'[t] = state[t] /\ next'[t] = next[t]
       \/ run'[t] = "running" /\ QuietUpdate(state[t], next[t], state'[t], next'[t])

LEMMA CommitIsQuiet ==
    ASSUME TypeInv, NEW t \in Threads, NEW z, NEW n, next[t] # "final_response",
           QuietUpdate(state[t], next[t], z, n), Commit(t, z, n), UNCHANGED replies
    PROVE  QuietStep(t)
<1>1. n # "END"
  BY DEF QuietUpdate
<1>2. state'[t] = z /\ next'[t] = n /\ run'[t] = "running"
  BY <1>1 DEF Commit, TypeInv, TypeOK
<1>3. QED
  BY <1>2 DEF QuietStep

LEMMA RaiseIsQuiet ==
    ASSUME TypeInv, NEW t \in Threads, NEW e \in Errors, next[t] # "final_response",
           Raise(t, e), UNCHANGED replies
    PROVE  QuietStep(t)
  BY DEF TypeInv, TypeOK, Raise, QuietStep

LEMMA SettleIsQuiet ==
    ASSUME TypeInv, NEW t \in Threads, NEW m, m # "final_response", At(t, m),
           NEW fails, NEW e \in Errors, NEW z, NEW n,
           ~fails => QuietUpdate(state[t], m, z, n),
           Settle(t, fails, e, z, n), OnlyCheckpoint
    PROVE  QuietStep(t)
<1>1. UNCHANGED replies /\ next[t] = m
  BY DEF OnlyCheckpoint, history, At
<1>2. CASE fails
  BY <1>1, <1>2, RaiseIsQuiet DEF Settle
<1>3. CASE ~fails
  BY <1>1, <1>3, CommitIsQuiet DEF Settle
<1>4. QED
  BY <1>2, <1>3

\* What the updates of these nodes have in common.
Noted(z, s, status) ==
    /\ Recorded(z, s)
    /\ z.order_context = s.order_context /\ z.route = s.route
    /\ z.workflow_status = status

Rerouted(z, s, route) ==
    /\ Recorded(z, s)
    /\ z.order_context = s.order_context /\ z.route = route

LEMMA NotedUpdates ==
    ASSUME NEW s \in CaseStates, NEW step \in OtherSteps, NEW status
    PROVE  /\ Noted(Logged(s, status, step), s, status)
           /\ \A x :
                  /\ Noted(Logged([s EXCEPT !.intent = x], status, step), s, status)
                  /\ Noted(Logged([s EXCEPT !.policy_assessment = x], status, step), s, status)
                  /\ Noted(Logged([s EXCEPT !.action_input = x], status, step), s, status)
           /\ \A x, y : Noted(Logged([s EXCEPT !.selected_order_id = x,
                                               !.order_resolution = y], status, step),
                              s, status)
  BY DEF Noted, Recorded, Logged, CaseStates

LEMMA ReroutedUpdates ==
    ASSUME NEW s \in CaseStates, NEW step \in OtherSteps, NEW status
    PROVE  \A x, y :
               /\ Rerouted(Logged([s EXCEPT !.route = x], status, step), s, x)
               /\ Rerouted(Logged([s EXCEPT !.route = x, !.proposed_action = y],
                                  status, step), s, x)
  BY DEF Rerouted, Recorded, Logged, CaseStates

LEMMA ContextRecords ==
    ASSUME NEW s \in CaseStates, NEW context, NEW step \in OtherSteps, NEW status
    PROVE  LET z == [s EXCEPT !.order_context = context]
           IN  /\ Recorded(Logged(z, status, step), s)
               /\ Logged(z, status, step).order_context = context
  BY DEF Recorded, Logged, CaseStates

LEMMA FirstNodesAreQuiet ==
    ASSUME TypeInv, NEW t \in Threads,
           Intake(t) \/ ClassifyRequest(t) \/ LoadContext(t) \/ ResolveOrderNode(t)
    PROVE  QuietStep(t)
<1> DEFINE s == state[t]
<1> USE DEF OtherSteps, AuditSteps, Errors, ExpectedErrors, CorruptionErrors
<1>1. s \in CaseStates
  BY DEF TypeInv, TypeOK
<1>2. CASE Intake(t)
  <2> DEFINE update == Logged(s, "received", "intake")
             fails == s.request_id = None \/ s.customer_id = None \/ s.customer_message = None
  <2>1. Noted(update, s, "received")
    BY <1>1, NotedUpdates
  <2>2. /\ At(t, "intake") /\ OnlyCheckpoint
        /\ Settle(t, fails, "InvalidCustomerRequest", update, "classify_request")
    BY <1>2 DEF Intake
  <2> HIDE DEF update, fails
  <2>3. QuietUpdate(s, "intake", update, "classify_request")
    BY <2>1 DEF Noted, QuietUpdate, RouteFits, SafeNodes, ApprovalNodes
  <2>4. QED
    BY <2>2, <2>3, SettleIsQuiet
<1>3. CASE ClassifyRequest(t)
  <2>1. CASE Raise(t, "ClassificationError")
    BY <1>3, <2>1, RaiseIsQuiet DEF ClassifyRequest, At, OnlyCheckpoint, history
  <2>2. ASSUME NEW intent \in Classifications,
               Commit(t, Logged([s EXCEPT !.intent = intent],
                                "classified", "classification"), "load_context")
        PROVE  QuietStep(t)
    <3> DEFINE update == Logged([s EXCEPT !.intent = intent], "classified", "classification")
    <3>1. Noted(update, s, "classified")
      BY <1>1, NotedUpdates
    <3>2. Commit(t, update, "load_context")
      BY <2>2
    <3> HIDE DEF update
    <3>3. QuietUpdate(s, "classify_request", update, "load_context")
      BY <3>1 DEF Noted, QuietUpdate, RouteFits, SafeNodes, ApprovalNodes
    <3>4. QED
      BY <1>3, <3>2, <3>3, CommitIsQuiet DEF ClassifyRequest, At, OnlyCheckpoint, history
  <2>3. QED
    BY <1>3, <2>1, <2>2 DEF ClassifyRequest
<1>4. CASE LoadContext(t)
  <2> DEFINE update == Logged([s EXCEPT !.order_context = OrdersOfCustomer(s.customer_id)],
                              "context_loaded", "context_loading")
  <2>1. QuietUpdate(s, "load_context", update, "resolve_order")
    BY <1>1, ContextRecords DEF QuietUpdate, RouteFits, SafeNodes, ApprovalNodes
  <2>2. /\ At(t, "load_context") /\ OnlyCheckpoint
        /\ Settle(t, s.customer_id \notin Customers, "CustomerNotFoundError",
                  update, "resolve_order")
    BY <1>4 DEF LoadContext
  <2> HIDE DEF update
  <2>3. QED
    BY <2>1, <2>2, SettleIsQuiet
<1>5. CASE ResolveOrderNode(t)
  <2> DEFINE resolution == ResolveOrder(s.intent, s.customer_message, s.order_context)
             resolved == [s EXCEPT !.selected_order_id = resolution.selected_order_id,
                                   !.order_resolution = resolution]
             update == Logged(resolved, "order_resolved", "order_resolution")
  <2>1. Noted(update, s, "order_resolved")
    BY <1>1, NotedUpdates
  <2>2. /\ At(t, "resolve_order") /\ OnlyCheckpoint
        /\ Settle(t, ResolutionFails(s.intent, s.order_context), "OrderResolutionError",
                  update, "evaluate_policy")
    BY <1>5 DEF ResolveOrderNode
  <2> HIDE DEF update
  <2>3. QuietUpdate(s, "resolve_order", update, "evaluate_policy")
    BY <2>1 DEF Noted, QuietUpdate, RouteFits, SafeNodes, ApprovalNodes
  <2>4. QED
    BY <2>2, <2>3, SettleIsQuiet
<1>6. QED
  BY <1>2, <1>3, <1>4, <1>5

LEMMA EvaluatePolicyNodeIsQuiet ==
    ASSUME TypeInv, NEW t \in Threads, EvaluatePolicyNode(t)
    PROVE  QuietStep(t)
<1> DEFINE s == state[t]
           assessment == EvaluatePolicy(s.intent, s.order_resolution, s.order_context)
           policyFails == PolicyFails(s.intent, s.order_resolution, s.order_context)
           fails == policyFails \/ RoutingFails(s.intent, s.order_resolution, assessment)
           update == Logged([s EXCEPT !.policy_assessment = assessment],
                            "policy_checked", "policy_evaluation")
           branch == BranchNode[DetermineCaseRoute(assessment)]
           error == IF policyFails THEN "PolicyEvaluationError" ELSE "RoutingError"
<1>1. Noted(update, s, "policy_checked")
  BY NotedUpdates DEF TypeInv, TypeOK, OtherSteps, AuditSteps
<1>2. ~fails => branch \in {"clarification", "information", "propose_action",
                            "prepare_approval", "blocked"}
  BY EvaluatePolicyType, BranchNodeType
<1>3. /\ Settle(t, fails, error, update, branch)
      /\ At(t, "evaluate_policy") /\ OnlyCheckpoint
  BY DEF EvaluatePolicyNode
<1>4. error \in Errors
  BY DEF Errors, CorruptionErrors
<1> HIDE DEF fails, update, branch, error
<1>5. ~fails => QuietUpdate(s, "evaluate_policy", update, branch)
  BY <1>1, <1>2 DEF Noted, QuietUpdate, RouteFits, SafeNodes, ApprovalNodes
<1>6. QED
  BY <1>3, <1>4, <1>5, SettleIsQuiet

LEMMA BranchNodesAreQuiet ==
    ASSUME TypeInv, NEW t \in Threads, Clarification(t) \/ Information(t) \/ Blocked(t)
    PROVE  QuietStep(t)
<1> DEFINE s == state[t]
<1>1. ASSUME NEW m \in {"clarification", "information", "blocked"}, NEW status,
             NEW step \in OtherSteps, At(t, m), OnlyCheckpoint,
             Commit(t, Logged([s EXCEPT !.route = m], status, step), "final_response")
      PROVE  QuietStep(t)
  <2> DEFINE update == Logged([s EXCEPT !.route = m], status, step)
  <2>1. Rerouted(update, s, m)
    BY ReroutedUpdates DEF TypeInv, TypeOK
  <2>2. Commit(t, update, "final_response")
    BY <1>1
  <2> HIDE DEF update
  <2>3. QuietUpdate(s, m, update, "final_response")
    BY <2>1 DEF Rerouted, QuietUpdate, RouteFits, SafeNodes, ApprovalNodes
  <2>4. QED
    BY <1>1, <2>2, <2>3, CommitIsQuiet DEF At, OnlyCheckpoint, history
<1> USE DEF OtherSteps, AuditSteps
<1>2. CASE Clarification(t)
  BY <1>1, <1>2 DEF Clarification
<1>3. CASE Information(t)
  BY <1>1, <1>3 DEF Information
<1>4. CASE Blocked(t)
  BY <1>1, <1>4 DEF Blocked
<1>5. QED
  BY <1>2, <1>3, <1>4

LEMMA ProposalNodesAreQuiet ==
    ASSUME TypeInv, NEW t \in Threads, ProposeActionNode(t) \/ PrepareApproval(t)
    PROVE  QuietStep(t)
<1> DEFINE s == state[t]
           action == ProposeAction(s.intent, s.selected_order_id)
           update(route, status, step) ==
               Logged([s EXCEPT !.route = route, !.proposed_action = action], status, step)
<1> USE DEF OtherSteps, AuditSteps, Errors, CorruptionErrors
<1>1. ASSUME NEW route, NEW status, NEW step \in OtherSteps
      PROVE  Rerouted(update(route, status, step), s, route)
  BY ReroutedUpdates DEF TypeInv, TypeOK
<1>2. CASE ProposeActionNode(t)
  <2> DEFINE z == update("action", "action_proposed", "action_proposal")
             fails == \/ ProposalFails(s.intent, s.selected_order_id)
                      \/ action.requires_human_approval
  <2>1. Rerouted(z, s, "action")
    BY <1>1
  <2>2. /\ At(t, "propose_action") /\ OnlyCheckpoint
        /\ Settle(t, fails, "ActionProposalError", z, "prepare_action_input")
    BY <1>2 DEF ProposeActionNode
  <2> HIDE DEF z, fails
  <2>3. QuietUpdate(s, "propose_action", z, "prepare_action_input")
    BY <2>1 DEF Rerouted, QuietUpdate, RouteFits, SafeNodes, ApprovalNodes
  <2>4. QED
    BY <2>2, <2>3, SettleIsQuiet
<1>3. CASE PrepareApproval(t)
  <2> DEFINE z == update("approval", "awaiting_approval", "approval_required")
             fails == \/ ProposalFails(s.intent, s.selected_order_id)
                      \/ ~action.requires_human_approval
  <2>1. Rerouted(z, s, "approval")
    BY <1>1
  <2>2. /\ At(t, "prepare_approval") /\ OnlyCheckpoint
        /\ Settle(t, fails, "ActionProposalError", z, "prepare_approval_input")
    BY <1>3 DEF PrepareApproval
  <2> HIDE DEF z, fails
  <2>3. QuietUpdate(s, "prepare_approval", z, "prepare_approval_input")
    BY <2>1 DEF Rerouted, QuietUpdate, RouteFits, SafeNodes, ApprovalNodes
  <2>4. QED
    BY <2>2, <2>3, SettleIsQuiet
<1>4. QED
  BY <1>2, <1>3

LEMMA InputNodesAreQuiet ==
    ASSUME TypeInv, NEW t \in Threads,
           PrepareActionInputNode(t) \/ PrepareApprovalInput(t)
    PROVE  QuietStep(t)
<1> DEFINE s == state[t]
           update(input, status, step) ==
               Logged([s EXCEPT !.action_input = input], status, step)
<1>1. ASSUME NEW input, NEW status, NEW step \in OtherSteps, NEW n,
             \/ At(t, "prepare_action_input") /\ n \in {"execute_safe_action", "clarification"}
             \/ At(t, "prepare_approval_input") /\ n = "human_approval",
             Commit(t, update(input, status, step), n), OnlyCheckpoint
      PROVE  QuietStep(t)
  <2> DEFINE z == update(input, status, step)
  <2>1. Noted(z, s, status)
    BY NotedUpdates DEF TypeInv, TypeOK
  <2>2. Commit(t, z, n)
    BY <1>1
  <2> HIDE DEF z, update
  <2>3. QuietUpdate(s, next[t], z, n) /\ next[t] # "final_response"
    BY <1>1, <2>1 DEF Noted, QuietUpdate, RouteFits, SafeNodes, ApprovalNodes, At
  <2>4. QED
    BY <1>1, <2>2, <2>3, CommitIsQuiet DEF OnlyCheckpoint, history
<1>2. CASE PrepareActionInputNode(t)
  <2>1. CASE Raise(t, "ActionInputError")
    BY <1>2, <2>1, RaiseIsQuiet
       DEF PrepareActionInputNode, At, OnlyCheckpoint, history, Errors, ExpectedErrors
  <2>2. ASSUME NEW input,
               Commit(t, update(input, "action_input_ready", "action_input"),
                      IF input.ready THEN "execute_safe_action" ELSE "clarification")
        PROVE  QuietStep(t)
    <3> HIDE DEF update
    <3>1. QED
      BY <1>1, <1>2, <2>2 DEF PrepareActionInputNode, OtherSteps, AuditSteps
  <2>3. QED
    BY <1>2, <2>1, <2>2 DEF PrepareActionInputNode
<1>3. CASE PrepareApprovalInput(t)
  BY <1>1, <1>3 DEF PrepareApprovalInput, OtherSteps, AuditSteps
<1>4. QED
  BY <1>2, <1>3

LEMMA ApprovalRejectedIsQuiet ==
    ASSUME TypeInv, NEW t \in Threads, ApprovalRejected(t)
    PROVE  QuietStep(t)
<1> DEFINE s == state[t]
           update == Logged(s, "approval_rejected", "approval_rejected")
<1>1. Noted(update, s, "approval_rejected")
  BY NotedUpdates DEF TypeInv, TypeOK, OtherSteps, AuditSteps
<1>2. /\ At(t, "approval_rejected") /\ OnlyCheckpoint
      /\ Settle(t, s.human_decision # "rejected", "ApprovalError", update, "final_response")
  BY DEF ApprovalRejected
<1> HIDE DEF update
<1>3. QuietUpdate(s, "approval_rejected", update, "final_response")
  BY <1>1 DEF Noted, QuietUpdate, RouteFits, SafeNodes, ApprovalNodes
<1>4. QED
  BY <1>2, <1>3, SettleIsQuiet DEF Errors, ExpectedErrors

\* The supersteps: quiet, or one of the five that ask, resolve, execute or reply.
LEMMA GraphStepKinds ==
    ASSUME TypeInv, NEW t \in Threads, GraphStep(t)
    PROVE  \/ PlainStep(t) /\ QuietStep(t)
           \/ FinalResponse(t)
           \/ RequestApproval(t) \/ ResolveApproval(t)
           \/ ExecuteSafeAction(t) \/ ExecuteApprovedAction(t)
  BY SettlingNodesArePlain, EvaluatePolicyNodeIsPlain, CommittingNodesArePlain,
     InputNodesArePlain, FirstNodesAreQuiet, EvaluatePolicyNodeIsQuiet, BranchNodesAreQuiet,
     ProposalNodesAreQuiet, InputNodesAreQuiet, ApprovalRejectedIsQuiet
     DEF GraphStep

-----------------------------------------------------------------------------
\* The other supersteps, channel by channel.

\* An execution raises, or its one store call is made, journalled and recorded.
ExecutedAs(t) ==
    LET s == state[t]
        z == state'[t]
        o == s.action_input.order_id
    IN  /\ run'[t] = "running" /\ next'[t] = "final_response"
        /\ z.request_id = s.request_id /\ z.customer_id = s.customer_id
        /\ z.route = s.route
        /\ z.human_decision = s.human_decision
        /\ z.proposed_action = s.proposed_action /\ z.final_response = s.final_response
        /\ z.action_result = [action_type |-> s.proposed_action.action_type, order_id |-> o]
        /\ z.order_context = WithUpdatedOrder(s.order_context, o, store'.orders[o])
        /\ z.audit_log = Append(s.audit_log, "action_execution")
        /\ store' = ExecuteAction(s.proposed_action, s.action_input, store)
        /\ journal' = [journal EXCEPT ![t] = Append(@,
               EffectAt(t, s.action_input.new_shipping_address))]

LEMMA ExecuteExactly ==
    ASSUME TypeInv, NEW t \in Threads,
           At(t, "execute_safe_action") \/ At(t, "execute_approved_action"),
           NEW fails, NEW approved, Execute(t, fails, approved)
    PROVE  LET s == state[t]
               stop == \/ fails
                       \/ ExecutionFails(s.proposed_action, s.action_input, store, approved)
           IN  \/ stop /\ run'[t] = "ActionExecutionError" /\ Refused(t)
               \/ ~stop /\ ExecutedAs(t)
<1> DEFINE s == state[t]
           stop == fails \/ ExecutionFails(s.proposed_action, s.action_input, store, approved)
           o == s.action_input.order_id
           result == ExecutionResult(s.proposed_action, s.action_input)
           context == WithUpdatedOrder(s.order_context, o, store'.orders[o])
           update == Logged([s EXCEPT !.action_result = result, !.order_context = context],
                            "action_executed", "action_execution")
<1>1. s \in CaseStates
  BY DEF TypeInv, TypeOK
<1>2. CASE stop
  BY <1>2 DEF Execute, Refused, Raise, TypeInv, TypeOK, Errors, ExpectedErrors
<1>3. CASE ~stop
  <2>1. /\ store' = ExecuteAction(s.proposed_action, s.action_input, store)
        /\ journal' = [journal EXCEPT ![t] = Append(@,
               EffectAt(t, s.action_input.new_shipping_address))]
        /\ Commit(t, update, "final_response")
    BY <1>3 DEF Execute, EffectAt, ExecutionResult
  <2>2. /\ update.request_id = s.request_id /\ update.customer_id = s.customer_id
        /\ update.route = s.route
        /\ update.human_decision = s.human_decision
        /\ update.proposed_action = s.proposed_action
        /\ update.final_response = s.final_response
        /\ update.action_result = result
        /\ update.order_context = context
        /\ update.audit_log = Append(s.audit_log, "action_execution")
    BY <1>1 DEF Logged, CaseStates
  <2>3. state'[t] = update /\ next'[t] = "final_response" /\ run'[t] = "running"
    <3> HIDE DEF update
    <3>1. QED
      BY <2>1 DEF Commit, TypeInv, TypeOK
  <2> HIDE DEF update, context
  <2>4. ExecutedAs(t)
    BY <2>1, <2>2, <2>3 DEF ExecutedAs, ExecutionResult, context
  <2>5. QED
    BY <1>3, <2>4
<1>4. QED
  BY <1>2, <1>3

\* A resume value that is a decision is recorded and followed.
ResolvedAs(t) ==
    LET s == state[t]
        z == state'[t]
    IN  /\ resume[t] \in Decisions /\ ~ApprovalFails(s)
        /\ run'[t] = "running"
        /\ next'[t] = IF resume[t] = "approved" THEN "execute_approved_action"
                                                ELSE "approval_rejected"
        /\ z.request_id = s.request_id /\ z.customer_id = s.customer_id
        /\ z.route = s.route
        /\ z.action_result = s.action_result /\ z.order_context = s.order_context
        /\ z.workflow_status = s.workflow_status
        /\ z.final_response = s.final_response
        /\ z.human_decision = resume[t]
        /\ z.audit_log = Append(s.audit_log, "human_approval")

LEMMA ResolveExactly ==
    ASSUME TypeInv, NEW t \in Threads, ResolveApproval(t)
    PROVE  \/ /\ ApprovalFails(state[t]) \/ resume[t] \notin Decisions
              /\ run'[t] = "ApprovalError" /\ UNCHANGED <<state, next>>
           \/ ResolvedAs(t)
<1> DEFINE s == state[t]
           decision == ParseHumanApprovalResponse(resume[t])
           update == [s EXCEPT !.human_decision = decision,
                               !.audit_log = Append(@, "human_approval")]
           n == IF decision = "approved" THEN "execute_approved_action"
                                         ELSE "approval_rejected"
<1>1. decision = None <=> resume[t] \notin Decisions
  BY AbsentAssumption DEF ParseHumanApprovalResponse
<1>2. CASE ApprovalFails(s) \/ decision = None
  BY <1>1, <1>2 DEF ResolveApproval, Raise, TypeInv, TypeOK
<1>3. CASE ~ApprovalFails(s) /\ decision # None
  <2>1. Commit(t, update, n)
    BY <1>3 DEF ResolveApproval
  <2>2. /\ update.request_id = s.request_id /\ update.customer_id = s.customer_id
        /\ update.route = s.route
        /\ update.action_result = s.action_result
        /\ update.order_context = s.order_context
        /\ update.workflow_status = s.workflow_status
        /\ update.final_response = s.final_response
        /\ update.human_decision = decision
        /\ update.audit_log = Append(s.audit_log, "human_approval")
    BY DEF TypeInv, TypeOK, CaseStates
  <2> HIDE DEF update
  <2>3. state'[t] = update /\ next'[t] = n /\ run'[t] = "running"
    BY <2>1 DEF Commit, TypeInv, TypeOK
  <2>4. resume[t] \in Decisions /\ decision = resume[t]
    BY <1>1, <1>3 DEF ParseHumanApprovalResponse
  <2>5. QED
    BY <1>3, <2>2, <2>3, <2>4 DEF ResolvedAs
<1>4. QED
  BY <1>2, <1>3

\* A reply is recorded with what it was grounded on.
RepliedAs(t) ==
    LET s == state[t]
        z == state'[t]
    IN  /\ run'[t] = "returned" /\ next'[t] = "END"
        /\ z.request_id = s.request_id /\ z.customer_id = s.customer_id
        /\ z.route = s.route
        /\ z.human_decision = s.human_decision /\ z.action_result = s.action_result
        /\ z.order_context = s.order_context /\ z.proposed_action = s.proposed_action
        /\ z.audit_log = Append(s.audit_log, "final_response")
        /\ replies' = [replies EXCEPT ![t] = Append(@,
               [request_id |-> s.request_id, context |-> ResponseContext(s)])]

LEMMA ReplyExactly ==
    ASSUME TypeInv, NEW t \in Threads, FinalResponse(t)
    PROVE  \/ run'[t] = "ResponseGenerationError" /\ UNCHANGED <<state, next, replies>>
           \/ RepliedAs(t)
<1> DEFINE s == state[t]
           update == Logged([s EXCEPT !.final_response = s.request_id],
                            "completed", "final_response")
<1>1. CASE Raise(t, "ResponseGenerationError") /\ UNCHANGED replies
  BY <1>1 DEF Raise, TypeInv, TypeOK
<1>2. CASE /\ Commit(t, update, "END")
           /\ replies' = [replies EXCEPT ![t] = Append(@,
                  [request_id |-> s.request_id, context |-> ResponseContext(s)])]
  <2>1. /\ update.request_id = s.request_id /\ update.customer_id = s.customer_id
        /\ update.route = s.route
        /\ update.human_decision = s.human_decision
        /\ update.action_result = s.action_result
        /\ update.order_context = s.order_context
        /\ update.proposed_action = s.proposed_action
        /\ update.audit_log = Append(s.audit_log, "final_response")
    BY DEF Logged, TypeInv, TypeOK, CaseStates
  <2> HIDE DEF update
  <2>2. state'[t] = update /\ next'[t] = "END" /\ run'[t] = "returned"
    BY <1>2 DEF Commit, TypeInv, TypeOK
  <2>3. QED
    BY <1>2, <2>1, <2>2 DEF RepliedAs
<1>3. QED
  BY <1>1, <1>2 DEF FinalResponse

-----------------------------------------------------------------------------
\* What a step of one thread leaves alone.

ThreadStep(t) ==
    \/ GraphStep(t) \/ Submit(t) \/ ResumeUnknownThread(t)
    \/ \E d \in Decisions \cup {"malformed"} : Resume(t, d)

Untouched(u) ==
    /\ state'[u] = state[u] /\ next'[u] = next[u] /\ run'[u] = run[u]
    /\ resume'[u] = resume[u] /\ interrupts'[u] = interrupts[u]
    /\ journal'[u] = journal[u] /\ replies'[u] = replies[u]
    /\ \A v \in reviews' :
           v.thread = u \/ v.request_id = state[u].request_id => v \in reviews

\* Two threads never serve the same request.
LEMMA OwnRequest ==
    ASSUME EffectInv, NEW t \in Threads, NEW u \in Threads, t # u,
           state[t].request_id # None
    PROVE  state[u].request_id # state[t].request_id
<1>1. ASSUME NEW x \in Threads, state[x].request_id # None
      PROVE  submitted[state[x].request_id].thread = x
  BY <1>1 DEF EffectInv, ThreadEffects, StartedWith
<1>2. submitted[state[t].request_id].thread = t
  BY <1>1
<1>3. state[u].request_id # None => submitted[state[u].request_id].thread = u
  BY <1>1
<1>4. QED
  BY <1>2, <1>3

LEMMA SubmissionsAreKept ==
    ASSUME TypeInv, NEW t \in Threads, ThreadStep(t)
    PROVE  SubmissionsStay /\ reviews \subseteq reviews'
<1>1. CASE GraphStep(t)
  BY <1>1, GraphSteps
     DEF PlainStep, RequestApproval, ResolveApproval, ExecuteSafeAction,
         ExecuteApprovedAction, history, SubmissionsStay
<1>2. CASE Submit(t)
  BY <1>2 DEF Submit, Invoke, StartRequest, SubmissionsStay, TypeInv, TypeOK
<1>3. CASE ResumeUnknownThread(t) \/ \E d \in Decisions \cup {"malformed"} : Resume(t, d)
  BY <1>3 DEF ResumeUnknownThread, Resume, history, SubmissionsStay
<1>4. QED
  BY <1>1, <1>2, <1>3 DEF ThreadStep

LEMMA OthersUntouched ==
    ASSUME CaseInv, NEW t \in Threads, ThreadStep(t), NEW u \in Threads, u # t
    PROVE  Untouched(u)
<1> USE DEF CaseInv, TypeInv, TypeOK
<1>1. CASE PlainStep(t) /\ QuietStep(t)
  BY <1>1 DEF PlainStep, QuietStep, Untouched
<1>2. CASE FinalResponse(t)
  BY <1>2 DEF FinalResponse, Commit, Raise, Untouched
<1>3. CASE RequestApproval(t) \/ ResolveApproval(t)
  BY <1>3 DEF RequestApproval, ResolveApproval, Commit, Raise, Untouched, history
<1>4. CASE ExecuteSafeAction(t) \/ ExecuteApprovedAction(t)
  <2>1. /\ state'[u] = state[u] /\ next'[u] = next[u] /\ run'[u] = run[u]
        /\ journal'[u] = journal[u]
    BY <1>4, ExecuteEffect DEF ExecuteSafeAction, ExecuteApprovedAction
  <2>2. QED
    BY <1>4, <2>1 DEF ExecuteSafeAction, ExecuteApprovedAction, Untouched
<1>5. CASE Submit(t) \/ ResumeUnknownThread(t)
  BY <1>5 DEF Submit, Invoke, StartRequest, ResumeUnknownThread, Untouched, history
<1>6. ASSUME NEW d, Resume(t, d)
      PROVE  Untouched(u)
  <2>1. /\ state[t].request_id # None
        /\ interrupts[t] = BuildApprovalRequest(state[t].request_id, state[t].proposed_action)
    BY <1>6 DEF Resume, ChannelsReady, Ready, ReviewInv, ThreadReviewed
  <2>2. interrupts[t].request_id # state[u].request_id
    BY <2>1, OwnRequest DEF BuildApprovalRequest
  <2>3. QED
    BY <1>6, <2>2 DEF Resume, Untouched
<1>7. QED
  BY <1>1, <1>2, <1>3, <1>4, <1>5, <1>6, GraphStepKinds DEF ThreadStep

-----------------------------------------------------------------------------
\* The invariant.

\* A case is paused, and its resume value read, at an operation that
\* human_approval accepts.
PausedAsOffered(t) ==
    run[t] = "paused" \/ resume[t] # None => ~ApprovalFails(state[t])

\* The replies of a thread are to requests submitted on it, one each, and the
\* current request is answered exactly when the invoke returned.
ThreadReplied(t) ==
    /\ \A i \in DOMAIN replies[t] :
           /\ replies[t][i].request_id \in Requests
           /\ submitted[replies[t][i].request_id] # None
           /\ submitted[replies[t][i].request_id].thread = t
           /\ \A j \in DOMAIN replies[t] :
                  replies[t][i].request_id = replies[t][j].request_id => i = j
    /\ run[t] = "returned" <=>
           \E i \in DOMAIN replies[t] : replies[t][i].request_id = state[t].request_id

\* The branch a case is on is its route, and what it did on the way to its
\* reply is what the route says.
ThreadOutcome(t) ==
    LET s == state[t]
        r == s.request_id
    IN  /\ RouteFits(s, next[t])
        /\ At(t, "approval_rejected") => Reviewed(r, "rejected")
        /\ next[t] \in {"final_response", "END"} =>
               /\ Acted(t, r) <=> \/ s.route = "action"
                                  \/ s.route = "approval" /\ Reviewed(r, "approved")
               /\ s.route = "approval" <=> \E d \in Decisions : Reviewed(r, d)
        /\ \A i \in DOMAIN journal[t] :
               journal[t][i].request_id = r =>
                   s.action_result = [action_type |-> journal[t][i].action_type,
                                      order_id    |-> journal[t][i].order_id]
        /\ next[t] = "final_response" => run[t] \in {"running", "ResponseGenerationError"}
        /\ next[t] = "END" <=> run[t] = "returned"

Accounted(t) == PausedAsOffered(t) /\ ThreadReplied(t) /\ ThreadOutcome(t)

OutcomeInv == \A t \in Threads : Accounted(t)

LEMMA AccountedFrame ==
    ASSUME NEW u \in Threads, Accounted(u), Untouched(u), SubmissionsStay,
           reviews \subseteq reviews'
    PROVE  Accounted(u)'
<1>1. PausedAsOffered(u)'
  BY DEF Accounted, Untouched, PausedAsOffered, ApprovalFails
<1>2. ThreadReplied(u)'
  BY DEF Accounted, Untouched, ThreadReplied, SubmissionsStay
<1>3. \A d : Reviewed(state[u].request_id, d)' <=> Reviewed(state[u].request_id, d)
  BY DEF Untouched, Reviewed
<1>4. ThreadOutcome(u)'
  BY <1>3 DEF Accounted, Untouched, ThreadOutcome, RouteFits, At, Acted
<1>5. QED
  BY <1>1, <1>2, <1>4 DEF Accounted

\* A step of thread t keeps the invariant if it does for t.
LEMMA OwnStepSuffices ==
    ASSUME CaseInv, OutcomeInv, NEW t \in Threads, ThreadStep(t), Accounted(t)'
    PROVE  OutcomeInv'
  BY OthersUntouched, SubmissionsAreKept, AccountedFrame DEF CaseInv, OutcomeInv

LEMMA RepliesFrame ==
    ASSUME NEW t \in Threads, ThreadReplied(t), replies'[t] = replies[t], SubmissionsStay,
           run[t] # "returned", run'[t] # "returned",
           state'[t].request_id = state[t].request_id
    PROVE  ThreadReplied(t)'
  BY DEF ThreadReplied, SubmissionsStay

-----------------------------------------------------------------------------
\* What is known of the request a step serves.

\* A request is journalled, and decided, late in its case.
LEMMA NothingHappenedYet ==
    ASSUME CaseInv, NEW t \in Threads
    PROVE  /\ next[t] \notin {"final_response", "END"} => ~Acted(t, state[t].request_id)
           /\ next[t] \notin AfterReview => \A d : ~Reviewed(state[t].request_id, d)
  BY DEF CaseInv, EffectInv, ThreadEffects, Acted, DecidedInv, ThreadDecided, Reviewed

LEMMA DecidedOnce ==
    ASSUME CaseInv, NEW r, NEW d, NEW e, Reviewed(r, d), Reviewed(r, e)
    PROVE  d = e
  BY DEF CaseInv, DecidedInv, RejectedNeverActs, Reviewed

LEMMA NoResumeValue ==
    ASSUME CaseInv, NEW t \in Threads, run[t] # "running" \/ next[t] # "human_approval"
    PROVE  resume[t] = None
  BY DEF CaseInv, ReviewInv, ThreadReviewed

\* A thread that is past START serves a request submitted on it.
LEMMA RequestIsOwn ==
    ASSUME CaseInv, NEW t \in Threads, next[t] \notin {"START", "intake"}
    PROVE  LET r == state[t].request_id
           IN  r \in Requests /\ submitted[r] # None /\ submitted[r].thread = t
<1> DEFINE s == state[t]
<1>1. s \in CaseStates /\ s.request_id # None
  BY DEF CaseInv, TypeInv, TypeOK, ChannelsReady, Ready
<1>2. s.request_id \in Requests
  BY <1>1 DEF CaseStates
<1>3. StartedWith(submitted[s.request_id], t, s)
  BY <1>1 DEF CaseInv, EffectInv, ThreadEffects
<1>4. QED
  BY <1>2, <1>3 DEF StartedWith

\* A quiet step that raises keeps the checkpoint; one that commits follows
\* QuietUpdate.
LEMMA QuietAccounted ==
    ASSUME CaseInv, NEW t \in Threads, ThreadStep(t), Accounted(t), PlainStep(t), QuietStep(t)
    PROVE  Accounted(t)'
<1> DEFINE s == state[t]
           r == s.request_id
<1>1. next[t] \in PlainNodes \ {"final_response"} /\ run[t] = "running"
  BY DEF PlainStep, QuietStep
<1>2. UNCHANGED <<resume, journal, reviews, replies>>
  BY DEF PlainStep, QuietStep
<1>3. run'[t] \notin {"new", "paused", "returned"} /\ state'[t].request_id = r
  BY DEF QuietStep, QuietUpdate, Recorded, Errors, ExpectedErrors, CorruptionErrors
<1>4. PausedAsOffered(t)'
  BY <1>1, <1>2, <1>3, NoResumeValue DEF PausedAsOffered, PlainNodes, NeedInput
<1>5. ThreadReplied(t)'
  BY <1>1, <1>2, <1>3, RepliesFrame, SubmissionsAreKept DEF Accounted, CaseInv
<1>6. ~Acted(t, r) /\ ~Acted(t, r)'
  BY <1>1, <1>2, <1>3, NothingHappenedYet DEF PlainNodes, Nodes, Acted
<1>7. \A d : Reviewed(r, d)' <=> Reviewed(r, d)
  BY <1>2, <1>3 DEF Reviewed
<1>8. next[t] # "END" /\ next'[t] # "END"
  BY <1>1 DEF PlainNodes, Nodes, QuietStep, QuietUpdate
<1>9. CASE run'[t] \in Errors /\ state'[t] = state[t] /\ next'[t] = next[t]
  BY <1>1, <1>3, <1>4, <1>5, <1>6, <1>8, <1>9
     DEF Accounted, ThreadOutcome, RouteFits, At, Acted, Errors, ExpectedErrors,
         CorruptionErrors
<1>10. CASE run'[t] = "running" /\ QuietUpdate(s, next[t], state'[t], next'[t])
  <2>1. RouteFits(state'[t], next'[t])
    BY <1>10 DEF Accounted, ThreadOutcome, QuietUpdate
  <2>2. next'[t] \notin {"approval_rejected", "END"}
    BY <1>10 DEF QuietUpdate
  <2>3. ASSUME next'[t] = "final_response"
        PROVE  /\ ~(state'[t].route = "action")
               /\ ~(state'[t].route = "approval" /\ Reviewed(r, "approved"))
               /\ state'[t].route = "approval" <=> \E d \in Decisions : Reviewed(r, d)
    <3>1. CASE next[t] = "approval_rejected"
      <4>1. s.route = "approval" /\ state'[t].route = s.route /\ Reviewed(r, "rejected")
        BY <1>1, <1>10, <3>1
           DEF Accounted, ThreadOutcome, RouteFits, ApprovalNodes, At, QuietUpdate
      <4>2. ~Reviewed(r, "approved")
        BY <4>1, DecidedOnce
      <4>3. QED
        BY <4>1, <4>2 DEF Decisions
    <3>2. CASE next[t] # "approval_rejected"
      <4>1. state'[t].route \in {"clarification", "information", "blocked"}
        BY <1>10, <2>3, <3>2 DEF QuietUpdate
      <4>2. \A d : ~Reviewed(r, d)
        BY <1>1, <3>2, NothingHappenedYet DEF PlainNodes, Nodes, NeedInput, AfterReview
      <4>3. QED
        BY <4>1, <4>2
    <3>3. QED
      BY <3>1, <3>2
  <2>4. ThreadOutcome(t)'
    BY <1>3, <1>6, <1>7, <1>10, <2>1, <2>2, <2>3 DEF ThreadOutcome, At, Acted
  <2>5. QED
    BY <1>4, <1>5, <2>4 DEF Accounted
<1>11. QED
  BY <1>9, <1>10 DEF QuietStep

\* The interrupt changes nothing but the thread's status.
LEMMA RequestApprovalAccounted ==
    ASSUME CaseInv, NEW t \in Threads, ThreadStep(t), Accounted(t), RequestApproval(t)
    PROVE  Accounted(t)'
<1>1. /\ UNCHANGED <<state, next, resume, reviews, journal, replies>>
      /\ run[t] = "running" /\ next[t] = "human_approval" /\ resume[t] = None
      /\ \/ run'[t] = "ApprovalError"
         \/ run'[t] = "paused" /\ ~ApprovalFails(state[t])
  BY DEF RequestApproval, At, Raise, history, CaseInv, TypeInv, TypeOK
<1>2. PausedAsOffered(t)'
  BY <1>1 DEF PausedAsOffered
<1>3. ThreadReplied(t)'
  BY <1>1, RepliesFrame, SubmissionsAreKept DEF Accounted, CaseInv
<1>4. ThreadOutcome(t)'
  BY <1>1 DEF Accounted, ThreadOutcome, At, Acted
<1>5. QED
  BY <1>2, <1>3, <1>4 DEF Accounted

\* The decision that is followed is on record.
LEMMA ResolveApprovalAccounted ==
    ASSUME CaseInv, NEW t \in Threads, ThreadStep(t), Accounted(t), ResolveApproval(t)
    PROVE  Accounted(t)'
<1> DEFINE r == state[t].request_id
<1>1. /\ UNCHANGED <<reviews, journal, replies>> /\ resume'[t] = None
      /\ run[t] = "running" /\ next[t] = "human_approval"
  BY DEF ResolveApproval, At, history, CaseInv, TypeInv, TypeOK
<1>2. ~Acted(t, r)
  BY <1>1, NothingHappenedYet
<1>3. CASE run'[t] = "ApprovalError" /\ UNCHANGED <<state, next>>
  <2>1. PausedAsOffered(t)'
    BY <1>1, <1>3 DEF PausedAsOffered
  <2>2. ThreadReplied(t)'
    BY <1>1, <1>3, RepliesFrame, SubmissionsAreKept DEF Accounted, CaseInv
  <2>3. ThreadOutcome(t)'
    BY <1>1, <1>3 DEF Accounted, ThreadOutcome, At, Acted
  <2>4. QED
    BY <2>1, <2>2, <2>3 DEF Accounted
<1>4. CASE ResolvedAs(t)
  <2>1. /\ state'[t].request_id = r /\ state'[t].route = state[t].route
        /\ run'[t] = "running"
        /\ next'[t] = IF resume[t] = "approved" THEN "execute_approved_action"
                                                ELSE "approval_rejected"
    BY <1>4 DEF ResolvedAs
  <2>2. PausedAsOffered(t)'
    BY <1>1, <2>1 DEF PausedAsOffered
  <2>3. ThreadReplied(t)'
    BY <1>1, <2>1, RepliesFrame, SubmissionsAreKept DEF Accounted, CaseInv
  <2>4. state[t].route = "approval"
    BY <1>1 DEF Accounted, ThreadOutcome, RouteFits, ApprovalNodes
  <2>5. next'[t] = "approval_rejected" => Reviewed(r, "rejected")
    BY <1>4, <2>1
       DEF ResolvedAs, Decisions, CaseInv, ReviewInv, ThreadReviewed, ReviewOf, Reviewed
  <2>6. ~Acted(t, r)'
    BY <1>1, <1>2, <2>1 DEF Acted
  <2>7. ThreadOutcome(t)'
    BY <1>1, <2>1, <2>4, <2>5, <2>6
       DEF ThreadOutcome, RouteFits, SafeNodes, ApprovalNodes, At, Acted, Reviewed
  <2>8. QED
    BY <2>2, <2>3, <2>7 DEF Accounted
<1>5. QED
  BY <1>3, <1>4, ResolveExactly DEF CaseInv

\* The effect that is journalled is the one the route promises.
LEMMA ExecuteAccounted ==
    ASSUME CaseInv, NEW t \in Threads, ThreadStep(t), Accounted(t),
           ExecuteSafeAction(t) \/ ExecuteApprovedAction(t)
    PROVE  Accounted(t)'
<1> DEFINE s == state[t]
           r == s.request_id
<1>1. /\ UNCHANGED <<resume, reviews, replies>>
      /\ run[t] = "running" /\ next[t] \in {"execute_safe_action", "execute_approved_action"}
  BY DEF ExecuteSafeAction, ExecuteApprovedAction, At
<1>2. (run'[t] = "ActionExecutionError" /\ Refused(t)) \/ ExecutedAs(t)
  BY <1>1, ExecuteExactly DEF ExecuteSafeAction, ExecuteApprovedAction, CaseInv
<1>3. ~Acted(t, r)
  BY <1>1, NothingHappenedYet
<1>4. CASE run'[t] = "ActionExecutionError" /\ Refused(t)
  <2>1. state'[t] = state[t] /\ next'[t] = next[t] /\ journal' = journal
    BY <1>4 DEF Refused
  <2>2. PausedAsOffered(t)'
    BY <1>1, <1>4, <2>1 DEF Accounted, PausedAsOffered, ApprovalFails
  <2>3. ThreadReplied(t)'
    BY <1>1, <1>4, <2>1, RepliesFrame, SubmissionsAreKept DEF Accounted, CaseInv
  <2>4. ThreadOutcome(t)'
    BY <1>1, <1>4, <2>1 DEF Accounted, ThreadOutcome, At, Acted
  <2>5. QED
    BY <2>2, <2>3, <2>4 DEF Accounted
<1>5. CASE ExecutedAs(t)
  <2> DEFINE effect == EffectAt(t, s.action_input.new_shipping_address)
  <2>1. /\ state'[t].request_id = r /\ state'[t].route = s.route
        /\ run'[t] = "running" /\ next'[t] = "final_response"
        /\ state'[t].action_result = [action_type |-> effect.action_type,
                                      order_id    |-> effect.order_id]
    BY <1>5 DEF ExecutedAs, EffectAt
  <2>2. PausedAsOffered(t)'
    BY <1>1, <2>1, NoResumeValue DEF PausedAsOffered
  <2>3. ThreadReplied(t)'
    BY <1>1, <2>1, RepliesFrame, SubmissionsAreKept DEF Accounted, CaseInv
  <2>4. /\ DOMAIN journal'[t] = DOMAIN journal[t] \cup {Len(journal[t]) + 1}
        /\ \A i \in DOMAIN journal[t] : journal'[t][i] = journal[t][i]
        /\ journal'[t][Len(journal[t]) + 1] = effect
    BY <1>5 DEF ExecutedAs, CaseInv, TypeInv, TypeOK
  <2>5. Acted(t, r)'
    BY <2>1, <2>4 DEF Acted, EffectAt
  <2>6. \A i \in DOMAIN journal'[t] :
            journal'[t][i].request_id = r => journal'[t][i] = effect
    BY <1>3, <2>4 DEF Acted
  <2>7. CASE next[t] = "execute_safe_action"
    <3>1. s.route = "action" /\ \A d : ~Reviewed(r, d)
      BY <2>7, NothingHappenedYet
         DEF Accounted, ThreadOutcome, RouteFits, SafeNodes, AfterReview
    <3>2. QED
      BY <1>1, <2>1, <2>2, <2>3, <2>5, <2>6, <3>1
         DEF Accounted, ThreadOutcome, RouteFits, SafeNodes, ApprovalNodes, At, Reviewed
  <2>8. CASE next[t] = "execute_approved_action"
    <3>1. s.route = "approval" /\ Reviewed(r, "approved")
      BY <1>1, <2>8
         DEF Accounted, ThreadOutcome, RouteFits, ApprovalNodes, At, CaseInv, ReviewInv,
             ThreadReviewed, ReviewOf, Reviewed
    <3>2. QED
      BY <1>1, <2>1, <2>2, <2>3, <2>5, <2>6, <3>1
         DEF Accounted, ThreadOutcome, RouteFits, SafeNodes, ApprovalNodes, At, Reviewed,
             Decisions
  <2>9. QED
    BY <1>1, <2>7, <2>8
<1>6. QED
  BY <1>2, <1>4, <1>5

\* The reply answers the request the thread serves, which had no reply yet.
LEMMA ReplyAccounted ==
    ASSUME CaseInv, NEW t \in Threads, ThreadStep(t), Accounted(t), FinalResponse(t)
    PROVE  Accounted(t)'
<1> DEFINE s == state[t]
           r == s.request_id
<1>1. /\ UNCHANGED <<resume, reviews, journal>>
      /\ run[t] = "running" /\ next[t] = "final_response" /\ resume[t] = None
  BY NoResumeValue DEF FinalResponse, At
<1>2. CASE run'[t] = "ResponseGenerationError" /\ UNCHANGED <<state, next, replies>>
  <2>1. PausedAsOffered(t)'
    BY <1>1, <1>2 DEF PausedAsOffered
  <2>2. ThreadReplied(t)'
    BY <1>1, <1>2, RepliesFrame, SubmissionsAreKept DEF Accounted, CaseInv
  <2>3. ThreadOutcome(t)'
    BY <1>1, <1>2 DEF Accounted, ThreadOutcome, At, Acted, Reviewed
  <2>4. QED
    BY <2>1, <2>2, <2>3 DEF Accounted
<1>3. CASE RepliedAs(t)
  <2> DEFINE reply == [request_id |-> r, context |-> ResponseContext(s)]
             last == Len(replies[t]) + 1
  <2>1. /\ run'[t] = "returned" /\ next'[t] = "END" /\ state'[t].request_id = r
        /\ state'[t].route = s.route /\ state'[t].action_result = s.action_result
    BY <1>3 DEF RepliedAs
  <2>2. PausedAsOffered(t)'
    BY <1>1, <2>1 DEF PausedAsOffered
  <2>3. /\ DOMAIN replies'[t] = DOMAIN replies[t] \cup {last}
        /\ \A i \in DOMAIN replies[t] : i # last /\ replies'[t][i] = replies[t][i]
        /\ replies'[t][last] = reply
    BY <1>3 DEF RepliedAs, CaseInv, TypeInv, TypeOK
  <2>4. \A i \in DOMAIN replies[t] : replies[t][i].request_id # r
    BY <1>1 DEF Accounted, ThreadReplied
  <2>5. r \in Requests /\ submitted[r] # None /\ submitted[r].thread = t
    BY <1>1, RequestIsOwn
  <2>6. submitted' = submitted
    BY DEF FinalResponse
  <2>7. ThreadReplied(t)'
    BY <2>1, <2>3, <2>4, <2>5, <2>6 DEF Accounted, ThreadReplied
  <2>8. ThreadOutcome(t)'
    BY <1>1, <2>1
       DEF Accounted, ThreadOutcome, RouteFits, SafeNodes, ApprovalNodes, At, Acted, Reviewed
  <2>9. QED
    BY <2>2, <2>7, <2>8 DEF Accounted
<1>4. QED
  BY <1>2, <1>3, ReplyExactly DEF CaseInv

\* A new request has no review, no effect and no reply.
LEMMA StartAccounted ==
    ASSUME CaseInv, NEW t \in Threads, ThreadStep(t), Accounted(t),
           NEW r \in Optional(Requests), NEW c \in Optional(CustomerIds),
           NEW m \in Optional(Messages), NEW complete, StartRequest(t, r, c, m, complete)
    PROVE  Accounted(t)'
<1>1. /\ UNCHANGED <<journal, replies>> /\ (r # None => submitted[r] = None)
      /\ resume'[t] = None /\ run'[t] = "running" /\ next'[t] = "intake"
      /\ state'[t] = [state[t] EXCEPT !.request_id = r, !.customer_id = c,
                                      !.customer_message = m]
  BY DEF StartRequest, CaseInv, TypeInv, TypeOK
<1>2. state'[t].request_id = r
  BY <1>1 DEF CaseInv, TypeInv, TypeOK, CaseStates
<1>3. SubmissionsStay
  BY SubmissionsAreKept DEF CaseInv
<1>4. PausedAsOffered(t)'
  BY <1>1 DEF PausedAsOffered
<1>5. ThreadReplied(t)'
  <2>1. ASSUME NEW i \in DOMAIN replies[t]
        PROVE  LET q == replies[t][i].request_id
               IN  q \in Requests /\ q # r /\ submitted'[q] = submitted[q]
    BY <1>1, <1>3, GraphAssumption DEF Accounted, ThreadReplied, SubmissionsStay
  <2>2. QED
    BY <1>1, <1>2, <2>1 DEF Accounted, ThreadReplied
<1>6. ~Acted(t, r)
  <2>1. \A i \in DOMAIN journal[t] : submitted[journal[t][i].request_id] # None
    BY DEF CaseInv, EffectInv, ThreadEffects
  <2>2. \A i \in DOMAIN journal[t] : journal[t][i].request_id \in Requests
    BY JournalledRequest DEF CaseInv
  <2>3. QED
    BY <1>1, <2>1, <2>2, GraphAssumption DEF Acted
<1>7. ThreadOutcome(t)'
  BY <1>1, <1>2, <1>6
     DEF ThreadOutcome, RouteFits, SafeNodes, ApprovalNodes, At, Acted
<1>8. QED
  BY <1>4, <1>5, <1>7 DEF Accounted

LEMMA ResumeAccounted ==
    ASSUME CaseInv, NEW t \in Threads, ThreadStep(t), Accounted(t), NEW d, Resume(t, d)
    PROVE  Accounted(t)'
<1>1. /\ UNCHANGED <<state, next, journal, replies>> /\ run[t] = "paused"
      /\ run'[t] = "running" /\ next[t] = "human_approval"
  BY DEF Resume, CaseInv, TypeInv, TypeOK, ChannelsReady
<1>2. PausedAsOffered(t)'
  BY <1>1 DEF Accounted, PausedAsOffered
<1>3. ThreadReplied(t)'
  BY <1>1, RepliesFrame, SubmissionsAreKept DEF Accounted, CaseInv
<1>4. ThreadOutcome(t)'
  BY <1>1 DEF Accounted, ThreadOutcome, At, Acted
<1>5. QED
  BY <1>2, <1>3, <1>4 DEF Accounted

LEMMA ResumeUnknownThreadAccounted ==
    ASSUME CaseInv, NEW t \in Threads, ThreadStep(t), Accounted(t), ResumeUnknownThread(t)
    PROVE  Accounted(t)'
<1>1. /\ UNCHANGED <<state, resume, journal, replies>> /\ run[t] = "new"
      /\ run'[t] = "running" /\ next'[t] = "intake"
  BY DEF ResumeUnknownThread, history, CaseInv, TypeInv, TypeOK
<1>2. resume[t] = None /\ journal[t] = <<>>
  BY <1>1, NoResumeValue DEF CaseInv, EffectInv, ThreadEffects
<1>3. PausedAsOffered(t)'
  BY <1>1, <1>2 DEF PausedAsOffered
<1>4. ThreadReplied(t)'
  BY <1>1, RepliesFrame, SubmissionsAreKept DEF Accounted, CaseInv
<1>5. ThreadOutcome(t)'
  BY <1>1, <1>2 DEF ThreadOutcome, RouteFits, SafeNodes, ApprovalNodes, At
<1>6. QED
  BY <1>3, <1>4, <1>5 DEF Accounted

-----------------------------------------------------------------------------
LEMMA InitOutcome == Init => OutcomeInv
  BY DEF Init, OutcomeInv, Accounted, PausedAsOffered, ThreadReplied, ThreadOutcome,
         RouteFits, SafeNodes, ApprovalNodes, At

LEMMA GraphStepAccounted ==
    ASSUME CaseInv, NEW t \in Threads, Accounted(t), GraphStep(t)
    PROVE  Accounted(t)'
<1>1. ThreadStep(t)
  BY DEF ThreadStep
<1>2. CASE PlainStep(t) /\ QuietStep(t)
  BY <1>1, <1>2, QuietAccounted
<1>3. CASE FinalResponse(t)
  BY <1>1, <1>3, ReplyAccounted
<1>4. CASE RequestApproval(t)
  BY <1>1, <1>4, RequestApprovalAccounted
<1>5. CASE ResolveApproval(t)
  BY <1>1, <1>5, ResolveApprovalAccounted
<1>6. CASE ExecuteSafeAction(t) \/ ExecuteApprovedAction(t)
  BY <1>1, <1>6, ExecuteAccounted
<1>7. QED
  BY <1>2, <1>3, <1>4, <1>5, <1>6, GraphStepKinds DEF CaseInv

LEMMA CallerAccounted ==
    ASSUME CaseInv, NEW t \in Threads, Accounted(t),
           \/ Submit(t) \/ ResumeUnknownThread(t)
           \/ \E d \in Decisions \cup {"malformed"} : Resume(t, d)
    PROVE  Accounted(t)'
<1>1. ThreadStep(t)
  BY DEF ThreadStep
<1>2. CASE Submit(t)
  BY <1>1, <1>2, SubmitStarts, StartAccounted DEF CaseInv
<1>3. CASE ResumeUnknownThread(t)
  BY <1>1, <1>3, ResumeUnknownThreadAccounted
<1>4. ASSUME NEW d, Resume(t, d) PROVE Accounted(t)'
  BY <1>1, <1>4, ResumeAccounted
<1>5. QED
  BY <1>2, <1>3, <1>4

LEMMA NextIsThreadStep ==
    ASSUME Next
    PROVE  \E t \in Threads : ThreadStep(t)
  BY DEF Next, ThreadStep

LEMMA StepOutcome == CaseInv /\ OutcomeInv /\ [Next]_vars => OutcomeInv'
<1> SUFFICES ASSUME CaseInv, OutcomeInv, [Next]_vars
             PROVE  OutcomeInv'
  OBVIOUS
<1>1. CASE UNCHANGED vars
  <2>1. \A u \in Threads : Untouched(u)
    BY <1>1 DEF vars, history, Untouched
  <2>2. SubmissionsStay /\ reviews' = reviews
    BY <1>1 DEF vars, history, SubmissionsStay
  <2>3. QED
    BY <2>1, <2>2, AccountedFrame DEF OutcomeInv
<1>2. ASSUME NEW t \in Threads, ThreadStep(t)
      PROVE  OutcomeInv'
  BY <1>2, GraphStepAccounted, CallerAccounted, OwnStepSuffices DEF ThreadStep, OutcomeInv
<1>3. QED
  BY <1>1, <1>2, NextIsThreadStep

LEMMA OutcomeInvariance == Spec => [](CaseInv /\ OutcomeInv)
<1>1. Init => OutcomeInv
  BY InitOutcome
<1>2. CaseInv /\ OutcomeInv /\ [Next]_vars => OutcomeInv'
  BY StepOutcome
<1>3. QED
  BY <1>1, <1>2, CaseInvariance, PTL DEF Spec

-----------------------------------------------------------------------------
\* What a finished case did to the store is what its route says, with any
\* number of requests on a thread: the action route acted, the approval route
\* acted iff a reviewer approved, the other routes did not.
THEOREM RouteTellsOutcome == Spec => []OutcomeMatchesRoute
<1>1. OutcomeInv => OutcomeMatchesRoute
  BY DEF OutcomeInv, Accounted, ThreadOutcome, OutcomeMatchesRoute
<1>2. QED
  BY <1>1, OutcomeInvariance, PTL

\* A case that raises after its store call can only have failed to write its
\* reply, and its result stands in the checkpoint: an operator who finds it
\* can tell what was done.
THEOREM EffectsOutliveFailures == Spec => []FailsAfterEffectOnlyAtReply
<1>1. CaseInv /\ OutcomeInv => FailsAfterEffectOnlyAtReply
  <2> SUFFICES ASSUME CaseInv, OutcomeInv, NEW t \in Threads, NEW i \in DOMAIN journal[t],
                      Raised(t), journal[t][i].request_id = state[t].request_id
               PROVE  /\ run[t] = "ResponseGenerationError"
                      /\ next[t] = "final_response"
                      /\ state[t].action_result =
                            [action_type |-> journal[t][i].action_type,
                             order_id    |-> journal[t][i].order_id]
    BY DEF FailsAfterEffectOnlyAtReply
  <2>1. next[t] \in {"final_response", "END"}
    BY DEF CaseInv, EffectInv, ThreadEffects
  <2>2. run[t] \notin {"running", "returned"}
    BY DEF Raised, Errors, ExpectedErrors, CorruptionErrors
  <2>3. QED
    BY <2>1, <2>2 DEF OutcomeInv, Accounted, ThreadOutcome
<1>2. QED
  BY <1>1, OutcomeInvariance, PTL

\* No request is answered twice, and an invoke that returns without an
\* interrupt has answered the request it was called for.
THEOREM AnswersAreUnique == Spec => []AnsweredOnce
<1>1. OutcomeInv => AnsweredOnce
  BY DEF OutcomeInv, Accounted, ThreadReplied, AnsweredOnce
<1>2. QED
  BY <1>1, OutcomeInvariance, PTL

\* While a reviewer decides, nothing was done or decided for the request, and
\* the card shows the operation of the checkpoint: a sensitive one, on an
\* order owned by the customer and named by the message the request was
\* started with, which a payload may have left to the thread.
THEOREM PausesAreQuiet == Spec => []PauseIsQuiet
<1>1. CaseInv /\ OutcomeInv /\ ScopeInv => PauseIsQuiet
  <2> SUFFICES ASSUME CaseInv, OutcomeInv, ScopeInv, NEW t \in Threads, run[t] = "paused"
               PROVE  LET shown == interrupts[t]
                          request == submitted[shown.request_id]
                      IN  /\ shown.request_id = state[t].request_id
                          /\ shown.action_type = state[t].proposed_action.action_type
                          /\ shown.action_type \in ApprovalRequiredActionTypes
                          /\ shown.order_id \in request.customer_message
                          /\ OwnerOf[shown.order_id] = request.customer_id
                          /\ ~Acted(t, shown.request_id)
                          /\ \A d \in Decisions : ~Reviewed(shown.request_id, d)
    BY DEF PauseIsQuiet
  <2> DEFINE s == state[t]
             shown == interrupts[t]
  <2>1. next[t] = "human_approval"
    BY DEF CaseInv, TypeInv, ChannelsReady
  <2>2. /\ shown.request_id = s.request_id
        /\ shown.action_type = s.proposed_action.action_type
        /\ shown.order_id = s.proposed_action.order_id
    <3>1. shown = BuildApprovalRequest(s.request_id, s.proposed_action)
      BY DEF CaseInv, ReviewInv, ThreadReviewed
    <3>2. QED
      BY <3>1 DEF BuildApprovalRequest
  <2>3. s.proposed_action.action_type \in ApprovalRequiredActionTypes
    BY DEF OutcomeInv, Accounted, PausedAsOffered, ApprovalFails, ApprovalTemplates,
           ApprovalRequiredActionTypes
  <2>4. InScope(s, s.proposed_action.order_id)
    BY <2>1 DEF ScopeInv, Scoped, NeedProposal, NeedInput
  <2>5. /\ submitted[s.request_id].customer_message = s.customer_message
        /\ submitted[s.request_id].customer_id = s.customer_id
    <3>1. s.request_id # None
      BY <2>1 DEF CaseInv, TypeInv, ChannelsReady, Ready
    <3>2. QED
      BY <3>1 DEF CaseInv, EffectInv, ThreadEffects, StartedWith
  <2>6. ~Acted(t, s.request_id)
    BY <2>1, NothingHappenedYet
  <2>7. \A d : ~Reviewed(s.request_id, d)
    BY DEF CaseInv, DecidedInv, ThreadDecided, Reviewed
  <2>8. QED
    BY <2>2, <2>3, <2>4, <2>5, <2>6, <2>7 DEF InScope
<1>2. Spec => []ScopeInv
  BY InitOwn, StepScope, TypeInvariance, PTL DEF Spec, OwnInv
<1>3. QED
  BY <1>1, <1>2, OutcomeInvariance, PTL

-----------------------------------------------------------------------------
\* What a reply is grounded on, where every request has a thread of its own:
\* then no channel outlives its request.

Concluding == {"execute_approved_action", "approval_rejected", "final_response", "END"}

ThreadGrounded(t) ==
    LET s == state[t]
        r == s.request_id
    IN  /\ run[t] = "new" => s = EmptyState /\ replies[t] = <<>>
        /\ s.action_result # None <=> Acted(t, r)
        /\ next[t] \in Concluding => \A d \in Decisions : s.human_decision = d <=> Reviewed(r, d)
        /\ next[t] \notin Concluding => s.human_decision = None
        /\ \A i \in DOMAIN replies[t] :
               /\ run[t] = "returned" /\ replies[t][i].request_id = r
               /\ replies[t][i].context.human_decision = s.human_decision
               /\ replies[t][i].context.action_result = s.action_result

GroundedInv == \A t \in Threads : ThreadGrounded(t)

LEMMA GroundedFrame ==
    ASSUME NEW u \in Threads, ThreadGrounded(u), Untouched(u), reviews \subseteq reviews'
    PROVE  ThreadGrounded(u)'
<1>1. \A d : Reviewed(state[u].request_id, d)' <=> Reviewed(state[u].request_id, d)
  BY DEF Untouched, Reviewed
<1>2. QED
  BY <1>1 DEF ThreadGrounded, Untouched, Acted

\* A thread whose invoke has not returned has no reply.
LEMMA GroundedUnanswered ==
    ASSUME NEW t \in Threads, ThreadGrounded(t), run[t] # "returned", replies'[t] = replies[t],
           run'[t] # "new",
           (LET s == state[t]
            IN  /\ s.action_result # None <=> Acted(t, s.request_id)
                /\ next[t] \in Concluding =>
                       \A d \in Decisions : s.human_decision = d <=> Reviewed(s.request_id, d)
                /\ next[t] \notin Concluding => s.human_decision = None)'
    PROVE  ThreadGrounded(t)'
<1>1. \A i \in DOMAIN replies'[t] : FALSE
  BY DEF ThreadGrounded
<1>2. QED
  BY <1>1 DEF ThreadGrounded

LEMMA QuietGrounded ==
    ASSUME CaseInv, NEW t \in Threads, ThreadGrounded(t), PlainStep(t), QuietStep(t)
    PROVE  ThreadGrounded(t)'
<1> DEFINE s == state[t]
           r == s.request_id
<1>1. next[t] \in PlainNodes \ {"final_response"} /\ run[t] = "running"
  BY DEF PlainStep, QuietStep
<1>2. UNCHANGED <<journal, reviews, replies>>
  BY DEF PlainStep, QuietStep
<1>3. /\ run'[t] # "new" /\ state'[t].request_id = r
      /\ state'[t].human_decision = s.human_decision
      /\ state'[t].action_result = s.action_result
  BY DEF QuietStep, QuietUpdate, Recorded, Errors, ExpectedErrors, CorruptionErrors
<1>4. (Acted(t, r)' <=> Acted(t, r)) /\ \A d : Reviewed(r, d)' <=> Reviewed(r, d)
  BY <1>2, <1>3 DEF Acted, Reviewed
<1>5. /\ next'[t] \in Concluding =>
             \A d \in Decisions : s.human_decision = d <=> Reviewed(r, d)
      /\ next'[t] \notin Concluding => s.human_decision = None
  <2>1. CASE next'[t] = next[t]
    BY <2>1 DEF ThreadGrounded
  <2>2. CASE next[t] = "approval_rejected" /\ next'[t] = "final_response"
    BY <2>2 DEF ThreadGrounded, Concluding
  <2>3. CASE /\ next[t] # "approval_rejected"
             /\ next'[t] \notin {"execute_approved_action", "approval_rejected", "END"}
    <3>1. next[t] \notin Concluding \cup AfterReview
      BY <1>1, <2>3 DEF Concluding, AfterReview, PlainNodes, Nodes, NeedInput
    <3>2. s.human_decision = None /\ \A d : ~Reviewed(r, d)
      BY <3>1, NothingHappenedYet DEF ThreadGrounded
    <3>3. QED
      BY <3>2, AbsentAssumption
  <2>4. QED
    BY <2>1, <2>2, <2>3 DEF QuietStep, QuietUpdate
<1>6. QED
  BY <1>1, <1>2, <1>3, <1>4, <1>5, GroundedUnanswered DEF ThreadGrounded

LEMMA ApprovalGrounded ==
    ASSUME CaseInv, NEW t \in Threads, ThreadGrounded(t), RequestApproval(t) \/ ResolveApproval(t)
    PROVE  ThreadGrounded(t)'
<1> DEFINE r == state[t].request_id
<1>1. UNCHANGED <<reviews, journal, replies>> /\ run[t] = "running" /\ next[t] = "human_approval"
  BY DEF RequestApproval, ResolveApproval, At, history
<1>2. CASE run'[t] \in {"paused", "ApprovalError"} /\ UNCHANGED <<state, next>>
  BY <1>1, <1>2, GroundedUnanswered DEF ThreadGrounded, Acted, Reviewed
<1>3. CASE ResolvedAs(t)
  <2>1. /\ state'[t].request_id = r /\ run'[t] = "running"
        /\ state'[t].human_decision = resume[t] /\ resume[t] \in Decisions
        /\ state'[t].action_result = state[t].action_result
        /\ next'[t] \in Concluding
    BY <1>3 DEF ResolvedAs, Concluding
  <2>2. Reviewed(r, resume[t])
    BY <2>1 DEF CaseInv, ReviewInv, ThreadReviewed, ReviewOf, Reviewed
  <2>3. \A d : Reviewed(r, d)' <=> d = resume[t]
    <3>1. \A d : Reviewed(r, d) => d = resume[t]
      BY <2>2, DecidedOnce
    <3>2. \A d : Reviewed(r, d)' <=> Reviewed(r, d)
      BY <1>1, <2>1 DEF Reviewed
    <3>3. QED
      BY <2>2, <3>1, <3>2
  <2>4. Acted(t, r)' <=> Acted(t, r)
    BY <1>1, <2>1 DEF Acted
  <2>5. QED
    BY <1>1, <2>1, <2>3, <2>4, GroundedUnanswered DEF ThreadGrounded
<1>4. CASE RequestApproval(t)
  BY <1>2, <1>4 DEF RequestApproval, Raise, CaseInv, TypeInv, TypeOK
<1>5. QED
  BY <1>2, <1>3, <1>4, ResolveExactly DEF CaseInv

LEMMA ExecuteGrounded ==
    ASSUME CaseInv, NEW t \in Threads, ThreadGrounded(t),
           ExecuteSafeAction(t) \/ ExecuteApprovedAction(t)
    PROVE  ThreadGrounded(t)'
<1> DEFINE s == state[t]
           r == s.request_id
           n == {"execute_safe_action", "execute_approved_action"}
<1>1. UNCHANGED <<reviews, replies>> /\ run[t] = "running" /\ next[t] \in n
  BY DEF ExecuteSafeAction, ExecuteApprovedAction, At
<1>2. (run'[t] = "ActionExecutionError" /\ Refused(t)) \/ ExecutedAs(t)
  BY <1>1, ExecuteExactly DEF ExecuteSafeAction, ExecuteApprovedAction, CaseInv
<1>3. CASE run'[t] = "ActionExecutionError" /\ Refused(t)
  BY <1>1, <1>3, GroundedUnanswered DEF Refused, ThreadGrounded, Acted, Reviewed
<1>4. CASE ExecutedAs(t)
  <2>1. /\ state'[t].request_id = r /\ state'[t].human_decision = s.human_decision
        /\ run'[t] = "running" /\ next'[t] = "final_response"
        /\ state'[t].action_result = [action_type |-> s.proposed_action.action_type,
                                      order_id    |-> s.action_input.order_id]
    BY <1>4 DEF ExecutedAs
  <2>2. state'[t].action_result # None
    <3>1. s.proposed_action \in ProposedActions
      BY <1>1 DEF CaseInv, TypeInv, TypeOK, ChannelsReady, Ready, NeedInput, NeedProposal,
                  CaseStates
    <3>2. s.proposed_action.action_type \in ActionTypes
      BY <3>1 DEF ProposedActions
    <3>3. s.action_input.order_id \in Orders
      BY <1>1, <2>1, ExecuteEffect
         DEF ExecuteSafeAction, ExecuteApprovedAction, CaseInv, Refused, Executed, Errors,
             ExpectedErrors, CorruptionErrors
    <3>4. QED
      BY <2>1, <3>2, <3>3, AbsentAssumption DEF ActionResults
  <2>3. Acted(t, r)'
    <3>1. /\ Len(journal[t]) + 1 \in DOMAIN journal'[t]
          /\ journal'[t][Len(journal[t]) + 1] = EffectAt(t, s.action_input.new_shipping_address)
      BY <1>4 DEF ExecutedAs, CaseInv, TypeInv, TypeOK
    <3>2. QED
      BY <2>1, <3>1 DEF Acted, EffectAt
  <2>4. \A d \in Decisions : s.human_decision = d <=> Reviewed(r, d)
    <3>1. CASE next[t] = "execute_safe_action"
      <4>1. s.human_decision = None /\ \A d : ~Reviewed(r, d)
        BY <3>1, NothingHappenedYet DEF ThreadGrounded, Concluding, AfterReview
      <4>2. QED
        BY <4>1, AbsentAssumption
    <3>2. CASE next[t] = "execute_approved_action"
      BY <3>2 DEF ThreadGrounded, Concluding
    <3>3. QED
      BY <1>1, <3>1, <3>2
  <2>5. QED
    BY <1>1, <2>1, <2>2, <2>3, <2>4, GroundedUnanswered DEF Concluding, Reviewed
<1>5. QED
  BY <1>2, <1>3, <1>4

LEMMA ReplyGrounded ==
    ASSUME CaseInv, NEW t \in Threads, ThreadGrounded(t), FinalResponse(t)
    PROVE  ThreadGrounded(t)'
<1> DEFINE s == state[t]
           r == s.request_id
<1>1. /\ UNCHANGED <<reviews, journal>>
      /\ run[t] = "running" /\ next[t] = "final_response"
  BY DEF FinalResponse, At
<1>2. CASE run'[t] = "ResponseGenerationError" /\ UNCHANGED <<state, next, replies>>
  BY <1>1, <1>2, GroundedUnanswered DEF ThreadGrounded, Acted, Reviewed
<1>3. CASE RepliedAs(t)
  <2> DEFINE reply == [request_id |-> r, context |-> ResponseContext(s)]
  <2>1. /\ run'[t] = "returned" /\ next'[t] = "END" /\ state'[t].request_id = r
        /\ state'[t].human_decision = s.human_decision
        /\ state'[t].action_result = s.action_result
        /\ replies'[t] = Append(replies[t], reply)
    BY <1>3 DEF RepliedAs, CaseInv, TypeInv, TypeOK
  <2>2. replies[t] \in Seq(Replies) /\ DOMAIN replies[t] = {}
    BY <1>1 DEF ThreadGrounded, CaseInv, TypeInv, TypeOK
  <2>3. \A i \in DOMAIN replies'[t] : replies'[t][i] = reply
    BY <2>1, <2>2
  <2>4. /\ reply.request_id = r
        /\ reply.context.human_decision = s.human_decision
        /\ reply.context.action_result = s.action_result
    BY DEF ResponseContext
  <2>5. QED
    BY <1>1, <2>1, <2>3, <2>4 DEF ThreadGrounded, Concluding, Acted, Reviewed
<1>4. QED
  BY <1>2, <1>3, ReplyExactly DEF CaseInv

LEMMA CallerGrounded ==
    ASSUME CaseInv, ~ReuseThreads, NEW t \in Threads, ThreadGrounded(t),
           \/ Submit(t) \/ ResumeUnknownThread(t)
           \/ \E d \in Decisions \cup {"malformed"} : Resume(t, d)
    PROVE  ThreadGrounded(t)'
<1>1. CASE Submit(t) \/ ResumeUnknownThread(t)
  <2>1. /\ run[t] = "new" /\ run'[t] = "running" /\ next'[t] = "intake"
        /\ UNCHANGED <<journal, replies>>
    BY <1>1 DEF Submit, Invoke, StartRequest, ResumeUnknownThread, history, CaseInv, TypeInv, TypeOK
  <2>2. state[t] = EmptyState /\ journal[t] = <<>>
    BY <2>1 DEF ThreadGrounded, CaseInv, EffectInv, ThreadEffects
  <2>3. state'[t].action_result = None /\ state'[t].human_decision = None
    <3>1. CASE ResumeUnknownThread(t)
      BY <2>2, <3>1 DEF ResumeUnknownThread, EmptyState
    <3>2. ASSUME NEW r, NEW c, NEW m, NEW complete, StartRequest(t, r, c, m, complete)
          PROVE  state'[t].action_result = None /\ state'[t].human_decision = None
      BY <2>2, <3>2 DEF StartRequest, EmptyState, CaseInv, TypeInv, TypeOK
    <3>3. QED
      BY <1>1, <3>1, <3>2 DEF Submit, Invoke
  <2>4. QED
    BY <2>1, <2>2, <2>3, GroundedUnanswered DEF Concluding, Acted
<1>2. ASSUME NEW d, Resume(t, d) PROVE ThreadGrounded(t)'
  <2>1. /\ UNCHANGED <<state, next, journal, replies>> /\ run[t] = "paused"
        /\ run'[t] = "running" /\ next[t] = "human_approval"
    BY <1>2 DEF Resume, CaseInv, TypeInv, TypeOK, ChannelsReady
  <2>2. QED
    BY <2>1, GroundedUnanswered DEF ThreadGrounded, Concluding, Acted
<1>3. QED
  BY <1>1, <1>2

LEMMA StepGrounded ==
    ~ReuseThreads /\ CaseInv /\ GroundedInv /\ [Next]_vars => GroundedInv'
<1> SUFFICES ASSUME ~ReuseThreads, CaseInv, GroundedInv, [Next]_vars
             PROVE  GroundedInv'
  OBVIOUS
<1>1. CASE UNCHANGED vars
  <2>1. \A u \in Threads : Untouched(u)
    BY <1>1 DEF vars, history, Untouched
  <2>2. QED
    BY <1>1, <2>1, GroundedFrame DEF GroundedInv, vars, history
<1>2. ASSUME NEW t \in Threads, ThreadStep(t)
      PROVE  GroundedInv'
  <2>1. ThreadGrounded(t)'
    BY <1>2, GraphStepKinds, QuietGrounded, ApprovalGrounded, ExecuteGrounded, ReplyGrounded,
       CallerGrounded DEF ThreadStep, GroundedInv, CaseInv
  <2>2. QED
    BY <1>2, <2>1, OthersUntouched, SubmissionsAreKept, GroundedFrame DEF CaseInv, GroundedInv
<1>3. QED
  BY <1>1, <1>2, NextIsThreadStep

\* Where every request has a thread of its own, a reply carries exactly the
\* decision its request got and the effect it had.
THEOREM RepliesAreGrounded ==
    ASSUME ~ReuseThreads
    PROVE  Spec => []GroundedReplies
<1>1. Init => GroundedInv
  BY DEF Init, GroundedInv, ThreadGrounded, EmptyState, Concluding, Acted
<1>2. CaseInv /\ GroundedInv /\ [Next]_vars => GroundedInv'
  BY StepGrounded
<1>3. CaseInv /\ OutcomeInv /\ GroundedInv => GroundedReplies
  BY DEF OutcomeInv, Accounted, ThreadOutcome, GroundedInv, ThreadGrounded, Concluding,
         GroundedReplies, Acted
<1>4. QED
  BY <1>1, <1>2, <1>3, CaseInvariance, OutcomeInvariance, PTL DEF Spec

-----------------------------------------------------------------------------
\* The audit log.

Once(event, step) == IF event = step THEN 1 ELSE 0

StepsIn(log, step) == {i \in DOMAIN log : log[i] = step}

DecisionsOn(t) == {v \in reviews : v.thread = t}

\* The decision on its way to human_approval is not logged yet.
Pending(t) == IF resume[t] \in Decisions THEN 1 ELSE 0

ThreadAudited(t) ==
    /\ IsFiniteSet(DecisionsOn(t))
    /\ CountSteps(t, "action_execution") = Len(journal[t])
    /\ CountSteps(t, "final_response") = Len(replies[t])
    /\ CountSteps(t, "human_approval") = Cardinality(DecisionsOn(t)) - Pending(t)

AuditInv == \A t \in Threads : ThreadAudited(t)

LEMMA StepsAreFinite ==
    ASSUME NEW log \in Seq(AuditSteps), NEW step
    PROVE  IsFiniteSet(StepsIn(log, step)) /\ Cardinality(StepsIn(log, step)) \in Nat
<1>1. Len(log) \in Nat /\ DOMAIN log = 1..Len(log)
  OBVIOUS
<1>2. IsFiniteSet(1..Len(log))
  BY <1>1, FS_Interval
<1>3. StepsIn(log, step) \in SUBSET (1..Len(log))
  BY <1>1 DEF StepsIn
<1>4. IsFiniteSet(StepsIn(log, step))
  BY <1>2, <1>3, FS_Subset
<1>5. QED
  BY <1>4, FS_CardinalityType

\* An event is counted under its own step.
LEMMA CountAppended ==
    ASSUME NEW log \in Seq(AuditSteps), NEW event, NEW step
    PROVE  Cardinality(StepsIn(Append(log, event), step)) =
               Cardinality(StepsIn(log, step)) + Once(event, step)
<1> DEFINE last == Len(log) + 1
<1>1. /\ DOMAIN Append(log, event) = DOMAIN log \cup {last} /\ last \notin DOMAIN log
      /\ \A i \in DOMAIN log : Append(log, event)[i] = log[i]
      /\ Append(log, event)[last] = event
  OBVIOUS
<1>2. CASE event = step
  <2>1. StepsIn(Append(log, event), step) = StepsIn(log, step) \cup {last}
    BY <1>1, <1>2 DEF StepsIn
  <2>2. last \notin StepsIn(log, step)
    BY <1>1 DEF StepsIn
  <2>3. QED
    BY <1>2, <2>1, <2>2, StepsAreFinite, FS_AddElement DEF Once
<1>3. CASE event # step
  <2>1. StepsIn(Append(log, event), step) = StepsIn(log, step)
    BY <1>1, <1>3 DEF StepsIn
  <2>2. QED
    BY <1>3, <2>1, StepsAreFinite DEF Once
<1>4. QED
  BY <1>2, <1>3

\* A step that logs nothing, records no effect and no reply, and decides or
\* drops nothing.
LEMMA UnloggedAudited ==
    ASSUME NEW t \in Threads, ThreadAudited(t),
           state'[t].audit_log = state[t].audit_log,
           journal'[t] = journal[t], replies'[t] = replies[t],
           resume[t] \in Decisions <=> resume'[t] \in Decisions,
           DecisionsOn(t)' = DecisionsOn(t)
    PROVE  ThreadAudited(t)'
  BY DEF ThreadAudited, CountSteps, Pending

\* A step that logs one event: what happened is what it says.
LEMMA LoggedAudited ==
    ASSUME CaseInv, NEW t \in Threads, ThreadAudited(t), NEW event \in AuditSteps,
           state'[t].audit_log = Append(state[t].audit_log, event),
           Len(journal'[t]) = Len(journal[t]) + Once(event, "action_execution"),
           Len(replies'[t]) = Len(replies[t]) + Once(event, "final_response"),
           Pending(t)' = Pending(t) - Once(event, "human_approval"),
           DecisionsOn(t)' = DecisionsOn(t)
    PROVE  ThreadAudited(t)'
<1> DEFINE log == state[t].audit_log
           count(step) == Cardinality(StepsIn(log, step))
           after(step) == Cardinality(StepsIn(Append(log, event), step))
<1>1. log \in Seq(AuditSteps)
  BY DEF CaseInv, TypeInv, TypeOK, CaseStates
<1>2. \A step : /\ after(step) = count(step) + Once(event, step)
                /\ count(step) \in Nat /\ Once(event, step) \in Nat
  BY <1>1, CountAppended, StepsAreFinite DEF Once
<1>3. \A step : CountSteps(t, step) = count(step) /\ CountSteps(t, step)' = after(step)
  BY DEF CountSteps, StepsIn
<1>4. Pending(t) \in {0, 1}
  BY DEF Pending
<1>5. Cardinality(DecisionsOn(t)) \in Nat
  BY FS_CardinalityType DEF ThreadAudited
<1> HIDE DEF count, after
<1>6. CountSteps(t, "action_execution")' = Len(journal'[t])
  BY <1>2, <1>3 DEF ThreadAudited
<1>7. CountSteps(t, "final_response")' = Len(replies'[t])
  BY <1>2, <1>3 DEF ThreadAudited
<1>8. CountSteps(t, "human_approval")' = Cardinality(DecisionsOn(t)) - Pending(t)'
  BY <1>2, <1>3, <1>4, <1>5 DEF ThreadAudited
<1>9. QED
  BY <1>6, <1>7, <1>8 DEF ThreadAudited

LEMMA LengthsAreNat ==
    ASSUME CaseInv, NEW t \in Threads
    PROVE  Len(journal[t]) \in Nat /\ Len(replies[t]) \in Nat /\ Pending(t) \in Nat
<1>1. journal[t] \in Seq(Effects) /\ replies[t] \in Seq(Replies)
  BY DEF CaseInv, TypeInv, TypeOK
<1>2. QED
  BY <1>1 DEF Pending

LEMMA GraphStepAudited ==
    ASSUME CaseInv, NEW t \in Threads, Accounted(t), ThreadAudited(t), GraphStep(t)
    PROVE  ThreadAudited(t)'
<1>0. TypeInv
  BY DEF CaseInv
<1>1. reviews' = reviews /\ DecisionsOn(t)' = DecisionsOn(t)
  BY <1>0, GraphSteps
     DEF PlainStep, RequestApproval, ResolveApproval, ExecuteSafeAction,
         ExecuteApprovedAction, history, DecisionsOn
<1>2. CASE PlainStep(t) /\ QuietStep(t)
  <2>1. UNCHANGED <<resume, journal, replies>> /\ Pending(t)' = Pending(t)
    BY <1>2 DEF PlainStep, QuietStep, Pending
  <2>2. CASE state'[t] = state[t]
    BY <1>1, <2>1, <2>2, UnloggedAudited
  <2>3. ASSUME NEW event \in OtherSteps,
               state'[t].audit_log = Append(state[t].audit_log, event)
        PROVE  ThreadAudited(t)'
    <3>1. /\ event \in AuditSteps
          /\ event \notin {"human_approval", "action_execution", "final_response"}
      BY DEF OtherSteps
    <3>2. /\ Len(journal'[t]) = Len(journal[t]) + Once(event, "action_execution")
          /\ Len(replies'[t]) = Len(replies[t]) + Once(event, "final_response")
          /\ Pending(t)' = Pending(t) - Once(event, "human_approval")
      <4>1. /\ Once(event, "action_execution") = 0 /\ Once(event, "final_response") = 0
            /\ Once(event, "human_approval") = 0
        BY <3>1 DEF Once
      <4>2. QED
        BY <2>1, <4>1, LengthsAreNat
    <3>3. QED
      BY <1>1, <2>3, <3>1, <3>2, LoggedAudited DEF CaseInv
  <2>4. QED
    BY <1>2, <2>2, <2>3 DEF QuietStep, QuietUpdate, Recorded
<1>3. CASE FinalResponse(t)
  <2>1. UNCHANGED <<resume, journal>> /\ Pending(t)' = Pending(t)
    BY <1>3 DEF FinalResponse, Pending
  <2>2. CASE UNCHANGED <<state, replies>>
    BY <1>1, <2>1, <2>2, UnloggedAudited
  <2>3. CASE RepliedAs(t)
    <3>1. /\ state'[t].audit_log = Append(state[t].audit_log, "final_response")
          /\ Len(replies'[t]) = Len(replies[t]) + 1
      BY <2>3 DEF RepliedAs, CaseInv, TypeInv, TypeOK
    <3>2. /\ Len(journal'[t]) = Len(journal[t]) + Once("final_response", "action_execution")
          /\ Len(replies'[t]) = Len(replies[t]) + Once("final_response", "final_response")
          /\ Pending(t)' = Pending(t) - Once("final_response", "human_approval")
      BY <2>1, <3>1, LengthsAreNat DEF Once
    <3>3. QED
      BY <1>1, <3>1, <3>2, LoggedAudited DEF CaseInv, AuditSteps
  <2>4. QED
    BY <1>0, <1>3, <2>2, <2>3, ReplyExactly
<1>4. CASE RequestApproval(t)
  BY <1>1, <1>4, UnloggedAudited DEF RequestApproval, Raise, history
<1>5. CASE ResolveApproval(t)
  <2>1. /\ UNCHANGED <<journal, replies>> /\ resume'[t] = None /\ resume[t] # None
    BY <1>5 DEF ResolveApproval, history, CaseInv, TypeInv, TypeOK
  <2>2. ~ApprovalFails(state[t])
    BY <2>1 DEF Accounted, PausedAsOffered
  <2>3. CASE state' = state /\ resume[t] \notin Decisions
    BY <1>1, <2>1, <2>3, AbsentAssumption, UnloggedAudited
  <2>4. CASE ResolvedAs(t)
    <3>1. /\ state'[t].audit_log = Append(state[t].audit_log, "human_approval")
          /\ Pending(t)' = Pending(t) - 1
      BY <2>1, <2>4, AbsentAssumption DEF ResolvedAs, Pending
    <3>2. /\ Len(journal'[t]) = Len(journal[t]) + Once("human_approval", "action_execution")
          /\ Len(replies'[t]) = Len(replies[t]) + Once("human_approval", "final_response")
          /\ Pending(t)' = Pending(t) - Once("human_approval", "human_approval")
      BY <2>1, <3>1, LengthsAreNat DEF Once
    <3>3. QED
      BY <1>1, <3>1, <3>2, LoggedAudited DEF CaseInv, AuditSteps
  <2>5. QED
    BY <1>0, <1>5, <2>2, <2>3, <2>4, ResolveExactly
<1>6. CASE ExecuteSafeAction(t) \/ ExecuteApprovedAction(t)
  <2>1. UNCHANGED <<resume, replies>> /\ Pending(t)' = Pending(t)
    BY <1>6 DEF ExecuteSafeAction, ExecuteApprovedAction, Pending
  <2>2. CASE Refused(t)
    BY <1>1, <2>1, <2>2, UnloggedAudited DEF Refused
  <2>3. CASE ExecutedAs(t)
    <3>1. /\ state'[t].audit_log = Append(state[t].audit_log, "action_execution")
          /\ Len(journal'[t]) = Len(journal[t]) + 1
      BY <2>3 DEF ExecutedAs, CaseInv, TypeInv, TypeOK
    <3>2. /\ Len(journal'[t]) = Len(journal[t]) + Once("action_execution", "action_execution")
          /\ Len(replies'[t]) = Len(replies[t]) + Once("action_execution", "final_response")
          /\ Pending(t)' = Pending(t) - Once("action_execution", "human_approval")
      BY <2>1, <3>1, LengthsAreNat DEF Once
    <3>3. QED
      BY <1>1, <3>1, <3>2, LoggedAudited DEF CaseInv, AuditSteps
  <2>4. QED
    BY <1>0, <1>6, <2>2, <2>3, ExecuteExactly DEF ExecuteSafeAction, ExecuteApprovedAction
<1>7. QED
  BY <1>2, <1>3, <1>4, <1>5, <1>6, <1>0, GraphStepKinds

LEMMA CallerAudited ==
    ASSUME CaseInv, NEW t \in Threads, ThreadAudited(t),
           \/ Submit(t) \/ ResumeUnknownThread(t)
           \/ \E d \in Decisions \cup {"malformed"} : Resume(t, d)
    PROVE  ThreadAudited(t)'
<1> USE DEF CaseInv, TypeInv, TypeOK
<1>1. CASE Submit(t) \/ ResumeUnknownThread(t)
  <2>1. /\ UNCHANGED <<journal, replies, reviews>> /\ run[t] # "running"
        /\ resume'[t] \in {None, resume[t]}
    BY <1>1 DEF Submit, Invoke, StartRequest, ResumeUnknownThread, history
  <2>2. resume[t] = None
    BY <2>1, NoResumeValue
  <2>3. state'[t].audit_log = state[t].audit_log
    <3>1. CASE ResumeUnknownThread(t)
      BY <3>1 DEF ResumeUnknownThread
    <3>2. ASSUME NEW r, NEW c, NEW m, NEW complete, StartRequest(t, r, c, m, complete)
          PROVE  state'[t].audit_log = state[t].audit_log
      BY <3>2 DEF StartRequest, CaseStates
    <3>3. QED
      BY <1>1, <3>1, <3>2 DEF Submit, Invoke
  <2>4. QED
    BY <2>1, <2>2, <2>3, UnloggedAudited DEF DecisionsOn
<1>2. ASSUME NEW d \in Decisions \cup {"malformed"}, Resume(t, d) PROVE ThreadAudited(t)'
  <2>1. /\ UNCHANGED <<state, journal, replies>> /\ run[t] = "paused" /\ resume'[t] = d
    BY <1>2 DEF Resume
  <2>2. resume[t] = None /\ None \notin Decisions
    BY <2>1, NoResumeValue, AbsentAssumption
  <2>3. CASE d \notin Decisions
    <3>1. reviews' = reviews
      BY <1>2, <2>3 DEF Resume
    <3>2. QED
      BY <2>1, <2>2, <2>3, <3>1, UnloggedAudited DEF DecisionsOn
  <2>4. CASE d \in Decisions
    <3> DEFINE review == [thread      |-> t,
                          request_id  |-> interrupts[t].request_id,
                          action_type |-> interrupts[t].action_type,
                          order_id    |-> interrupts[t].order_id,
                          decision    |-> d]
    <3>1. DecisionsOn(t)' = DecisionsOn(t) \cup {review}
      BY <1>2, <2>4 DEF Resume, DecisionsOn
    <3>2. review \notin DecisionsOn(t)
      <4>1. interrupts[t] = BuildApprovalRequest(state[t].request_id,
                                                 state[t].proposed_action)
        BY <2>1 DEF ReviewInv, ThreadReviewed
      <4>2. review.request_id = state[t].request_id
        BY <4>1 DEF BuildApprovalRequest
      <4>3. QED
        BY <2>1, <4>2 DEF DecidedInv, ThreadDecided, DecisionsOn
    <3>3. /\ IsFiniteSet(DecisionsOn(t)')
          /\ Cardinality(DecisionsOn(t)') = Cardinality(DecisionsOn(t)) + 1
      <4> DEFINE before == DecisionsOn(t)
      <4>1. IsFiniteSet(before)
        BY DEF ThreadAudited
      <4> HIDE DEF review, before
      <4>2. /\ IsFiniteSet(before \cup {review})
            /\ review \notin before =>
                   Cardinality(before \cup {review}) = Cardinality(before) + 1
        BY <4>1, FS_AddElement
      <4>3. QED
        BY <3>1, <3>2, <4>2 DEF before
    <3>4. Cardinality(DecisionsOn(t)) \in Nat
      BY FS_CardinalityType DEF ThreadAudited
    <3>5. Pending(t) = 0 /\ Pending(t)' = 1
      BY <2>1, <2>2, <2>4 DEF Pending
    <3>6. \A step : CountSteps(t, step)' = CountSteps(t, step)
      BY <2>1 DEF CountSteps
    <3>7. QED
      BY <2>1, <3>3, <3>4, <3>5, <3>6 DEF ThreadAudited
  <2>5. QED
    BY <2>3, <2>4
<1>3. QED
  BY <1>1, <1>2

LEMMA InitAudited == Init => AuditInv
<1> SUFFICES ASSUME Init, NEW t \in Threads PROVE ThreadAudited(t)
  BY DEF AuditInv
<1>1. /\ state[t].audit_log = <<>> /\ journal[t] = <<>> /\ replies[t] = <<>>
      /\ resume[t] = None /\ DecisionsOn(t) = {}
  BY DEF Init, EmptyState, DecisionsOn
<1>2. \A step : {i \in DOMAIN state[t].audit_log : state[t].audit_log[i] = step} = {}
  BY <1>1
<1>3. Pending(t) = 0
  BY <1>1, AbsentAssumption DEF Pending
<1>4. QED
  BY <1>1, <1>2, <1>3, FS_EmptySet DEF ThreadAudited, CountSteps

LEMMA StepAudited == CaseInv /\ OutcomeInv /\ AuditInv /\ [Next]_vars => AuditInv'
<1> SUFFICES ASSUME CaseInv, OutcomeInv, AuditInv, [Next]_vars
             PROVE  AuditInv'
  OBVIOUS
<1>1. ASSUME NEW u \in Threads, Untouched(u), reviews \subseteq reviews'
      PROVE  ThreadAudited(u)'
  <2>1. DecisionsOn(u)' = DecisionsOn(u)
    BY <1>1 DEF Untouched, DecisionsOn
  <2>2. QED
    BY <1>1, <2>1, UnloggedAudited DEF Untouched, AuditInv
<1>2. CASE UNCHANGED vars
  BY <1>1, <1>2 DEF vars, history, Untouched, AuditInv
<1>3. ASSUME NEW t \in Threads, ThreadStep(t)
      PROVE  AuditInv'
  <2>1. ThreadAudited(t)'
    BY <1>3, GraphStepAudited, CallerAudited DEF ThreadStep, OutcomeInv, AuditInv
  <2>2. QED
    BY <1>1, <1>3, <2>1, OthersUntouched, SubmissionsAreKept DEF CaseInv, AuditInv
<1>4. QED
  BY <1>2, <1>3, NextIsThreadStep

\* The audit log of a thread counts exactly its store mutations, its consumed
\* decisions and its replies, over all the requests it served.
THEOREM AuditLogTellsTheTruth == Spec => []AuditMatchesHistory
<1>1. AuditInv => AuditMatchesHistory
  BY DEF AuditInv, ThreadAudited, AuditMatchesHistory, DecisionsOn, Pending
<1>2. QED
  BY <1>1, InitAudited, StepAudited, OutcomeInvariance, PTL DEF Spec

-----------------------------------------------------------------------------
\* The store and the journal.

AllEffects == UNION {{journal[t][i] : i \in DOMAIN journal[t]} : t \in Threads}

LEMMA EffectsOnOrder ==
    ASSUME NEW o, NEW action
    PROVE  EffectOn(o, action) =
               {e \in AllEffects : e.order_id = o /\ e.action_type = action}
  BY DEF EffectOn, AllEffects

\* The effect an execution of thread t journals.
NewEffect(t) == EffectAt(t, state[t].action_input.new_shipping_address)

LEMMA ExecutionIsJournalled ==
    ASSUME TypeInv, NEW t \in Threads, ExecutedAs(t)
    PROVE  AllEffects' = AllEffects \cup {NewEffect(t)}
<1>1. journal \in [Threads -> Seq(Effects)]
  BY DEF TypeInv, TypeOK
<1>2. journal' = [journal EXCEPT ![t] = Append(@, NewEffect(t))]
  BY DEF ExecutedAs, NewEffect
<1>3. ASSUME NEW e \in AllEffects PROVE e \in AllEffects'
  <2>1. PICK u \in Threads : \E i \in DOMAIN journal[u] : e = journal[u][i]
    BY DEF AllEffects
  <2>2. PICK i \in DOMAIN journal[u] : e = journal[u][i]
    BY <2>1
  <2>3. i \in DOMAIN journal'[u] /\ journal'[u][i] = e
    BY <1>1, <1>2, <2>2
  <2>4. QED
    BY <2>3 DEF AllEffects
<1>4. NewEffect(t) \in AllEffects'
  <2>1. /\ Len(journal[t]) + 1 \in DOMAIN journal'[t]
        /\ journal'[t][Len(journal[t]) + 1] = NewEffect(t)
    BY <1>1, <1>2
  <2>2. QED
    BY <2>1 DEF AllEffects
<1>5. ASSUME NEW e \in AllEffects' PROVE e \in AllEffects \cup {NewEffect(t)}
  <2>1. PICK u \in Threads : \E i \in DOMAIN journal'[u] : e = journal'[u][i]
    BY <1>5 DEF AllEffects
  <2>2. PICK i \in DOMAIN journal'[u] : e = journal'[u][i]
    BY <2>1
  <2>3. \/ i \in DOMAIN journal[u] /\ e = journal[u][i]
        \/ e = NewEffect(t)
    BY <1>1, <1>2, <2>2
  <2>4. QED
    BY <2>3 DEF AllEffects
<1>6. QED
  BY <1>3, <1>4, <1>5

\* What the one store call does, field by field.
LEMMA ExecutionFields ==
    ASSUME NEW s \in Stores, NEW proposed \in ProposedActions, NEW input,
           input.order_id \in Orders, NEW o \in Orders
    PROVE  LET after == ExecuteAction(proposed, input, s)
               hit(action) == proposed.action_type = action /\ input.order_id = o
           IN  /\ after.orders[o].status =
                      IF hit("cancel_order") THEN "cancelled" ELSE s.orders[o].status
               /\ after.orders[o].payment_status =
                      IF hit("issue_refund") THEN "refunded" ELSE s.orders[o].payment_status
               /\ after.orders[o].shipping_address =
                      IF hit("change_address") THEN input.new_shipping_address
                                               ELSE s.orders[o].shipping_address
               /\ o \in after.billing <=> o \in s.billing \/ hit("investigate_billing")
               /\ o \in after.product <=> o \in s.product \/ hit("investigate_product_issue")
<1> DEFINE x == input.order_id
<1>1. /\ s.orders \in [Orders -> OrderRecords] /\ x \in Orders
      /\ proposed.action_type \in {"cancel_order", "change_address", "issue_refund",
                                   "investigate_billing", "investigate_product_issue"}
  BY DEF Stores, ProposedActions, ActionTypes
<1>2. s.orders[o] \in OrderRecords /\ s.orders[x] \in OrderRecords
  BY <1>1
<1>3. CASE proposed.action_type = "cancel_order"
  BY <1>1, <1>2, <1>3 DEF ExecuteAction, CancelOrder, OrderRecords, Stores
<1>4. CASE proposed.action_type = "change_address"
  BY <1>1, <1>2, <1>4 DEF ExecuteAction, ChangeShippingAddress, OrderRecords, Stores
<1>5. CASE proposed.action_type = "issue_refund"
  BY <1>1, <1>2, <1>5 DEF ExecuteAction, IssueFullRefund, OrderRecords, Stores
<1>6. CASE proposed.action_type = "investigate_billing"
  BY <1>1, <1>6 DEF ExecuteAction, CreateBillingInvestigation, Stores
<1>7. CASE proposed.action_type = "investigate_product_issue"
  BY <1>1, <1>7 DEF ExecuteAction, CreateProductInvestigation, Stores
<1>8. QED
  BY <1>1, <1>3, <1>4, <1>5, <1>6, <1>7

LEMMA ExecutionKeepsFixture ==
    ASSUME TypeInv, StoreIsFixturePlusJournal, NEW t \in Threads, catalog' = catalog,
           ExecutedAs(t), state[t].proposed_action \in ProposedActions,
           state[t].action_input.order_id \in Orders
    PROVE  StoreIsFixturePlusJournal'
<1> DEFINE proposed == state[t].proposed_action
           input == state[t].action_input
           hit(o, action) == proposed.action_type = action /\ input.order_id = o
<1>1. ASSUME NEW o, NEW action
      PROVE  EffectOn(o, action)' =
                 EffectOn(o, action) \cup (IF hit(o, action) THEN {NewEffect(t)} ELSE {})
  <2>1. NewEffect(t).order_id = o /\ NewEffect(t).action_type = action <=> hit(o, action)
    BY DEF NewEffect, EffectAt
  <2>2. EffectOn(o, action)' =
            {e \in AllEffects' : e.order_id = o /\ e.action_type = action}
    BY DEF EffectOn, AllEffects
  <2>3. QED
    BY <2>1, <2>2, ExecutionIsJournalled, EffectsOnOrder
<1>2. store \in Stores /\ store' = ExecuteAction(proposed, input, store)
  BY DEF TypeInv, TypeOK, ExecutedAs
<1>3. NewEffect(t).new_shipping_address = input.new_shipping_address
  BY DEF NewEffect, EffectAt
<1> SUFFICES ASSUME NEW o \in Orders
             PROVE  (LET was == catalog[o]
                         is == store.orders[o]
                         addresses == {e.new_shipping_address : e \in EffectOn(o, "change_address")}
                     IN  /\ is.status = IF EffectOn(o, "cancel_order") = {}
                                        THEN was.status ELSE "cancelled"
                         /\ is.payment_status = IF EffectOn(o, "issue_refund") = {}
                                                THEN was.payment_status ELSE "refunded"
                         /\ IF addresses = {} THEN is.shipping_address = was.shipping_address
                                              ELSE is.shipping_address \in addresses
                         /\ o \in store.billing <=> EffectOn(o, "investigate_billing") # {}
                         /\ o \in store.product <=> EffectOn(o, "investigate_product_issue") # {})'
  BY DEF StoreIsFixturePlusJournal
<1> DEFINE was == catalog[o]
           is == store.orders[o]
           then == store'.orders[o]
           moved == EffectOn(o, "change_address")
<1>4. /\ is.status = IF EffectOn(o, "cancel_order") = {} THEN was.status ELSE "cancelled"
      /\ is.payment_status = IF EffectOn(o, "issue_refund") = {}
                             THEN was.payment_status ELSE "refunded"
      /\ moved = {} => is.shipping_address = was.shipping_address
      /\ moved # {} => \E e \in moved : is.shipping_address = e.new_shipping_address
      /\ o \in store.billing <=> EffectOn(o, "investigate_billing") # {}
      /\ o \in store.product <=> EffectOn(o, "investigate_product_issue") # {}
  BY DEF StoreIsFixturePlusJournal
<1>5. /\ then.status = IF hit(o, "cancel_order") THEN "cancelled" ELSE is.status
      /\ then.payment_status = IF hit(o, "issue_refund") THEN "refunded" ELSE is.payment_status
      /\ then.shipping_address = IF hit(o, "change_address") THEN input.new_shipping_address
                                                             ELSE is.shipping_address
      /\ o \in store'.billing <=> o \in store.billing \/ hit(o, "investigate_billing")
      /\ o \in store'.product <=> o \in store.product \/ hit(o, "investigate_product_issue")
  BY <1>2, ExecutionFields
<1> HIDE DEF hit
<1>6. then.status = IF EffectOn(o, "cancel_order")' = {} THEN was.status ELSE "cancelled"
  BY <1>1, <1>4, <1>5
<1>7. then.payment_status = IF EffectOn(o, "issue_refund")' = {}
                            THEN was.payment_status ELSE "refunded"
  BY <1>1, <1>4, <1>5
<1>8. /\ o \in store'.billing <=> EffectOn(o, "investigate_billing")' # {}
      /\ o \in store'.product <=> EffectOn(o, "investigate_product_issue")' # {}
  BY <1>1, <1>4, <1>5
<1>9. /\ moved' = {} => then.shipping_address = was.shipping_address
      /\ moved' # {} => \E e \in moved' : then.shipping_address = e.new_shipping_address
  <2>1. CASE hit(o, "change_address")
    BY <1>1, <1>3, <1>5, <2>1
  <2>2. CASE ~hit(o, "change_address")
    BY <1>1, <1>4, <1>5, <2>2
  <2>3. QED
    BY <2>1, <2>2
<1>10. QED
  BY <1>6, <1>7, <1>8, <1>9

\* An execution raises or makes the one store call of a known operation.
LEMMA ExecuteKinds ==
    ASSUME TypeInv, NEW t \in Threads, ExecuteSafeAction(t) \/ ExecuteApprovedAction(t)
    PROVE  /\ run[t] = "running" /\ next[t] \in {"execute_safe_action", "execute_approved_action"}
           /\ state[t].proposed_action \in ProposedActions
           /\ state[t].action_input \in ActionInputs
           /\ UNCHANGED catalog
           /\ \/ run'[t] = "ActionExecutionError" /\ Refused(t)
              \/ ExecutedAs(t) /\ state[t].action_input.order_id \in Orders
<1> DEFINE s == state[t]
<1>1. /\ run[t] = "running" /\ next[t] \in {"execute_safe_action", "execute_approved_action"}
      /\ UNCHANGED catalog
  BY DEF ExecuteSafeAction, ExecuteApprovedAction, At
<1>2. s.proposed_action \in ProposedActions /\ s.action_input \in ActionInputs
  BY <1>1 DEF TypeInv, TypeOK, ChannelsReady, Ready, NeedInput, NeedProposal, CaseStates
<1>3. (run'[t] = "ActionExecutionError" /\ Refused(t)) \/ ExecutedAs(t)
  BY ExecuteExactly DEF ExecuteSafeAction, ExecuteApprovedAction
<1>4. Refused(t) \/ s.action_input.order_id \in Orders
  BY ExecuteEffect DEF ExecuteSafeAction, ExecuteApprovedAction, Executed
<1>5. ~(Refused(t) /\ ExecutedAs(t))
  BY DEF Refused, ExecutedAs, Errors, ExpectedErrors, CorruptionErrors
<1>6. QED
  BY <1>1, <1>2, <1>3, <1>4, <1>5

\* Nothing but an execution touches the store or the journal.
LEMMA OnlyExecutionsMutate ==
    ASSUME TypeInv, NEW t \in Threads, ThreadStep(t),
           ~ExecuteSafeAction(t), ~ExecuteApprovedAction(t)
    PROVE  UNCHANGED <<store, catalog, journal>>
<1>1. CASE GraphStep(t)
  BY <1>1, GraphSteps DEF PlainStep, RequestApproval, ResolveApproval, history
<1>2. CASE Submit(t) \/ ResumeUnknownThread(t) \/ \E d \in Decisions \cup {"malformed"} : Resume(t, d)
  BY <1>2 DEF Submit, Invoke, StartRequest, ResumeUnknownThread, Resume, history
<1>3. QED
  BY <1>1, <1>2 DEF ThreadStep

LEMMA FixtureFrame ==
    ASSUME StoreIsFixturePlusJournal, UNCHANGED <<store, catalog, journal>>
    PROVE  StoreIsFixturePlusJournal'
<1>1. \A o, action : EffectOn(o, action)' = EffectOn(o, action)
  BY DEF EffectOn
<1>2. QED
  BY <1>1 DEF StoreIsFixturePlusJournal

LEMMA InitFixture == Init => StoreIsFixturePlusJournal
<1> SUFFICES ASSUME Init PROVE StoreIsFixturePlusJournal
  OBVIOUS
<1>1. \A o, action : EffectOn(o, action) = {}
  <2>1. AllEffects = {}
    BY DEF Init, AllEffects
  <2>2. QED
    BY <2>1, EffectsOnOrder
<1>2. \A o : {e.new_shipping_address : e \in EffectOn(o, "change_address")} = {}
  BY <1>1
<1>3. store = FreshStore(catalog)
  BY DEF Init
<1>4. QED
  BY <1>1, <1>2, <1>3 DEF StoreIsFixturePlusJournal, FreshStore

LEMMA StepFixture ==
    TypeInv /\ StoreIsFixturePlusJournal /\ [Next]_vars => StoreIsFixturePlusJournal'
<1> SUFFICES ASSUME TypeInv, StoreIsFixturePlusJournal, [Next]_vars
             PROVE  StoreIsFixturePlusJournal'
  OBVIOUS
<1>1. CASE UNCHANGED vars
  BY <1>1, FixtureFrame DEF vars, history
<1>2. ASSUME NEW t \in Threads, ThreadStep(t)
      PROVE  StoreIsFixturePlusJournal'
  <2>1. CASE ExecuteSafeAction(t) \/ ExecuteApprovedAction(t)
    <3>1. CASE Refused(t)
      BY <2>1, <3>1, ExecuteKinds, FixtureFrame DEF Refused
    <3>2. CASE ExecutedAs(t) /\ state[t].action_input.order_id \in Orders
      BY <2>1, <3>2, ExecuteKinds, ExecutionKeepsFixture
    <3>3. QED
      BY <2>1, <3>1, <3>2, ExecuteKinds
  <2>2. CASE ~ExecuteSafeAction(t) /\ ~ExecuteApprovedAction(t)
    BY <1>2, <2>2, OnlyExecutionsMutate, FixtureFrame
  <2>3. QED
    BY <2>1, <2>2
<1>3. QED
  BY <1>1, <1>2, NextIsThreadStep

\* Order by order and field by field, the store is its fixture plus exactly
\* the effects the cases had, whatever their interleaving: nothing is lost,
\* undone or done to another order.
THEOREM StoreHoldsEveryEffect == Spec => []StoreIsFixturePlusJournal
  BY InitFixture, StepFixture, TypeInvariance, PTL DEF Spec

-----------------------------------------------------------------------------
\* The order context of a case and the store.

\* Another request than the one thread t serves mutated order o.
OthersMutated(t, o) ==
    \E u \in Threads : \E i \in DOMAIN journal[u] :
        /\ journal[u][i].order_id = o
        /\ journal[u][i].request_id # state[t].request_id

ContextFollows(t) ==
    LET s == state[t]
    IN  /\ s.order_context # None =>
               \A o \in DOMAIN s.order_context :
                   s.order_context[o] # store.orders[o] => OthersMutated(t, o)
        /\ s.order_context = None => s.workflow_status \in {None, "received", "classified"}

FollowInv == \A t \in Threads : ContextFollows(t)

\* The journal only grows.
JournalGrows ==
    \A u \in Threads : \A i \in DOMAIN journal[u] :
        i \in DOMAIN journal'[u] /\ journal'[u][i] = journal[u][i]

LEMMA MutationsStay ==
    ASSUME NEW t \in Threads, NEW o, OthersMutated(t, o), JournalGrows,
           state'[t].request_id = state[t].request_id
    PROVE  OthersMutated(t, o)'
  BY DEF OthersMutated, JournalGrows

\* A step that keeps the request, the context and the store.
LEMMA ContextKept ==
    ASSUME NEW t \in Threads, ContextFollows(t), UNCHANGED <<store, journal>>,
           state'[t].request_id = state[t].request_id,
           state'[t].order_context = state[t].order_context,
           state'[t].order_context = None =>
               state'[t].workflow_status \in {None, "received", "classified"}
    PROVE  ContextFollows(t)'
  BY DEF ContextFollows, OthersMutated

\* A loaded context is present.
LEMMA ContextPresent ==
    ASSUME TypeInv, NEW t \in Threads, next[t] \notin BeforeContext
    PROVE  state[t].order_context # None
  BY DEF TypeInv, ChannelsReady, Ready

LEMMA QuietFollows ==
    ASSUME SharedStore, CaseInv, TypeInv', NEW t \in Threads, ContextFollows(t),
           PlainStep(t), QuietStep(t)
    PROVE  ContextFollows(t)'
<1> DEFINE s == state[t]
           z == state'[t]
<1>1. UNCHANGED <<store, journal>>
  BY DEF PlainStep
<1>2. CASE z = s
  BY <1>1, <1>2, ContextKept DEF ContextFollows
<1>3. CASE run'[t] = "running" /\ QuietUpdate(s, next[t], z, next'[t])
  <2>1. z.request_id = s.request_id
    BY <1>3 DEF QuietUpdate, Recorded
  <2>2. z.order_context = None => z.workflow_status \in {"received", "classified"}
    <3>1. z.order_context = None => next'[t] \in BeforeContext
      BY ContextPresent DEF TypeInv, ChannelsReady, Ready
    <3>2. next'[t] \in BeforeContext => next'[t] \in {"classify_request", "load_context"}
      BY <1>3 DEF PlainStep, BeforeContext, Errors, ExpectedErrors, CorruptionErrors, Nodes
    <3>3. QED
      BY <1>3, <3>1, <3>2 DEF QuietUpdate
  <2>3. CASE next[t] = "load_context"
    <3>1. z.order_context = OrdersOfCustomer(s.customer_id)
      BY <1>3, <2>3 DEF QuietUpdate
    <3>2. \A o \in DOMAIN z.order_context : z.order_context[o] = store.orders[o]
      BY <3>1 DEF OrdersOfCustomer, OwnedBy
    <3>3. QED
      BY <1>1, <2>2, <3>2 DEF ContextFollows
  <2>4. CASE next[t] # "load_context"
    <3>1. z.order_context = s.order_context
      BY <1>3, <2>4 DEF QuietUpdate
    <3>2. QED
      BY <1>1, <2>1, <2>2, <3>1, ContextKept
  <2>5. QED
    BY <2>3, <2>4
<1>4. QED
  BY <1>2, <1>3 DEF QuietStep

LEMMA ApprovalFollows ==
    ASSUME CaseInv, NEW t \in Threads, ContextFollows(t),
           RequestApproval(t) \/ ResolveApproval(t)
    PROVE  ContextFollows(t)'
<1>1. UNCHANGED <<store, journal>> /\ next[t] = "human_approval"
  BY DEF RequestApproval, ResolveApproval, At, history
<1>2. CASE state' = state
  BY <1>1, <1>2, ContextKept DEF ContextFollows
<1>3. CASE ResolvedAs(t)
  <2>1. state[t].order_context # None
    BY <1>1, ContextPresent DEF CaseInv, BeforeContext
  <2>2. QED
    BY <1>1, <1>3, <2>1, ContextKept DEF ResolvedAs
<1>4. QED
  BY <1>2, <1>3, ResolveExactly DEF RequestApproval, Raise, CaseInv

LEMMA ReplyFollows ==
    ASSUME CaseInv, NEW t \in Threads, ContextFollows(t), FinalResponse(t)
    PROVE  ContextFollows(t)'
<1>1. UNCHANGED <<store, journal>> /\ next[t] = "final_response"
  BY DEF FinalResponse, At
<1>2. state[t].order_context # None
  BY <1>1, ContextPresent DEF CaseInv, BeforeContext
<1>3. CASE state' = state
  BY <1>1, <1>2, <1>3, ContextKept
<1>4. CASE RepliedAs(t)
  BY <1>1, <1>2, <1>4, ContextKept DEF RepliedAs
<1>5. QED
  BY <1>3, <1>4, ReplyExactly DEF CaseInv

\* The executing case reads its order back; the others see a mutation that is
\* not theirs.
LEMMA ExecuteFollows ==
    ASSUME CaseInv, TypeInv', FollowInv, NEW t \in Threads,
           ExecutedAs(t), state[t].proposed_action \in ProposedActions,
           state[t].action_input.order_id \in Orders,
           next[t] \in {"execute_safe_action", "execute_approved_action"},
           \A u \in Threads \ {t} : state'[u] = state[u]
    PROVE  FollowInv'
<1> DEFINE x == state[t].action_input.order_id
           r == state[t].request_id
<1>1. store \in Stores /\ store' = ExecuteAction(state[t].proposed_action, state[t].action_input, store)
  BY DEF CaseInv, TypeInv, TypeOK, ExecutedAs
<1>2. /\ JournalGrows
      /\ Len(journal[t]) + 1 \in DOMAIN journal'[t]
      /\ journal'[t][Len(journal[t]) + 1] = NewEffect(t)
  BY DEF ExecutedAs, NewEffect, JournalGrows, CaseInv, TypeInv, TypeOK
<1>3. ASSUME NEW o \in Orders, o # x PROVE store'.orders[o] = store.orders[o]
  <2>1. /\ store.orders \in [Orders -> OrderRecords]
        /\ store'.orders \in [Orders -> OrderRecords]
    BY <1>1 DEF Stores, TypeInv, TypeOK
  <2>2. /\ store'.orders[o].status = store.orders[o].status
        /\ store'.orders[o].payment_status = store.orders[o].payment_status
        /\ store'.orders[o].shipping_address = store.orders[o].shipping_address
    BY <1>1, <1>3, ExecutionFields
  <2>3. store'.orders[o] \in OrderRecords /\ store.orders[o] \in OrderRecords
    BY <2>1
  <2>4. QED
    BY <2>2, <2>3 DEF OrderRecords
<1>4. \A u \in Threads : state[u].order_context # None => DOMAIN state[u].order_context \subseteq Orders
  BY OrderContextShape DEF CaseInv, TypeInv, TypeOK, CaseStates
<1>5. ContextFollows(t)'
  <2>1. /\ state'[t].request_id = r
        /\ state'[t].order_context = WithUpdatedOrder(state[t].order_context, x, store'.orders[x])
    BY DEF ExecutedAs
  <2>2. state[t].order_context # None
    BY ContextPresent DEF CaseInv, BeforeContext
  <2>3. state'[t].order_context # None
    BY ContextPresent DEF ExecutedAs, BeforeContext, TypeInv, ChannelsReady, Ready
  <2>4. ASSUME NEW o \in DOMAIN state'[t].order_context,
               state'[t].order_context[o] # store'.orders[o]
        PROVE  OthersMutated(t, o)'
    <3>1. o \in DOMAIN state[t].order_context /\ o # x
          /\ state'[t].order_context[o] = state[t].order_context[o]
      BY <2>1, <2>4 DEF WithUpdatedOrder
    <3>2. store'.orders[o] = store.orders[o]
      BY <1>3, <1>4, <2>2, <3>1
    <3>3. OthersMutated(t, o)
      BY <2>2, <2>4, <3>1, <3>2 DEF FollowInv, ContextFollows
    <3>4. QED
      BY <1>2, <2>1, <3>3, MutationsStay
  <2>5. QED
    BY <2>3, <2>4 DEF ContextFollows
<1>6. ASSUME NEW u \in Threads \ {t} PROVE ContextFollows(u)'
  <2>1. state'[u] = state[u] /\ state[u].request_id # r
    <3>1. r # None
      BY RequestIsOwn, AbsentAssumption, GraphAssumption DEF CaseInv
    <3>2. QED
      BY <3>1, OwnRequest DEF CaseInv
  <2>2. ASSUME state[u].order_context # None, NEW o \in DOMAIN state[u].order_context,
               state[u].order_context[o] # store'.orders[o]
        PROVE  OthersMutated(u, o)'
    <3>1. CASE o = x
      BY <1>2, <2>1, <3>1 DEF OthersMutated, NewEffect, EffectAt
    <3>2. CASE o # x
      <4>1. store'.orders[o] = store.orders[o]
        BY <1>3, <1>4, <2>2, <3>2
      <4>2. OthersMutated(u, o)
        BY <2>2, <4>1 DEF FollowInv, ContextFollows
      <4>3. QED
        BY <1>2, <2>1, <4>2, MutationsStay
    <3>3. QED
      BY <3>1, <3>2
  <2>3. QED
    BY <2>1, <2>2 DEF FollowInv, ContextFollows
<1>7. QED
  BY <1>5, <1>6 DEF FollowInv

\* A new request has mutated nothing yet: what was stale before is stale by
\* others now.
LEMMA CallerFollows ==
    ASSUME CaseInv, NEW t \in Threads, ContextFollows(t),
           \/ Submit(t) \/ ResumeUnknownThread(t)
           \/ \E d \in Decisions \cup {"malformed"} : Resume(t, d)
    PROVE  ContextFollows(t)'
<1>1. UNCHANGED <<store, journal>>
  BY DEF Submit, Invoke, StartRequest, ResumeUnknownThread, Resume, history
<1>2. CASE state' = state
  BY <1>1, <1>2, ContextKept DEF ContextFollows
<1>3. ASSUME NEW r \in Optional(Requests), NEW c, NEW m, NEW complete,
             StartRequest(t, r, c, m, complete)
      PROVE  ContextFollows(t)'
  <2>1. /\ state'[t].request_id = r
        /\ state'[t].order_context = state[t].order_context
        /\ state'[t].workflow_status = state[t].workflow_status
    <3>1. state'[t] = [state[t] EXCEPT !.request_id = r, !.customer_id = c,
                                       !.customer_message = m]
      BY <1>3 DEF StartRequest, CaseInv, TypeInv, TypeOK
    <3>2. QED
      BY <3>1 DEF CaseInv, TypeInv, TypeOK, CaseStates
  <2>2. \A u \in Threads : \A i \in DOMAIN journal[u] : journal[u][i].request_id # r
    <3>1. \A u \in Threads : \A i \in DOMAIN journal[u] :
              submitted[journal[u][i].request_id] # None
      BY DEF CaseInv, EffectInv, ThreadEffects
    <3>2. \A u \in Threads : \A i \in DOMAIN journal[u] :
              journal[u][i].request_id \in Requests
      BY JournalledRequest DEF CaseInv
    <3>3. QED
      BY <1>3, <3>1, <3>2, GraphAssumption DEF StartRequest
  <2>3. \A o : OthersMutated(t, o) => OthersMutated(t, o)'
    BY <1>1, <2>1, <2>2 DEF OthersMutated
  <2>4. QED
    BY <1>1, <2>1, <2>3 DEF ContextFollows
<1>4. QED
  BY <1>2, <1>3, SubmitStarts DEF CaseInv, ResumeUnknownThread, Resume

LEMMA StepFollows ==
    SharedStore /\ CaseInv /\ FollowInv /\ [Next]_vars => FollowInv'
<1> SUFFICES ASSUME SharedStore, CaseInv, FollowInv, [Next]_vars
             PROVE  FollowInv'
  OBVIOUS
<1>1. TypeInv'
  BY StepTypes DEF CaseInv
<1>2. CASE UNCHANGED vars
  BY <1>2, ContextKept DEF vars, history, FollowInv, ContextFollows
<1>3. ASSUME NEW t \in Threads, ThreadStep(t)
      PROVE  FollowInv'
  <2>1. ASSUME NEW u \in Threads \ {t} PROVE state'[u] = state[u]
    BY <1>3, OthersUntouched DEF Untouched
  <2>2. CASE /\ UNCHANGED <<store, journal>> /\ ContextFollows(t)'
    <3>1. ASSUME NEW u \in Threads \ {t} PROVE ContextFollows(u)'
      BY <2>1, <2>2, ContextKept DEF FollowInv, ContextFollows
    <3>2. QED
      BY <2>2, <3>1 DEF FollowInv
  <2>3. CASE ExecuteSafeAction(t) \/ ExecuteApprovedAction(t)
    <3>1. CASE Refused(t)
      BY <2>2, <3>1, ContextKept DEF Refused, FollowInv, ContextFollows
    <3>2. CASE ExecutedAs(t) /\ state[t].action_input.order_id \in Orders
      BY <1>1, <2>1, <2>3, <3>2, ExecuteKinds, ExecuteFollows DEF CaseInv
    <3>3. QED
      BY <2>3, <3>1, <3>2, ExecuteKinds DEF CaseInv
  <2>4. CASE ~ExecuteSafeAction(t) /\ ~ExecuteApprovedAction(t)
    <3>1. UNCHANGED <<store, journal>>
      BY <1>3, <2>4, OnlyExecutionsMutate DEF CaseInv
    <3>2. ContextFollows(t)'
      BY <1>1, <1>3, <2>4, GraphStepKinds, QuietFollows, ApprovalFollows, ReplyFollows,
         CallerFollows DEF ThreadStep, FollowInv, CaseInv
    <3>3. QED
      BY <2>2, <3>1, <3>2
  <2>5. QED
    BY <2>3, <2>4
<1>4. QED
  BY <1>2, <1>3, NextIsThreadStep

\* Where load_context reads the action store itself, a case's order context
\* differs from the store only by what other requests did.
THEOREM ContextsFollowTheStore ==
    ASSUME SharedStore
    PROVE  Spec => []ContextStaleOnlyByOthers
<1>1. Init => FollowInv
  BY DEF Init, FollowInv, ContextFollows, EmptyState
<1>2. CaseInv /\ FollowInv /\ [Next]_vars => FollowInv'
  BY StepFollows
<1>3. FollowInv => ContextStaleOnlyByOthers
  BY DEF FollowInv, ContextFollows, OthersMutated, ContextStaleOnlyByOthers
<1>4. QED
  BY <1>1, <1>2, <1>3, CaseInvariance, PTL DEF Spec

-----------------------------------------------------------------------------
\* What the policy allowed.

\* What the store will check of an operation, asked of the order's record: an
\* investigation is always possible.
Permitted(action, record) ==
    /\ action \in {"cancel_order", "change_address"} =>
           record.status \in {"pending", "processing"}
    /\ action = "issue_refund" => record.payment_status # "refunded"

\* Records only leave the fixture by being cancelled or refunded.
Later(record, fixture) ==
    /\ record.status \in {fixture.status, "cancelled"}
    /\ record.payment_status \in {fixture.payment_status, "refunded"}

\* The input is what the executor expects for the proposal.
Prepared(input, proposed) ==
    /\ input.action_type = proposed.action_type
    /\ input.ready /\ proposed.action_type = "change_address" =>
           input.new_shipping_address # None

ProposalNodes == {"propose_action", "prepare_approval"}

Selected(s) ==
    /\ s.selected_order_id \in DOMAIN s.order_context
    /\ Permitted(ActionTypeByIntent[s.intent], s.order_context[s.selected_order_id])

Proposed(s) ==
    LET o == s.proposed_action.order_id
    IN  o \in DOMAIN s.order_context
        /\ Permitted(s.proposed_action.action_type, s.order_context[o])

\* The operation a case is about to execute was permitted by the order
\* context it holds, and nothing but the store can refuse it.
Checked(s, n) ==
    /\ s.order_context # None =>
           \A o \in DOMAIN s.order_context : Later(s.order_context[o], catalog[o])
    /\ n \in ProposalNodes => Selected(s)
    /\ n \in NeedProposal => Proposed(s)
    /\ n \in SafeNodes => s.proposed_action.action_type \notin ApprovalRequiredActionTypes
    /\ n \in NeedInput => Prepared(s.action_input, s.proposed_action)
    /\ n = "execute_safe_action" => s.action_input.ready
    /\ n = "execute_approved_action" =>
           /\ s.action_input.ready /\ s.proposed_action.requires_human_approval
           /\ s.human_decision = "approved"

CheckedInv == \A t \in Threads : Checked(state[t], next[t])

\* The policy lets a case through to a proposal only for an order that permits
\* the intent's operation.
LEMMA PolicyPermits ==
    ASSUME NEW intent \in Intents, NEW resolution, NEW context,
           \/ intent = "other"
           \/ resolution.status = "needs_clarification"
           \/ resolution.status = "selected",
           BranchNode[DetermineCaseRoute(EvaluatePolicy(intent, resolution, context))]
               \in ProposalNodes
    PROVE  /\ intent # "other" /\ resolution.status = "selected"
           /\ Permitted(ActionTypeByIntent[intent], context[resolution.selected_order_id])
<1> DEFINE order == context[resolution.selected_order_id]
           assessment == EvaluatePolicy(intent, resolution, context)
           branch(outcome, approval) ==
               BranchNode[DetermineCaseRoute(Assessment(outcome, approval))]
<1>1. \A approval :
          /\ branch("not_applicable", approval) = "information"
          /\ branch("needs_clarification", approval) = "clarification"
          /\ branch("information_only", approval) = "information"
          /\ branch("blocked", approval) = "blocked"
  BY DEF Assessment, DetermineCaseRoute, RouteByOutcome, BranchNode
<1>2. \A outcome \in {"not_applicable", "needs_clarification", "information_only", "blocked"} :
          assessment # Assessment(outcome, FALSE)
  BY <1>1 DEF ProposalNodes
<1>3. intent # "other" /\ resolution.status = "selected"
  BY <1>2 DEF EvaluatePolicy
<1>4. ActionTypeByIntent["cancel_order"] = "cancel_order"
      /\ ActionTypeByIntent["address_change"] = "change_address"
      /\ ActionTypeByIntent["refund_request"] = "issue_refund"
      /\ ActionTypeByIntent["billing_issue"] = "investigate_billing"
      /\ ActionTypeByIntent["product_issue"] = "investigate_product_issue"
  BY DEF ActionTypeByIntent
<1>5. CASE intent = "order_status"
  BY <1>2, <1>3, <1>5 DEF EvaluatePolicy
<1>6. CASE intent = "cancel_order"
  <2>1. order.status \in {"pending", "processing"}
    BY <1>2, <1>3, <1>6 DEF EvaluatePolicy, EvaluateCancelOrder, PolicyCancellableStatuses
  <2>2. QED
    BY <1>3, <1>4, <1>6, <2>1 DEF Permitted
<1>7. CASE intent = "address_change"
  <2>1. order.status \in {"pending", "processing"}
    BY <1>2, <1>3, <1>7 DEF EvaluatePolicy, EvaluateAddressChange, PolicyAddressChangeableStatuses
  <2>2. QED
    BY <1>3, <1>4, <1>7, <2>1 DEF Permitted
<1>8. CASE intent = "refund_request"
  <2>1. order.payment_status # "refunded"
    BY <1>2, <1>3, <1>8 DEF EvaluatePolicy, EvaluateRefundRequest
  <2>2. QED
    BY <1>3, <1>4, <1>8, <2>1 DEF Permitted
<1>9. CASE intent \in {"billing_issue", "product_issue"}
  BY <1>3, <1>4, <1>9 DEF Permitted
<1>10. QED
  BY <1>3, <1>5, <1>6, <1>7, <1>8, <1>9 DEF Intents

\* A node whose update leaves the context alone and does not lead to a node
\* that relies on it.
LEMMA UnreadChecked ==
    ASSUME NEW s, NEW z, NEW m, NEW n, Checked(s, m), z.order_context = s.order_context,
           n \notin ProposalNodes \cup NeedProposal
    PROVE  Checked(z, n)
  BY DEF Checked, NeedProposal, SafeNodes, NeedInput

LEMMA StoreIsLater ==
    ASSUME TypeInv, StoreIsFixturePlusJournal, NEW o \in Orders
    PROVE  Later(store.orders[o], catalog[o])
  BY DEF StoreIsFixturePlusJournal, Later

\* How the quiet supersteps lead to the nodes that rely on the check.
LEMMA QuietCheckedElsewhere ==
    ASSUME TypeInv, StoreIsFixturePlusJournal, NEW t \in Threads,
           Checked(state[t], next[t]), PlainStep(t), QuietStep(t),
           next'[t] \notin ProposalNodes \cup NeedProposal
    PROVE  Checked(state'[t], next'[t])
<1> DEFINE s == state[t]
           z == state'[t]
<1>1. CASE z = s /\ next'[t] = next[t]
  BY <1>1
<1>2. CASE QuietUpdate(s, next[t], z, next'[t])
  <2>1. CASE next[t] = "load_context"
    <3>1. z.order_context = OrdersOfCustomer(s.customer_id)
      BY <1>2, <2>1 DEF QuietUpdate
    <3>2. ASSUME NEW o \in DOMAIN z.order_context
          PROVE  Later(z.order_context[o], catalog[o])
      <4>1. o \in Orders /\ z.order_context[o] \in {store.orders[o], catalog[o]}
        BY <3>1, <3>2 DEF OrdersOfCustomer, OwnedBy
      <4>2. Later(catalog[o], catalog[o])
        BY DEF Later
      <4>3. QED
        BY <4>1, <4>2, StoreIsLater
    <3>3. QED
      BY <3>2 DEF Checked, NeedProposal, SafeNodes, NeedInput
  <2>2. CASE next[t] # "load_context"
    BY <1>2, <2>2, UnreadChecked DEF QuietUpdate
  <2>3. QED
    BY <2>1, <2>2
<1>3. QED
  BY <1>1, <1>2 DEF QuietStep

LEMMA CommitSets ==
    ASSUME TypeInv, NEW t \in Threads, NEW z, NEW n, Commit(t, z, n)
    PROVE  state'[t] = z /\ next'[t] = n
  BY DEF Commit, TypeInv, TypeOK

LEMMA SettleSets ==
    ASSUME TypeInv, NEW t \in Threads, NEW fails, NEW e, NEW z, NEW n,
           Settle(t, fails, e, z, n)
    PROVE  \/ state'[t] = state[t] /\ next'[t] = next[t]
           \/ ~fails /\ state'[t] = z /\ next'[t] = n
  BY CommitSets DEF Settle, Raise

\* A case goes on to a proposal only for an order that permits it.
LEMMA EvaluatePolicyNodeChecked ==
    ASSUME TypeInv, RuleInv, NEW t \in Threads, Checked(state[t], next[t]),
           EvaluatePolicyNode(t)
    PROVE  Checked(state'[t], next'[t])
<1> DEFINE s == state[t]
           assessment == EvaluatePolicy(s.intent, s.order_resolution, s.order_context)
           policyFails == PolicyFails(s.intent, s.order_resolution, s.order_context)
           fails == policyFails \/ RoutingFails(s.intent, s.order_resolution, assessment)
           error == IF policyFails THEN "PolicyEvaluationError" ELSE "RoutingError"
           update == Logged([s EXCEPT !.policy_assessment = assessment],
                            "policy_checked", "policy_evaluation")
           branch == BranchNode[DetermineCaseRoute(assessment)]
<1>1. Settle(t, fails, error, update, branch) /\ next[t] = "evaluate_policy"
  BY DEF EvaluatePolicyNode, At
<1>2. /\ update.order_context = s.order_context /\ update.intent = s.intent
      /\ update.selected_order_id = s.selected_order_id
  BY DEF Logged, TypeInv, TypeOK, CaseStates
<1>3. RuleReady(s, "evaluate_policy")
  BY <1>1 DEF RuleInv
<1>4. branch \in ProposalNodes => Selected(s)
  <2> SUFFICES ASSUME branch \in ProposalNodes PROVE Selected(s)
    OBVIOUS
  <2>1. /\ s.intent # "other" /\ s.order_resolution.status = "selected"
        /\ Permitted(ActionTypeByIntent[s.intent],
                     s.order_context[s.order_resolution.selected_order_id])
    BY <1>3, PolicyPermits DEF RuleReady
  <2>2. /\ s.selected_order_id = s.order_resolution.selected_order_id
        /\ s.selected_order_id \in DOMAIN s.order_context
    BY <1>3, <2>1 DEF RuleReady
  <2>3. QED
    BY <2>1, <2>2 DEF Selected
<1>5. ~fails => branch \notin NeedProposal
  BY EvaluatePolicyType, BranchNodeType DEF NeedProposal, NeedInput
<1> HIDE DEF update, branch, fails, error
<1>6. ~fails => Checked(update, branch)
  BY <1>2, <1>4, <1>5 DEF Checked, Selected, NeedProposal, SafeNodes, NeedInput
<1>7. QED
  BY <1>1, <1>6, SettleSets

\* The proposal is for the order and the operation that were permitted.
LEMMA ProposalChecked ==
    ASSUME TypeInv, RuleInv, NEW t \in Threads, Checked(state[t], next[t]),
           ProposeActionNode(t) \/ PrepareApproval(t)
    PROVE  Checked(state'[t], next'[t])
<1> DEFINE s == state[t]
           action == ProposeAction(s.intent, s.selected_order_id)
           update(route, status, step) ==
               Logged([s EXCEPT !.route = route, !.proposed_action = action], status, step)
<1>2. next[t] \in ProposalNodes
  BY DEF ProposeActionNode, PrepareApproval, At, ProposalNodes
<1>3. /\ action.order_id \in DOMAIN s.order_context
      /\ Permitted(action.action_type, s.order_context[action.order_id])
  BY <1>2 DEF Checked, Selected, ProposeAction
<1>4. ASSUME NEW z, NEW n, z.order_context = s.order_context, z.proposed_action = action,
             n \in {"prepare_action_input", "prepare_approval_input"},
             n = "prepare_action_input" => action.action_type \notin ApprovalRequiredActionTypes
      PROVE  Checked(z, n)
  BY <1>3, <1>4 DEF Checked, Proposed, ProposalNodes, NeedProposal, NeedInput, SafeNodes
<1>5. CASE ProposeActionNode(t)
  <2> DEFINE z == update("action", "action_proposed", "action_proposal")
             fails == \/ ProposalFails(s.intent, s.selected_order_id)
                      \/ action.requires_human_approval
  <2>1. Settle(t, fails, "ActionProposalError", z, "prepare_action_input")
    BY <1>5 DEF ProposeActionNode
  <2>2. action.action_type \notin ApprovalRequiredActionTypes
    <3>1. s.intent \in SafeIntents
      BY <1>5 DEF ProposeActionNode, At, RuleInv, RuleReady
    <3>2. QED
      BY <3>1 DEF SafeIntents, ProposeAction, ActionTypeByIntent, ApprovalRequiredActionTypes
  <2>3. z.order_context = s.order_context /\ z.proposed_action = action
    BY DEF Logged, TypeInv, TypeOK, CaseStates
  <2> HIDE DEF z, fails, action, update
  <2>4. Checked(z, "prepare_action_input")
    BY <1>4, <2>2, <2>3
  <2>5. QED
    BY <2>1, <2>4, SettleSets
<1>6. CASE PrepareApproval(t)
  <2> DEFINE z == update("approval", "awaiting_approval", "approval_required")
             fails == \/ ProposalFails(s.intent, s.selected_order_id)
                      \/ ~action.requires_human_approval
  <2>1. Settle(t, fails, "ActionProposalError", z, "prepare_approval_input")
    BY <1>6 DEF PrepareApproval
  <2>2. z.order_context = s.order_context /\ z.proposed_action = action
    BY DEF Logged, TypeInv, TypeOK, CaseStates
  <2> HIDE DEF z, fails, action, update
  <2>3. Checked(z, "prepare_approval_input")
    BY <1>4, <2>2
  <2>4. QED
    BY <2>1, <2>3, SettleSets
<1>7. QED
  BY <1>5, <1>6

LEMMA PreparedInput ==
    ASSUME NEW proposed, NEW address
    PROVE  Prepared(PrepareActionInput(proposed, address), proposed)
  BY DEF Prepared, PrepareActionInput, NeedsExtractor

\* The input is prepared for the proposal, and executed only if it is ready.
LEMMA InputChecked ==
    ASSUME TypeInv, NEW t \in Threads, Checked(state[t], next[t]),
           PrepareActionInputNode(t) \/ PrepareApprovalInput(t)
    PROVE  Checked(state'[t], next'[t])
<1> DEFINE s == state[t]
           input(address) == PrepareActionInput(s.proposed_action, address)
           update(address, status, step) ==
               Logged([s EXCEPT !.action_input = input(address)], status, step)
<1>1. ASSUME NEW address, NEW status, NEW step
      PROVE  LET z == update(address, status, step)
             IN  /\ z.order_context = s.order_context
                 /\ z.proposed_action = s.proposed_action
                 /\ z.action_input = input(address)
  BY DEF Logged, TypeInv, TypeOK, CaseStates
<1>2. ASSUME NEW address, NEW status, NEW step, NEW n,
             \/ next[t] = "prepare_action_input" /\ n = "execute_safe_action" /\ input(address).ready
             \/ n = "clarification"
             \/ next[t] = "prepare_approval_input" /\ n = "human_approval",
             Commit(t, update(address, status, step), n)
      PROVE  Checked(state'[t], next'[t])
  <2> DEFINE z == update(address, status, step)
  <2>1. state'[t] = z /\ next'[t] = n
    BY <1>2, CommitSets
  <2>2. /\ z.order_context = s.order_context
        /\ z.proposed_action = s.proposed_action
        /\ z.action_input = input(address)
    BY <1>1
  <2>3. Prepared(input(address), s.proposed_action)
    BY PreparedInput
  <2> HIDE DEF z, input, update
  <2>4. Checked(z, n)
    BY <1>2, <2>2, <2>3
       DEF Checked, Proposed, ProposalNodes, NeedProposal, NeedInput, SafeNodes
  <2>5. QED
    BY <2>1, <2>4
<1>3. CASE PrepareActionInputNode(t)
  <2>1. CASE Raise(t, "ActionInputError")
    BY <2>1 DEF Raise
  <2>2. ASSUME NEW address,
               Commit(t, update(address, "action_input_ready", "action_input"),
                      IF input(address).ready THEN "execute_safe_action" ELSE "clarification")
        PROVE  Checked(state'[t], next'[t])
    <3> HIDE DEF update, input
    <3>1. next[t] = "prepare_action_input"
      BY <1>3 DEF PrepareActionInputNode, At
    <3>2. CASE input(address).ready
      BY <1>2, <2>2, <3>1, <3>2
    <3>3. CASE ~input(address).ready
      BY <1>2, <2>2, <3>3
    <3>4. QED
      BY <3>2, <3>3
  <2>3. QED
    BY <1>3, <2>1, <2>2 DEF PrepareActionInputNode
<1>4. CASE PrepareApprovalInput(t)
  BY <1>2, <1>4 DEF PrepareApprovalInput, At
<1>5. QED
  BY <1>3, <1>4

\* human_approval moves on to the execution of a ready, sensitive operation
\* that was approved.
LEMMA ApprovalChecked ==
    ASSUME TypeInv, NEW t \in Threads, Checked(state[t], next[t]),
           RequestApproval(t) \/ ResolveApproval(t)
    PROVE  Checked(state'[t], next'[t])
<1> DEFINE s == state[t]
           decision == ParseHumanApprovalResponse(resume[t])
           z == [s EXCEPT !.human_decision = decision,
                          !.audit_log = Append(@, "human_approval")]
           n == IF decision = "approved" THEN "execute_approved_action"
                                         ELSE "approval_rejected"
<1>1. CASE UNCHANGED <<state, next>>
  BY <1>1
<1>2. CASE ~ApprovalFails(s) /\ Commit(t, z, n) /\ next[t] = "human_approval"
  <2>1. state'[t] = z /\ next'[t] = n
    <3> HIDE DEF z, n
    <3>1. QED
      BY <1>2, CommitSets
  <2>2. /\ z.order_context = s.order_context /\ z.proposed_action = s.proposed_action
        /\ z.action_input = s.action_input /\ z.human_decision = decision
    BY DEF TypeInv, TypeOK, CaseStates
  <2> HIDE DEF z, decision
  <2>3. Checked(z, n)
    BY <1>2, <2>2
       DEF Checked, Proposed, ProposalNodes, NeedProposal, NeedInput, SafeNodes, ApprovalFails
  <2>4. QED
    BY <2>1, <2>3
<1>3. QED
  BY <1>1, <1>2 DEF RequestApproval, ResolveApproval, Raise, At

\* An execution reads one order back from the store.
LEMMA ExecuteChecked ==
    ASSUME TypeInv, StoreIsFixturePlusJournal', NEW t \in Threads, catalog' = catalog,
           next[t] \in {"execute_safe_action", "execute_approved_action"},
           Checked(state[t], next[t]), ExecutedAs(t), state[t].action_input.order_id \in Orders
    PROVE  Checked(state'[t], next'[t])
<1> DEFINE s == state[t]
           x == s.action_input.order_id
<1>1. /\ state'[t].order_context = WithUpdatedOrder(s.order_context, x, store'.orders[x])
      /\ next'[t] = "final_response"
  BY DEF ExecutedAs
<1>2. s.order_context # None
  BY ContextPresent DEF BeforeContext
<1>3. Later(store'.orders[x], catalog[x])
  BY DEF StoreIsFixturePlusJournal, Later
<1>4. \A o \in DOMAIN s.order_context : Later(s.order_context[o], catalog[o])
  BY <1>2 DEF Checked
<1>5. \A o \in DOMAIN state'[t].order_context : Later(state'[t].order_context[o], catalog[o])
  BY <1>1, <1>3, <1>4 DEF WithUpdatedOrder
<1>6. QED
  BY <1>1, <1>5 DEF Checked, ProposalNodes, NeedProposal, NeedInput, SafeNodes

\* The nodes whose next node relies on nothing.
LEMMA UncheckedNext ==
    ASSUME TypeInv, NEW t \in Threads,
           \/ Intake(t) \/ ClassifyRequest(t) \/ LoadContext(t) \/ ResolveOrderNode(t)
           \/ Clarification(t) \/ Information(t) \/ Blocked(t) \/ ApprovalRejected(t)
    PROVE  \/ UNCHANGED <<state, next>>
           \/ next'[t] \notin ProposalNodes \cup NeedProposal
<1> USE DEF Settle, Commit, Raise, TypeInv, TypeOK, ProposalNodes, NeedProposal, NeedInput
<1>1. CASE Intake(t) \/ ClassifyRequest(t)
  BY <1>1 DEF Intake, ClassifyRequest
<1>2. CASE LoadContext(t) \/ ResolveOrderNode(t)
  BY <1>2 DEF LoadContext, ResolveOrderNode
<1>3. CASE Clarification(t) \/ Information(t) \/ Blocked(t) \/ ApprovalRejected(t)
  BY <1>3 DEF Clarification, Information, Blocked, ApprovalRejected
<1>4. QED
  BY <1>1, <1>2, <1>3

LEMMA GraphStepChecked ==
    ASSUME CaseInv, RuleInv, StoreIsFixturePlusJournal, StoreIsFixturePlusJournal',
           NEW t \in Threads, Checked(state[t], next[t]), GraphStep(t)
    PROVE  Checked(state'[t], next'[t])
<1>1. TypeInv
  BY DEF CaseInv
<1>2. CASE \/ Intake(t) \/ ClassifyRequest(t) \/ LoadContext(t) \/ ResolveOrderNode(t)
           \/ Clarification(t) \/ Information(t) \/ Blocked(t) \/ ApprovalRejected(t)
  <2>1. PlainStep(t) /\ QuietStep(t)
    BY <1>1, <1>2, SettlingNodesArePlain, CommittingNodesArePlain, FirstNodesAreQuiet,
       BranchNodesAreQuiet, ApprovalRejectedIsQuiet
  <2>2. QED
    BY <1>1, <1>2, <2>1, UncheckedNext, QuietCheckedElsewhere
<1>3. CASE EvaluatePolicyNode(t)
  BY <1>1, <1>3, EvaluatePolicyNodeChecked
<1>4. CASE ProposeActionNode(t) \/ PrepareApproval(t)
  BY <1>1, <1>4, ProposalChecked
<1>5. CASE PrepareActionInputNode(t) \/ PrepareApprovalInput(t)
  BY <1>1, <1>5, InputChecked
<1>6. CASE RequestApproval(t) \/ ResolveApproval(t)
  BY <1>1, <1>6, ApprovalChecked
<1>7. CASE ExecuteSafeAction(t) \/ ExecuteApprovedAction(t)
  <2>1. CASE Refused(t)
    BY <2>1 DEF Refused
  <2>2. CASE ExecutedAs(t) /\ state[t].action_input.order_id \in Orders
    BY <1>1, <1>7, <2>2, ExecuteKinds, ExecuteChecked
  <2>3. QED
    BY <1>1, <1>7, <2>1, <2>2, ExecuteKinds
<1>8. CASE FinalResponse(t)
  <2>1. CASE UNCHANGED <<state, next>>
    BY <2>1
  <2>2. CASE RepliedAs(t)
    <3>1. /\ state'[t].order_context = state[t].order_context
          /\ next'[t] \notin ProposalNodes \cup NeedProposal
      BY <2>2 DEF RepliedAs, ProposalNodes, NeedProposal, NeedInput
    <3>2. QED
      BY <3>1, UnreadChecked
  <2>3. QED
    BY <1>1, <1>8, <2>1, <2>2, ReplyExactly
<1>9. QED
  BY <1>2, <1>3, <1>4, <1>5, <1>6, <1>7, <1>8 DEF GraphStep

LEMMA CallerChecked ==
    ASSUME TypeInv, NEW t \in Threads, Checked(state[t], next[t]),
           \/ Submit(t) \/ ResumeUnknownThread(t)
           \/ \E d \in Decisions \cup {"malformed"} : Resume(t, d)
    PROVE  Checked(state'[t], next'[t])
<1>1. CASE UNCHANGED <<state, next>>
  BY <1>1
<1>2. CASE /\ next'[t] = "intake" /\ state'[t].order_context = state[t].order_context
  BY <1>2, UnreadChecked DEF ProposalNodes, NeedProposal, NeedInput
<1>3. ASSUME NEW r, NEW c, NEW m, NEW complete, StartRequest(t, r, c, m, complete)
      PROVE  Checked(state'[t], next'[t])
  <2>1. /\ next'[t] = "intake"
        /\ state'[t] = [state[t] EXCEPT !.request_id = r, !.customer_id = c,
                                        !.customer_message = m]
    BY <1>3 DEF StartRequest, TypeInv, TypeOK
  <2>2. QED
    BY <1>2, <2>1 DEF TypeInv, TypeOK, CaseStates
<1>4. CASE ResumeUnknownThread(t) \/ \E d \in Decisions \cup {"malformed"} : Resume(t, d)
  BY <1>1, <1>2, <1>4 DEF ResumeUnknownThread, Resume, TypeInv, TypeOK
<1>5. QED
  BY <1>3, <1>4 DEF Submit, Invoke

LEMMA StepChecked ==
    ASSUME CaseInv, RuleInv, StoreIsFixturePlusJournal, CheckedInv, [Next]_vars
    PROVE  CheckedInv'
<1>1. StoreIsFixturePlusJournal'
  BY StepFixture DEF CaseInv
<1>2. CASE UNCHANGED vars
  BY <1>2 DEF vars, history, CheckedInv, Checked, Selected, Proposed
<1>3. ASSUME NEW t \in Threads, ThreadStep(t)
      PROVE  CheckedInv'
  <2>1. catalog' = catalog
    BY <1>3, OnlyExecutionsMutate, ExecuteKinds DEF CaseInv
  <2>2. \A u \in Threads \ {t} : state'[u] = state[u] /\ next'[u] = next[u]
    BY <1>3, OthersUntouched DEF Untouched
  <2>3. Checked(state'[t], next'[t])
    BY <1>1, <1>3, GraphStepChecked, CallerChecked DEF ThreadStep, CheckedInv, CaseInv
  <2>4. \A u \in Threads : Checked(state'[u], next'[u])
    BY <2>2, <2>3 DEF CheckedInv
  <2>5. QED
    BY <2>1, <2>4 DEF CheckedInv, Checked, Selected, Proposed
<1>4. QED
  BY <1>2, <1>3, NextIsThreadStep

-----------------------------------------------------------------------------
\* The store's own check.

\* Another request than the one thread t serves did what the store now
\* refuses to thread t.
Outrun(t) ==
    \E u \in Threads : \E i \in DOMAIN journal[u] :
        /\ journal[u][i].request_id # state[t].request_id
        /\ journal[u][i].order_id = state[t].proposed_action.order_id
        /\ Disables(journal[u][i].action_type, state[t].proposed_action.action_type)

\* An effect journalled before a case executes is not the case's own.
LEMMA EarlierEffect ==
    ASSUME CaseInv, NEW t \in Threads,
           next[t] \in {"execute_safe_action", "execute_approved_action"},
           NEW e \in EffectOn(state[t].proposed_action.order_id, "cancel_order")
               \cup EffectOn(state[t].proposed_action.order_id, "issue_refund"),
           Disables(e.action_type, state[t].proposed_action.action_type)
    PROVE  Outrun(t)
<1> DEFINE r == state[t].request_id
           o == state[t].proposed_action.order_id
<1>1. e \in AllEffects /\ e.order_id = o
  BY EffectsOnOrder
<1>2. PICK u \in Threads : \E i \in DOMAIN journal[u] : e = journal[u][i]
  BY <1>1 DEF AllEffects
<1>3. PICK i \in DOMAIN journal[u] : e = journal[u][i]
  BY <1>2
<1>4. CASE u = t
  BY <1>1, <1>3, <1>4, NothingHappenedYet DEF Acted, Outrun
<1>5. CASE u # t
  <2>1. submitted[r].thread = t
    BY RequestIsOwn
  <2>2. submitted[journal[u][i].request_id].thread = u
    BY <1>3 DEF CaseInv, EffectInv, ThreadEffects
  <2>3. journal[u][i].request_id # r
    BY <1>5, <2>1, <2>2
  <2>4. QED
    BY <1>1, <1>3, <2>3 DEF Outrun
<1>6. QED
  BY <1>4, <1>5

\* What the executor passes on to the store is what the policy permitted: only
\* the store can refuse.
LEMMA OnlyTheStoreRefuses ==
    ASSUME CaseInv, NEW t \in Threads, Checked(state[t], next[t]), Refused(t),
           ExecuteSafeAction(t) \/ ExecuteApprovedAction(t)
    PROVE  LET proposed == state[t].proposed_action
               o == proposed.order_id
           IN  \/ /\ proposed.action_type \in {"cancel_order", "change_address"}
                  /\ store.orders[o].status \notin {"pending", "processing"}
               \/ /\ proposed.action_type = "issue_refund"
                  /\ store.orders[o].payment_status = "refunded"
<1> DEFINE s == state[t]
           proposed == s.proposed_action
           input == s.action_input
           o == proposed.order_id
<1>1. /\ next[t] \in {"execute_safe_action", "execute_approved_action"}
      /\ proposed \in ProposedActions /\ input \in ActionInputs
  BY ExecuteKinds DEF CaseInv
<1>2. /\ input.ready /\ input.action_type = proposed.action_type /\ input.order_id = o
      /\ proposed.action_type = "change_address" => input.new_shipping_address # None
  BY <1>1 DEF Checked, Prepared, NeedInput, CaseInv, ReviewInv, ThreadReviewed, InputMatches
<1>3. o \in DOMAIN store.orders
  BY <1>1 DEF ProposedActions, CaseInv, TypeInv, TypeOK, Stores
<1>4. ~ExecutedAs(t)
  BY DEF Refused, ExecutedAs, Errors, ExpectedErrors, CorruptionErrors
<1>5. \E approved :
          /\ ExecutionFails(proposed, input, store, approved)
          /\ proposed.action_type \in ApprovalRequiredActionTypes => approved
  <2>1. CASE ExecuteSafeAction(t)
    <3>1. ExecutionFails(proposed, input, store, FALSE)
      BY <1>4, <2>1, ExecuteExactly DEF ExecuteSafeAction, CaseInv
    <3>2. proposed.action_type \notin ApprovalRequiredActionTypes
      BY <2>1 DEF ExecuteSafeAction, At, Checked, SafeNodes
    <3>3. QED
      BY <3>1, <3>2
  <2>2. CASE ExecuteApprovedAction(t)
    <3>1. /\ s.human_decision = "approved"
          /\ proposed.requires_human_approval /\ input.ready
      BY <2>2 DEF ExecuteApprovedAction, At, Checked
    <3>2. ExecutionFails(proposed, input, store, TRUE)
      BY <1>4, <2>2, <3>1, ExecuteExactly DEF ExecuteApprovedAction, CaseInv
    <3>3. QED
      BY <3>2
  <2>3. QED
    BY <2>1, <2>2
<1>6. ~CASE proposed.action_type = "cancel_order" -> CanCancel(store, o)
         [] proposed.action_type = "change_address" ->
               CanChangeAddress(store, o, input.new_shipping_address)
         [] proposed.action_type = "issue_refund" -> CanRefund(store, o)
         [] OTHER -> KnownOrder(store, o)
  BY <1>2, <1>5 DEF ExecutionFails
<1>7. CASE proposed.action_type = "cancel_order"
  BY <1>3, <1>6, <1>7 DEF CanCancel, KnownOrder, CancellableStatuses
<1>8. CASE proposed.action_type = "change_address"
  BY <1>2, <1>3, <1>6, <1>8 DEF CanChangeAddress, KnownOrder, AddressChangeableStatuses
<1>9. CASE proposed.action_type = "issue_refund"
  BY <1>3, <1>6, <1>9 DEF CanRefund, KnownOrder
<1>10. QED
  BY <1>3, <1>6, <1>7, <1>8, <1>9 DEF KnownOrder

LEMMA RefusalIsRace ==
    ASSUME CaseInv, StoreIsFixturePlusJournal, NEW t \in Threads,
           Checked(state[t], next[t]), Refused(t),
           ExecuteSafeAction(t) \/ ExecuteApprovedAction(t)
    PROVE  Outrun(t)
<1> DEFINE s == state[t]
           action == s.proposed_action.action_type
           o == s.proposed_action.order_id
           seen == s.order_context[o]
<1>1. /\ next[t] \in {"execute_safe_action", "execute_approved_action"}
      /\ o \in Orders
  BY ExecuteKinds DEF CaseInv, ProposedActions
<1>2. s.order_context # None
  BY <1>1, ContextPresent DEF BeforeContext, CaseInv
<1>3. o \in DOMAIN s.order_context /\ Permitted(action, seen)
  BY <1>1 DEF Checked, Proposed, NeedProposal, NeedInput
<1>4. Later(seen, catalog[o])
  BY <1>2, <1>3 DEF Checked
<1>5. CASE /\ action \in {"cancel_order", "change_address"}
           /\ store.orders[o].status \notin {"pending", "processing"}
  <2>1. catalog[o].status \in {"pending", "processing"}
    BY <1>3, <1>4, <1>5 DEF Permitted, Later
  <2>2. PICK e : e \in EffectOn(o, "cancel_order")
    BY <1>1, <1>5, <2>1 DEF StoreIsFixturePlusJournal
  <2>3. e.action_type = "cancel_order"
    BY <2>2, EffectsOnOrder
  <2>4. QED
    BY <1>1, <1>5, <2>2, <2>3, EarlierEffect DEF Disables
<1>6. CASE action = "issue_refund" /\ store.orders[o].payment_status = "refunded"
  <2>1. catalog[o].payment_status # "refunded"
    BY <1>3, <1>4, <1>6 DEF Permitted, Later
  <2>2. PICK e : e \in EffectOn(o, "issue_refund")
    BY <1>1, <1>6, <2>1 DEF StoreIsFixturePlusJournal
  <2>3. e.action_type = "issue_refund"
    BY <2>2, EffectsOnOrder
  <2>4. QED
    BY <1>1, <1>6, <2>2, <2>3, EarlierEffect DEF Disables
<1>7. QED
  BY <1>5, <1>6, OnlyTheStoreRefuses

\* Only an execution raises ActionExecutionError.
LEMMA OtherStepsRaiseOtherErrors ==
    ASSUME TypeInv, NEW t \in Threads, ThreadStep(t),
           ~ExecuteSafeAction(t), ~ExecuteApprovedAction(t)
    PROVE  run'[t] # "ActionExecutionError"
<1> USE DEF Settle, Commit, Raise, TypeInv, TypeOK
<1>1. CASE Intake(t) \/ ClassifyRequest(t) \/ LoadContext(t) \/ ResolveOrderNode(t)
  BY <1>1 DEF Intake, ClassifyRequest, LoadContext, ResolveOrderNode
<1>2. CASE EvaluatePolicyNode(t) \/ ApprovalRejected(t)
  BY <1>2 DEF EvaluatePolicyNode, ApprovalRejected
<1>3. CASE Clarification(t) \/ Information(t) \/ Blocked(t) \/ FinalResponse(t)
  BY <1>3 DEF Clarification, Information, Blocked, FinalResponse
<1>4. CASE ProposeActionNode(t) \/ PrepareApproval(t)
  BY <1>4 DEF ProposeActionNode, PrepareApproval
<1>5. CASE PrepareActionInputNode(t) \/ PrepareApprovalInput(t)
  BY <1>5 DEF PrepareActionInputNode, PrepareApprovalInput
<1>6. CASE RequestApproval(t) \/ ResolveApproval(t)
  BY <1>6 DEF RequestApproval, ResolveApproval
<1>7. CASE Submit(t) \/ ResumeUnknownThread(t) \/ \E d \in Decisions \cup {"malformed"} : Resume(t, d)
  BY <1>7 DEF Submit, Invoke, StartRequest, ResumeUnknownThread, Resume
<1>8. QED
  BY <1>1, <1>2, <1>3, <1>4, <1>5, <1>6, <1>7 DEF ThreadStep, GraphStep

LEMMA JournalOnlyGrows ==
    ASSUME TypeInv, NEW t \in Threads, ThreadStep(t)
    PROVE  JournalGrows
<1>1. CASE ~ExecuteSafeAction(t) /\ ~ExecuteApprovedAction(t)
  BY <1>1, OnlyExecutionsMutate DEF JournalGrows
<1>2. CASE Refused(t)
  BY <1>2 DEF Refused, JournalGrows
<1>3. CASE ExecutedAs(t)
  BY <1>3 DEF ExecutedAs, JournalGrows, TypeInv, TypeOK
<1>4. QED
  BY <1>1, <1>2, <1>3, ExecuteKinds

LEMMA StepRefused ==
    ASSUME CaseInv, StoreIsFixturePlusJournal, CheckedInv, RefusedOnlyByRace, [Next]_vars
    PROVE  RefusedOnlyByRace'
<1> SUFFICES ASSUME NEW u \in Threads, run'[u] = "ActionExecutionError"
             PROVE  Outrun(u)'
  BY DEF RefusedOnlyByRace, Outrun
<1>1. ASSUME Outrun(u), state'[u] = state[u], JournalGrows
      PROVE  Outrun(u)'
  BY <1>1 DEF Outrun, JournalGrows
<1>2. CASE UNCHANGED vars
  BY <1>1, <1>2 DEF vars, history, JournalGrows, RefusedOnlyByRace, Outrun
<1>3. ASSUME NEW t \in Threads, ThreadStep(t)
      PROVE  Outrun(u)'
  <2>1. JournalGrows
    BY <1>3, JournalOnlyGrows DEF CaseInv
  <2>2. CASE u # t
    <3>1. state'[u] = state[u] /\ run'[u] = run[u]
      BY <1>3, <2>2, OthersUntouched DEF Untouched
    <3>2. QED
      BY <1>1, <2>1, <3>1 DEF RefusedOnlyByRace, Outrun
  <2>3. CASE u = t
    <3>1. ExecuteSafeAction(t) \/ ExecuteApprovedAction(t)
      BY <1>3, <2>3, OtherStepsRaiseOtherErrors DEF CaseInv
    <3>2. Refused(t)
      BY <2>3, <3>1, ExecuteKinds DEF ExecutedAs, CaseInv
    <3>3. Outrun(t)
      BY <3>1, <3>2, RefusalIsRace DEF CheckedInv
    <3>4. QED
      BY <1>1, <2>1, <2>3, <3>2, <3>3 DEF Refused
  <2>4. QED
    BY <2>2, <2>3
<1>4. QED
  BY <1>2, <1>3, NextIsThreadStep

\* The policy engine, the executor and the store agree: an execution that
\* evaluate_policy let through is refused only because another request changed
\* the same order in between.
THEOREM RefusalsAreRaces == Spec => []RefusedOnlyByRace
<1> DEFINE Inv == RuleInv /\ StoreIsFixturePlusJournal /\ CheckedInv /\ RefusedOnlyByRace
<1>1. Init => Inv
  <2>1. Init => CheckedInv
    BY DEF Init, CheckedInv, Checked, EmptyState, ProposalNodes, NeedProposal, NeedInput,
           SafeNodes
  <2>2. Init => RefusedOnlyByRace
    BY DEF Init, RefusedOnlyByRace
  <2>3. QED
    BY <2>1, <2>2, InitRules, InitFixture
<1>2. CaseInv /\ Inv /\ [Next]_vars => Inv'
  BY StepRules, StepFixture, StepChecked, StepRefused DEF CaseInv
<1>3. QED
  BY <1>1, <1>2, CaseInvariance, PTL DEF Spec

=============================================================================
