----------------------------- MODULE CaseRules -----------------------------
(***************************************************************************)
(* The deterministic rules a graph node applies: order resolution, policy, *)
(* routing, action proposal, input preparation, the approval request and   *)
(* the executor.  Each rule is an operator; what makes the code raise      *)
(* instead of returning is a predicate of its own, named ...Fails.         *)
(*                                                                         *)
(* An order context is the function from the ids of the customer's orders  *)
(* to their records, or None before it is loaded.                          *)
(***************************************************************************)
EXTENDS ActionStore

Intents == {"order_status", "refund_request", "cancel_order", "address_change",
            "billing_issue", "product_issue", "other"}

ActionTypes == {"cancel_order", "change_address", "issue_refund",
                "investigate_billing", "investigate_product_issue"}

CaseRoutes == {"clarification", "information", "action", "approval", "blocked"}

PolicyOutcomes == {"information_only", "eligible", "blocked", "review_required",
                   "needs_clarification", "not_applicable"}

Decisions == {"approved", "rejected"}

Resolutions == [status            : {"selected", "not_required", "needs_clarification"},
                selected_order_id : Orders \cup {None}]

Assessments == [outcome : PolicyOutcomes, requires_human_approval : BOOLEAN]

ProposedActions == [action_type             : ActionTypes,
                    order_id                : Orders,
                    requires_human_approval : BOOLEAN]

ActionInputs == [ready                : BOOLEAN,
                 action_type          : ActionTypes,
                 order_id             : Orders \cup {None},
                 new_shipping_address : Addresses \cup {None}]

ActionResults == [action_type : ActionTypes, order_id : Orders]

-----------------------------------------------------------------------------
\* order_resolution.py

OrderRequiredIntents == {"order_status", "refund_request", "cancel_order",
                         "address_change", "billing_issue", "product_issue"}

ResolutionFails(intent, context) ==
    \/ intent = None
    \/ intent \in OrderRequiredIntents /\ context = None

\* `named` is the set of order ids the message mentions.
MentionedOrders(named, context) == named \cap DOMAIN context

\* Mutant: a customer's only order is guessed when none is named.
MutantResolveOrder(intent, named, context) ==
    IF intent \notin OrderRequiredIntents
    THEN [status |-> "not_required", selected_order_id |-> None]
    ELSE IF \E o \in Orders : {o} \in {MentionedOrders(named, context), DOMAIN context}
    THEN [status |-> "selected",
          selected_order_id |->
              CHOOSE o \in Orders :
                  {o} \in {MentionedOrders(named, context), DOMAIN context}]
    ELSE [status |-> "needs_clarification", selected_order_id |-> None]

ResolveOrder(intent, named, context) ==
    IF intent \notin OrderRequiredIntents
    THEN [status |-> "not_required", selected_order_id |-> None]
    ELSE IF \E o \in Orders : MentionedOrders(named, context) = {o}
    THEN [status |-> "selected",
          selected_order_id |->
              CHOOSE o \in Orders : MentionedOrders(named, context) = {o}]
    ELSE [status |-> "needs_clarification", selected_order_id |-> None]

-----------------------------------------------------------------------------
\* policies.py

PolicyCancellableStatuses == {"pending", "processing"}

PolicyAddressChangeableStatuses == {"pending", "processing"}

Assessment(outcome, approval) ==
    [outcome |-> outcome, requires_human_approval |-> approval]

PolicyFails(intent, resolution, context) ==
    /\ intent # "other"
    /\ resolution.status # "needs_clarification"
    /\ \/ resolution.status # "selected"
       \/ context = None
       \/ resolution.selected_order_id \notin DOMAIN context
       \/ intent \notin Intents

EvaluateCancelOrder(order) ==
    Assessment(IF order.status \in PolicyCancellableStatuses
               THEN "eligible" ELSE "blocked", FALSE)

EvaluateAddressChange(order) ==
    Assessment(IF order.status \in PolicyAddressChangeableStatuses
               THEN "eligible" ELSE "blocked", FALSE)

EvaluateRefundRequest(order) ==
    IF order.payment_status = "refunded"
    THEN Assessment("blocked", FALSE)
    ELSE Assessment("review_required", TRUE)

EvaluatePolicy(intent, resolution, context) ==
    LET order == context[resolution.selected_order_id]
    IN  CASE intent = "other" -> Assessment("not_applicable", FALSE)
          [] intent # "other" /\ resolution.status = "needs_clarification" ->
                Assessment("needs_clarification", FALSE)
          [] resolution.status = "selected" /\ intent = "order_status" ->
                Assessment("information_only", FALSE)
          [] resolution.status = "selected" /\ intent = "cancel_order" ->
                EvaluateCancelOrder(order)
          [] resolution.status = "selected" /\ intent = "address_change" ->
                EvaluateAddressChange(order)
          [] resolution.status = "selected" /\ intent = "refund_request" ->
                EvaluateRefundRequest(order)
          [] resolution.status = "selected"
                /\ intent \in {"billing_issue", "product_issue"} ->
                Assessment("review_required", TRUE)

-----------------------------------------------------------------------------
\* routing.py

RouteByOutcome ==
    [needs_clarification |-> "clarification",
     information_only    |-> "information",
     not_applicable      |-> "information",
     eligible            |-> "action",
     review_required     |-> "approval",
     blocked             |-> "blocked"]

ExpectedApprovalByOutcome ==
    [needs_clarification |-> FALSE,
     information_only    |-> FALSE,
     not_applicable      |-> FALSE,
     eligible            |-> FALSE,
     review_required     |-> TRUE,
     blocked             |-> FALSE]

SelectedOrderOutcomes == {"information_only", "eligible", "blocked", "review_required"}

RoutingFails(intent, resolution, assessment) ==
    LET outcome == assessment.outcome
    IN  \/ outcome \notin DOMAIN RouteByOutcome
        \/ assessment.requires_human_approval # ExpectedApprovalByOutcome[outcome]
        \/ outcome = "needs_clarification" /\ resolution.status # "needs_clarification"
        \/ outcome \in SelectedOrderOutcomes /\ resolution.status # "selected"
        \/ outcome = "not_applicable" /\ intent # "other"

DetermineCaseRoute(assessment) == RouteByOutcome[assessment.outcome]

-----------------------------------------------------------------------------
\* action_proposal.py

ActionTypeByIntent ==
    [cancel_order   |-> "cancel_order",
     address_change |-> "change_address",
     refund_request |-> "issue_refund",
     billing_issue  |-> "investigate_billing",
     product_issue  |-> "investigate_product_issue"]

\* Mutant: product issues are not marked as sensitive.
MutantApprovalRequiredByIntent ==
    [cancel_order   |-> FALSE,
     address_change |-> FALSE,
     refund_request |-> TRUE,
     billing_issue  |-> TRUE,
     product_issue  |-> FALSE]

ApprovalRequiredByIntent ==
    [cancel_order   |-> FALSE,
     address_change |-> FALSE,
     refund_request |-> TRUE,
     billing_issue  |-> TRUE,
     product_issue  |-> TRUE]

ProposalFails(intent, o) ==
    intent \notin DOMAIN ActionTypeByIntent \/ o = None

ProposeAction(intent, o) ==
    [action_type             |-> ActionTypeByIntent[intent],
     order_id                |-> o,
     requires_human_approval |-> ApprovalRequiredByIntent[intent]]

-----------------------------------------------------------------------------
\* action_inputs.py

\* Only change_address calls the extractor; `address` is its answer, None
\* when the message states no address.
NeedsExtractor(proposed) == proposed.action_type = "change_address"

PrepareActionInput(proposed, address) ==
    LET ready == NeedsExtractor(proposed) => address # None
    IN  [ready       |-> ready,
         action_type |-> proposed.action_type,
         order_id    |-> IF ready THEN proposed.order_id ELSE None,
         new_shipping_address |-> IF NeedsExtractor(proposed) THEN address ELSE None]

-----------------------------------------------------------------------------
\* approval.py

\* The amount and the currency shown for a refund are fields of the order no
\* operation changes; they are left out.
ApprovalTemplates == {"issue_refund", "investigate_billing", "investigate_product_issue"}

ApprovalRequests(Requests) ==
    [request_id : Requests, action_type : ActionTypes, order_id : Orders]

BuildApprovalRequest(request_id, proposed) ==
    [request_id  |-> request_id,
     action_type |-> proposed.action_type,
     order_id    |-> proposed.order_id]

\* Mutants: malformed input counts as approval; a rejection counts as
\* approval; an approval counts as a rejection.
MutantLenientParse(payload) ==
    IF payload = "rejected" THEN payload ELSE "approved"

MutantRejectionApproves(payload) ==
    IF payload \in Decisions THEN "approved" ELSE None

MutantApprovalRejects(payload) ==
    IF payload \in Decisions THEN "rejected" ELSE None

\* What a resume value means; None where parsing it raises ApprovalError.
ParseHumanApprovalResponse(payload) ==
    IF payload \in Decisions THEN payload ELSE None

-----------------------------------------------------------------------------
\* action_executor.py

ApprovalRequiredActionTypes ==
    {"issue_refund", "investigate_billing", "investigate_product_issue"}

\* Everything execute_action checks before the store call, and the store
\* call's own refusal, which _run_store_call turns into the same exception.
ExecutionFails(proposed, input, s, human_approved) ==
    \/ proposed.action_type # input.action_type
    \/ ~input.ready
    \/ proposed.action_type \in ApprovalRequiredActionTypes /\ ~human_approved
    \/ ~CASE proposed.action_type = "cancel_order" -> CanCancel(s, input.order_id)
          [] proposed.action_type = "change_address" ->
                CanChangeAddress(s, input.order_id, input.new_shipping_address)
          [] proposed.action_type = "issue_refund" -> CanRefund(s, input.order_id)
          [] OTHER -> KnownOrder(s, input.order_id)

\* The store after the one store call of execute_action.
ExecuteAction(proposed, input, s) ==
    LET o == input.order_id
    IN  CASE proposed.action_type = "cancel_order" -> CancelOrder(s, o)
          [] proposed.action_type = "change_address" ->
                ChangeShippingAddress(s, o, input.new_shipping_address)
          [] proposed.action_type = "issue_refund" -> IssueFullRefund(s, o)
          [] proposed.action_type = "investigate_billing" ->
                CreateBillingInvestigation(s, o)
          [] proposed.action_type = "investigate_product_issue" ->
                CreateProductInvestigation(s, o)

\* Mutant: the product branch of the executor copies the billing branch.
MutantExecutionResult(proposed, input) ==
    [action_type |-> IF proposed.action_type = "investigate_product_issue"
                     THEN "investigate_billing" ELSE proposed.action_type,
     order_id    |-> input.order_id]

ExecutionResult(proposed, input) ==
    [action_type |-> proposed.action_type, order_id |-> input.order_id]

-----------------------------------------------------------------------------
\* graph.py: the entry of one order replaced in the context.

\* Mutant: the re-read order is not written back.
MutantWithUpdatedOrder(context, o, record) == context

WithUpdatedOrder(context, o, record) ==
    [x \in DOMAIN context |-> IF x = o THEN record ELSE context[x]]

=============================================================================
