----------------------------- MODULE RuleProofs -----------------------------
(***************************************************************************)
(* Lemmas about the operators of CaseRules and ActionStore, for any        *)
(* orders, addresses and stores: what each rule returns, that an execution *)
(* which does not fail leaves a store, and that the policy engine and the  *)
(* store, which keep tables of their own, agree on a current order.        *)
(***************************************************************************)
EXTENDS CaseRules, TLAPS

-----------------------------------------------------------------------------
\* What the rules return.

\* The resolver selects an order of the fixture or none.
LEMMA ResolveOrderType ==
    ASSUME NEW intent, NEW named, NEW context
    PROVE  ResolveOrder(intent, named, context) \in Resolutions
<1> DEFINE unique == CHOOSE o \in Orders : MentionedOrders(named, context) = {o}
<1>1. (\E o \in Orders : MentionedOrders(named, context) = {o}) => unique \in Orders
  OBVIOUS
<1>2. QED
  BY <1>1 DEF ResolveOrder, Resolutions

\* The policy engine assesses whatever it does not refuse to look at.
LEMMA EvaluatePolicyType ==
    ASSUME NEW intent, NEW resolution, NEW context,
           ~PolicyFails(intent, resolution, context)
    PROVE  EvaluatePolicy(intent, resolution, context) \in Assessments
<1>1. \A outcome \in PolicyOutcomes, approval \in BOOLEAN :
          Assessment(outcome, approval) \in Assessments
  BY DEF Assessment, Assessments
<1>2. CASE intent = "other"
  BY <1>1, <1>2 DEF EvaluatePolicy, PolicyOutcomes
<1>3. CASE intent # "other" /\ resolution.status = "needs_clarification"
  BY <1>1, <1>3 DEF EvaluatePolicy, PolicyOutcomes
<1>4. CASE intent # "other" /\ resolution.status = "selected" /\ intent \in Intents
  BY <1>1, <1>4
     DEF EvaluatePolicy, PolicyOutcomes, Intents, EvaluateCancelOrder,
         EvaluateAddressChange, EvaluateRefundRequest
<1>5. QED
  BY <1>2, <1>3, <1>4 DEF PolicyFails

LEMMA ProposeActionType ==
    ASSUME NEW intent, NEW o \in Orders \cup {None}, ~ProposalFails(intent, o)
    PROVE  ProposeAction(intent, o) \in ProposedActions
<1>1. /\ o \in Orders
      /\ intent \in {"cancel_order", "address_change", "refund_request",
                     "billing_issue", "product_issue"}
  BY DEF ProposalFails, ActionTypeByIntent
<1>2. ActionTypeByIntent[intent] \in ActionTypes
  BY <1>1 DEF ActionTypeByIntent, ActionTypes
<1>3. ApprovalRequiredByIntent[intent] \in BOOLEAN
  <2>1. CASE intent \in {"cancel_order", "address_change"}
    <3>1. ApprovalRequiredByIntent[intent] = FALSE
      BY <2>1 DEF ApprovalRequiredByIntent
    <3>2. QED
      BY <3>1
  <2>2. CASE intent \in {"refund_request", "billing_issue", "product_issue"}
    <3>1. ApprovalRequiredByIntent[intent] = TRUE
      BY <2>2 DEF ApprovalRequiredByIntent
    <3>2. QED
      BY <3>1
  <2>3. QED
    BY <1>1, <2>1, <2>2
<1>4. QED
  BY <1>1, <1>2, <1>3 DEF ProposeAction, ProposedActions

\* An input names the proposal's action, and its order once it is complete.
LEMMA PrepareActionInputType ==
    ASSUME NEW proposed \in ProposedActions, NEW address \in Addresses \cup {None}
    PROVE  /\ PrepareActionInput(proposed, address) \in ActionInputs
           /\ LET input == PrepareActionInput(proposed, address)
              IN  /\ input.action_type = proposed.action_type
                  /\ input.ready => input.order_id = proposed.order_id
<1>1. proposed.action_type \in ActionTypes /\ proposed.order_id \in Orders
  BY DEF ProposedActions
<1>2. QED
  BY <1>1 DEF PrepareActionInput, ActionInputs

-----------------------------------------------------------------------------
\* The store.

LEMMA StoreUpdateType ==
    ASSUME NEW s \in Stores, NEW o \in Orders
    PROVE  /\ CancelOrder(s, o) \in Stores
           /\ \A address \in Addresses : ChangeShippingAddress(s, o, address) \in Stores
           /\ IssueFullRefund(s, o) \in Stores
           /\ CreateBillingInvestigation(s, o) \in Stores
           /\ CreateProductInvestigation(s, o) \in Stores
<1> DEFINE cancelled == [s.orders[o] EXCEPT !.status = "cancelled"]
           moved(address) == [s.orders[o] EXCEPT !.shipping_address = address]
           refunded == [s.orders[o] EXCEPT !.payment_status = "refunded"]
<1>1. s.orders \in [Orders -> OrderRecords] /\ s.orders[o] \in OrderRecords
  BY DEF Stores
<1>2. /\ cancelled \in OrderRecords
      /\ \A address \in Addresses : moved(address) \in OrderRecords
      /\ refunded \in OrderRecords
  BY <1>1 DEF OrderRecords, OrderStatuses, PaymentStatuses
<1>3. ASSUME NEW record \in OrderRecords
      PROVE  [s EXCEPT !.orders = [@ EXCEPT ![o] = record]] \in Stores
  BY <1>1 DEF Stores
<1>4. CancelOrder(s, o) \in Stores
  BY <1>2, <1>3 DEF CancelOrder
<1>5. \A address \in Addresses : ChangeShippingAddress(s, o, address) \in Stores
  BY <1>2, <1>3 DEF ChangeShippingAddress
<1>6. IssueFullRefund(s, o) \in Stores
  BY <1>2, <1>3 DEF IssueFullRefund
<1>7. CreateBillingInvestigation(s, o) \in Stores /\ CreateProductInvestigation(s, o) \in Stores
  BY DEF CreateBillingInvestigation, CreateProductInvestigation, Stores
<1>8. QED
  BY <1>4, <1>5, <1>6, <1>7

\* What is known of an execution that does not fail.
LEMMA ExecutionType ==
    ASSUME NEW s \in Stores, NEW proposed \in ProposedActions, NEW input \in ActionInputs,
           NEW approved, ~ExecutionFails(proposed, input, s, approved)
    PROVE  /\ input.ready /\ input.order_id \in Orders
           /\ proposed.action_type = input.action_type
           /\ proposed.action_type \in ApprovalRequiredActionTypes => approved
           /\ ExecuteAction(proposed, input, s) \in Stores
<1>1. DOMAIN s.orders = Orders
  BY DEF Stores
<1>2. /\ input.ready /\ proposed.action_type = input.action_type
      /\ proposed.action_type \in ApprovalRequiredActionTypes => approved
  BY DEF ExecutionFails
<1>3. /\ input.order_id \in Orders
      /\ proposed.action_type = "change_address" =>
             input.new_shipping_address \in Addresses
  BY <1>1
     DEF ExecutionFails, CanCancel, CanChangeAddress, CanRefund, KnownOrder, ActionInputs
<1>4. proposed.action_type \in {"cancel_order", "change_address", "issue_refund",
                                "investigate_billing", "investigate_product_issue"}
  BY DEF ProposedActions, ActionTypes
<1>5. ExecuteAction(proposed, input, s) \in Stores
  BY <1>3, <1>4, StoreUpdateType DEF ExecuteAction
<1>6. QED
  BY <1>2, <1>3, <1>5

LEMMA WithUpdatedOrderType ==
    ASSUME NEW owned, NEW context \in [owned -> OrderRecords], NEW o,
           NEW record \in OrderRecords
    PROVE  WithUpdatedOrder(context, o, record) \in [owned -> OrderRecords]
  BY DEF WithUpdatedOrder

-----------------------------------------------------------------------------
\* The policy engine and the store.

\* policies.py and action_store.py each have a table of what an order's state
\* allows.  On an order whose record in the context is the store's, a complete
\* operation is refused by the store exactly when the policy blocks it, and it
\* is sent to a reviewer exactly when the executor insists on an approval.
THEOREM PolicyMatchesStore ==
    ASSUME NEW s \in Stores, NEW o \in Orders, NEW intent \in DOMAIN ActionTypeByIntent,
           NEW context, context[o] = s.orders[o],
           NEW address \in Addresses \cup {None},
           PrepareActionInput(ProposeAction(intent, o), address).ready
    PROVE  LET proposed == ProposeAction(intent, o)
               input == PrepareActionInput(proposed, address)
               outcome == EvaluatePolicy(intent,
                              [status |-> "selected", selected_order_id |-> o],
                              context).outcome
           IN  /\ ExecutionFails(proposed, input, s, TRUE) <=> outcome = "blocked"
               /\ outcome # "blocked" =>
                      (ExecutionFails(proposed, input, s, FALSE)
                          <=> outcome = "review_required")
<1> DEFINE proposed == ProposeAction(intent, o)
           input == PrepareActionInput(proposed, address)
           outcome == EvaluatePolicy(intent, [status |-> "selected", selected_order_id |-> o],
                                     context).outcome
<1>1. intent \in {"cancel_order", "address_change", "refund_request", "billing_issue",
                  "product_issue"}
  BY DEF ActionTypeByIntent
<1>2. KnownOrder(s, o) /\ s.orders[o] \in OrderRecords
  BY DEF KnownOrder, Stores
<1>3. /\ proposed.action_type = ActionTypeByIntent[intent] /\ proposed.order_id = o
      /\ input.ready /\ input.action_type = proposed.action_type /\ input.order_id = o
      /\ proposed.action_type = "change_address" =>
             address # None /\ input.new_shipping_address = address
  BY DEF ProposeAction, PrepareActionInput, NeedsExtractor
<1> USE DEF ExecutionFails, ApprovalRequiredActionTypes
<1>4. CASE intent = "cancel_order"
  <2>1. proposed.action_type = "cancel_order"
    BY <1>3, <1>4 DEF ActionTypeByIntent
  <2>2. outcome = IF CanCancel(s, o) THEN "eligible" ELSE "blocked"
    BY <1>2, <1>4
       DEF EvaluatePolicy, EvaluateCancelOrder, Assessment, CanCancel, CancellableStatuses,
           PolicyCancellableStatuses
  <2> HIDE DEF proposed, input, outcome
  <2>3. QED
    BY <1>3, <2>1, <2>2 DEF proposed, input, outcome
<1>5. CASE intent = "address_change"
  <2>1. proposed.action_type = "change_address"
    BY <1>3, <1>5 DEF ActionTypeByIntent
  <2>2. outcome = IF CanChangeAddress(s, o, address) THEN "eligible" ELSE "blocked"
    BY <1>2, <1>3, <1>5, <2>1
       DEF EvaluatePolicy, EvaluateAddressChange, Assessment, CanChangeAddress,
           AddressChangeableStatuses, PolicyAddressChangeableStatuses
  <2>3. QED
    BY <1>3, <2>1, <2>2
<1>6. CASE intent = "refund_request"
  <2>1. proposed.action_type = "issue_refund"
    BY <1>3, <1>6 DEF ActionTypeByIntent
  <2>2. outcome = IF CanRefund(s, o) THEN "review_required" ELSE "blocked"
    BY <1>2, <1>6 DEF EvaluatePolicy, EvaluateRefundRequest, Assessment, CanRefund
  <2>3. QED
    BY <1>3, <2>1, <2>2
<1>7. CASE intent \in {"billing_issue", "product_issue"}
  <2>1. proposed.action_type \in {"investigate_billing", "investigate_product_issue"}
    BY <1>3, <1>7 DEF ActionTypeByIntent
  <2>2. outcome = "review_required"
    BY <1>7 DEF EvaluatePolicy, Assessment
  <2>3. QED
    BY <1>2, <1>3, <2>1, <2>2
<1>8. QED
  BY <1>1, <1>4, <1>5, <1>6, <1>7

=============================================================================
