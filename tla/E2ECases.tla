------------------------------ MODULE E2ECases ------------------------------
(***************************************************************************)
(* The curated benchmark of evals/e2e_cases.py and the fixture orders it   *)
(* is written against (data/orders.json), as data.  Ids and addresses are  *)
(* strings.  A message is the set of known order ids it names; what a      *)
(* reply must or must not say belongs to the reply (EvalRunner).           *)
(*                                                                         *)
(* Cases of one section expect the same things, so a section has a         *)
(* constructor that takes what its cases differ in.                        *)
(***************************************************************************)
EXTENDS ActionStore

FixtureCustomers ==
    {"cust-001", "cust-002", "cust-003", "cust-004", "cust-005", "cust-006"}

FixtureAddresses == {"original", "Avenida Central 456", "Calle Nueva 789"}

\* Owner, status and payment status of each order.
OrderFixtures ==
    [order1001 |-> <<"cust-001", "shipped",    "paid">>,
     order1002 |-> <<"cust-001", "delivered",  "paid">>,
     order1003 |-> <<"cust-001", "cancelled",  "refunded">>,
     order1004 |-> <<"cust-002", "processing", "paid">>,
     order1005 |-> <<"cust-002", "pending",    "pending">>,
     order1006 |-> <<"cust-003", "delivered",  "paid">>,
     order1007 |-> <<"cust-003", "cancelled",  "failed">>,
     order1008 |-> <<"cust-004", "pending",    "pending">>,
     order1009 |-> <<"cust-006", "shipped",    "paid">>,
     order1010 |-> <<"cust-006", "processing", "paid">>]

FixtureOrders == DOMAIN OrderFixtures

FixtureOwner == [o \in FixtureOrders |-> OrderFixtures[o][1]]

FixtureRecords ==
    [o \in FixtureOrders |-> [status           |-> OrderFixtures[o][2],
                              payment_status   |-> OrderFixtures[o][3],
                              shipping_address |-> "original"]]

-----------------------------------------------------------------------------
\* ExpectedMutation: only order_id is required, an absent field must not change.
ExpectedMutation(o) ==
    [order_id |-> o, status |-> None, payment_status |-> None,
     shipping_address_contains |-> None, reference_id |-> None]

\* EndToEndEvalCase with its defaults; every curated case declares the two
\* fields that are not None here.
EndToEndEvalCase(customer, orders, intent, urgency) ==
    [customer_id                      |-> customer,
     customer_message                 |-> orders,
     expected_intent                  |-> intent,
     expected_urgency                 |-> urgency,
     expected_order_resolution_status |-> None,
     expected_selected_order_id       |-> None,
     expected_policy_outcome          |-> None,
     expected_policy_code             |-> None,
     expected_requires_human_approval |-> FALSE,
     expected_route                   |-> None,
     expected_proposed_action         |-> None,
     human_decision                   |-> None,
     expected_final_workflow_status   |-> "completed",
     expected_mutation                |-> None]

\* A case about one order that the message names.
OrderCase(customer, o, intent, urgency) ==
    [EndToEndEvalCase(customer, {o}, intent, urgency) EXCEPT
        !.expected_order_resolution_status = "selected",
        !.expected_selected_order_id = o,
        !.expected_mutation = ExpectedMutation(o)]

ExpectedProposedAction(action, o, approval) ==
    [action_type |-> action, order_id |-> o, requires_human_approval |-> approval]

-----------------------------------------------------------------------------
InformationCase(customer, o) ==
    [OrderCase(customer, o, "order_status", "low") EXCEPT
        !.expected_policy_outcome = "information_only",
        !.expected_policy_code = "ORDER_STATUS_INFO",
        !.expected_route = "information"]

InformationCases ==
    <<InformationCase("cust-001", "order1001"),
      InformationCase("cust-006", "order1009")>>

\* No order can be selected: none is named, or one nobody has.
OrderRequiredCase(customer, intent, urgency) ==
    [EndToEndEvalCase(customer, {}, intent, urgency) EXCEPT
        !.expected_order_resolution_status = "needs_clarification",
        !.expected_policy_outcome = "needs_clarification",
        !.expected_policy_code = "ORDER_REQUIRED",
        !.expected_route = "clarification"]

\* The last one resolves its order and lacks the new address.
ClarificationCases ==
    <<OrderRequiredCase("cust-001", "cancel_order", "medium"),
      OrderRequiredCase("cust-002", "order_status", "low"),
      OrderRequiredCase("cust-005", "order_status", "low"),
      [OrderCase("cust-002", "order1004", "address_change", "medium") EXCEPT
          !.expected_policy_outcome = "eligible",
          !.expected_policy_code = "ADDRESS_CHANGE_ALLOWED",
          !.expected_route = "clarification",
          !.expected_proposed_action =
              ExpectedProposedAction("change_address", "order1004", FALSE),
          !.expected_mutation = None]>>

SafeCase(customer, o, intent, urgency, code, action) ==
    [OrderCase(customer, o, intent, urgency) EXCEPT
        !.expected_policy_outcome = "eligible",
        !.expected_policy_code = code,
        !.expected_route = "action",
        !.expected_proposed_action = ExpectedProposedAction(action, o, FALSE)]

AddressCase(customer, o, urgency, address) ==
    [SafeCase(customer, o, "address_change", urgency,
              "ADDRESS_CHANGE_ALLOWED", "change_address") EXCEPT
        !.expected_mutation.shipping_address_contains = address]

SafeCases ==
    <<[SafeCase("cust-002", "order1005", "cancel_order", "medium",
                "CANCEL_ALLOWED", "cancel_order") EXCEPT
          !.expected_mutation.status = "cancelled"],
      AddressCase("cust-006", "order1010", "medium", "Avenida Central 456"),
      AddressCase("cust-004", "order1008", "high", "Calle Nueva 789")>>

BlockedCase(customer, o, intent, code) ==
    [OrderCase(customer, o, intent, "medium") EXCEPT
        !.expected_policy_outcome = "blocked",
        !.expected_policy_code = code,
        !.expected_route = "blocked"]

BlockedCases ==
    <<BlockedCase("cust-001", "order1001", "cancel_order", "CANCEL_BLOCKED_STATUS"),
      BlockedCase("cust-003", "order1006", "address_change", "ADDRESS_CHANGE_BLOCKED_STATUS"),
      BlockedCase("cust-001", "order1003", "refund_request", "ALREADY_REFUNDED")>>

ApprovalCase(customer, o, intent, code, action, decision) ==
    [OrderCase(customer, o, intent, "medium") EXCEPT
        !.expected_policy_outcome = "review_required",
        !.expected_policy_code = code,
        !.expected_requires_human_approval = TRUE,
        !.expected_route = "approval",
        !.expected_proposed_action = ExpectedProposedAction(action, o, TRUE),
        !.human_decision = decision]

RefundCase(customer, o, decision) ==
    ApprovalCase(customer, o, "refund_request", "REFUND_REVIEW_REQUIRED",
                 "issue_refund", decision)

RefundCases ==
    <<[RefundCase("cust-001", "order1002", "approved") EXCEPT
          !.expected_mutation.payment_status = "refunded"],
      RefundCase("cust-003", "order1006", "rejected")>>

\* An approved investigation is expected to return its reference id.
InvestigationCase(customer, o, intent, code, action, decision) ==
    [ApprovalCase(customer, o, intent, code, action, decision) EXCEPT
        !.expected_mutation.reference_id =
            IF decision = "approved" THEN <<action, o>> ELSE None]

BillingCase(customer, o, decision) ==
    InvestigationCase(customer, o, "billing_issue", "BILLING_REVIEW_REQUIRED",
                      "investigate_billing", decision)

BillingCases ==
    <<BillingCase("cust-002", "order1004", "approved"),
      BillingCase("cust-006", "order1009", "rejected")>>

ProductCase(customer, o, decision) ==
    InvestigationCase(customer, o, "product_issue", "PRODUCT_REVIEW_REQUIRED",
                      "investigate_product_issue", decision)

ProductCases ==
    <<ProductCase("cust-003", "order1006", "approved"),
      ProductCase("cust-004", "order1008", "rejected")>>

OtherCases ==
    <<[EndToEndEvalCase("cust-001", {}, "other", "low") EXCEPT
          !.expected_order_resolution_status = "not_required",
          !.expected_policy_outcome = "not_applicable",
          !.expected_policy_code = "NOT_APPLICABLE",
          !.expected_route = "information"]>>

\* Mutant: the order's payment failed, so a refund is expected to be blocked.
MutantFailedPaymentCases ==
    <<[BillingCase("cust-003", "order1007", "approved") EXCEPT
          !.expected_policy_outcome = "blocked"]>>

FailedPaymentCases == <<BillingCase("cust-003", "order1007", "approved")>>

-----------------------------------------------------------------------------
SectionsOfE2ECases ==
    <<InformationCases, ClarificationCases, SafeCases, BlockedCases, RefundCases,
      BillingCases, ProductCases, OtherCases, FailedPaymentCases>>

\* The benchmark, in any order: the order of its cases must not matter.
E2E_CASES ==
    UNION {{section[i] : i \in DOMAIN section} :
        section \in {SectionsOfE2ECases[k] : k \in DOMAIN SectionsOfE2ECases}}

=============================================================================
