----------------------------- MODULE EvalRunner -----------------------------
(***************************************************************************)
(* The end-to-end evaluation: evals/e2e_runner.py runs the cases of a      *)
(* benchmark one after the other, each through the real graph (CaseGraph)  *)
(* on a fresh store and a thread of its own, resumes it with the case's    *)
(* decision, and scores it with the checks of evals/e2e_checks.py.         *)
(*                                                                         *)
(* The case at position k runs on thread k with request k.  Urgency and    *)
(* the wording of a reply are read by the checks only, so they are chosen  *)
(* when a case is scored: a reply is complete, misses a required fact, or  *)
(* states a forbidden one.                                                 *)
(***************************************************************************)
EXTENDS CaseGraph

CONSTANT Benchmarks    \* the sequences of cases that may be run

Urgencies == {"low", "medium", "high"}

PolicyCodes == {"NOT_APPLICABLE", "ORDER_REQUIRED", "ORDER_STATUS_INFO", "CANCEL_ALLOWED",
                "CANCEL_BLOCKED_STATUS", "ADDRESS_CHANGE_ALLOWED",
                "ADDRESS_CHANGE_BLOCKED_STATUS", "ALREADY_REFUNDED",
                "REFUND_REVIEW_REQUIRED", "BILLING_REVIEW_REQUIRED",
                "PRODUCT_REVIEW_REQUIRED"}

InvestigationTypes == {"investigate_billing", "investigate_product_issue"}

\* A reference id is a function of the investigation and its order.
ReferenceIds == InvestigationTypes \X Orders

\* Which fields of an order a case changes; the others must keep their value.
ExpectedMutations == [order_id                  : Orders,
                      status                    : Optional(OrderStatuses),
                      payment_status            : Optional(PaymentStatuses),
                      shipping_address_contains : Optional(Addresses),
                      reference_id              : Optional(ReferenceIds)]

\* A case of the benchmark; an expectation that is None is not checked.
EvalCases ==
    [customer_id                      : CustomerIds,
     customer_message                 : Messages,
     expected_intent                  : Optional(Intents),
     expected_urgency                 : Optional(Urgencies),
     expected_order_resolution_status : Optional({"selected", "not_required",
                                                  "needs_clarification"}),
     expected_selected_order_id       : Optional(Orders),
     expected_policy_outcome          : Optional(PolicyOutcomes),
     expected_policy_code             : Optional(PolicyCodes),
     expected_requires_human_approval : Optional(BOOLEAN),
     expected_route                   : Optional(CaseRoutes),
     expected_proposed_action         : Optional(ProposedActions),
     human_decision                   : Optional(Decisions),
     expected_final_workflow_status   : Optional(WorkflowStatuses),
     expected_mutation                : Optional(ExpectedMutations)]

Metrics == {"intent", "urgency", "order_resolution", "policy", "route",
            "proposed_action", "approval_behavior", "mutation",
            "final_state", "response"}

\* What the curated cases observe and the checks rely on: a case expects a
\* mutation of its own customer's order, and one that expects an approved
\* investigation declares its reference id.
WellDeclared(case) ==
    LET expected == case.expected_mutation
        proposed == case.expected_proposed_action
    IN  /\ expected # None => OwnerOf[expected.order_id] = case.customer_id
        /\ /\ proposed # None /\ case.human_decision = "approved"
           /\ proposed.action_type \in InvestigationTypes
           => expected # None /\ expected.reference_id # None

\* The runner's graph reads the store it mutates, and each case has a thread
\* and a request of its own.
ASSUME RunnerAssumption ==
    /\ Benchmarks \subseteq Seq(EvalCases)
    /\ \A cases \in Benchmarks :
          /\ DOMAIN cases \subseteq Threads \cap Requests
          /\ \A k \in DOMAIN cases : WellDeclared(cases[k])
    /\ SharedStore /\ ~ReuseThreads
    /\ None \notin CaseStates \cup ExpectedMutations \cup ReferenceIds
    /\ None \notin [Metrics -> [applicable : BOOLEAN, passed : BOOLEAN]]

VARIABLES
    benchmark,       \* the cases of this evaluation
    stage,           \* where run_single_case is
    orders_before,   \* the customer's orders before the graph ran
    pre_approval,    \* the interrupted result and its payload, if any
    results,         \* the results so far
    summary          \* what main() reports at the end

runnerVars == <<benchmark, stage, orders_before, pre_approval, results, summary>>
allVars == <<vars, runnerVars>>

ReplyKinds == {"complete", "missing_fact", "forbidden_fact"}

Position == Len(results) + 1
Case == benchmark[Position]

RunnerInit ==
    /\ Init
    /\ benchmark \in Benchmarks
    /\ stage = "fresh"
    /\ orders_before = None
    /\ pre_approval = None
    /\ results = <<>>
    /\ summary = None

-----------------------------------------------------------------------------
\* e2e_checks.py.  A check is whether its metric applies to the case and
\* whether the case passes it.

Check(applicable, passed) == [applicable |-> applicable, passed |-> passed]

\* The checks of one expected value; None means it is not checked.
CheckEqual(expected, actual) ==
    Check(expected # None, expected = None \/ actual = expected)

CheckOrderResolution(case, result) ==
    LET expected == case.expected_order_resolution_status
    IN  Check(expected # None,
              expected # None =>
                  /\ result.order_resolution.status = expected
                  /\ result.selected_order_id = case.expected_selected_order_id)

\* The policy_code of an assessment: policies.py gives one to each pair.
PolicyCode(intent, outcome) ==
    CASE outcome = "not_applicable" -> "NOT_APPLICABLE"
      [] outcome = "needs_clarification" -> "ORDER_REQUIRED"
      [] outcome = "information_only" -> "ORDER_STATUS_INFO"
      [] outcome \in {"eligible", "blocked", "review_required"} ->
            CASE intent = "cancel_order" /\ outcome = "eligible" -> "CANCEL_ALLOWED"
              [] intent = "cancel_order" /\ outcome = "blocked" -> "CANCEL_BLOCKED_STATUS"
              [] intent = "address_change" /\ outcome = "eligible" -> "ADDRESS_CHANGE_ALLOWED"
              [] intent = "address_change" /\ outcome = "blocked" -> "ADDRESS_CHANGE_BLOCKED_STATUS"
              [] intent = "refund_request" /\ outcome = "blocked" -> "ALREADY_REFUNDED"
              [] intent = "refund_request" /\ outcome = "review_required" -> "REFUND_REVIEW_REQUIRED"
              [] intent = "billing_issue" -> "BILLING_REVIEW_REQUIRED"
              [] intent = "product_issue" -> "PRODUCT_REVIEW_REQUIRED"

CheckPolicy(case, result) ==
    LET expected == case.expected_policy_outcome
        actual == result.policy_assessment
    IN  Check(expected # None,
              expected # None =>
                  /\ actual.outcome = expected
                  /\ case.expected_policy_code \in
                         {None, PolicyCode(result.intent, actual.outcome)}
                  /\ case.expected_requires_human_approval \in
                         {None, actual.requires_human_approval})

\* A proposal nobody expected fails the case without counting for the metric.
CheckProposedAction(case, result) ==
    Check(case.expected_proposed_action # None,
          result.proposed_action = case.expected_proposed_action)

CheckApprovalBehavior(case, interrupted, result) ==
    LET decision == case.human_decision
        pre == pre_approval
    IN  Check(decision # None,
              IF decision = None THEN ~interrupted
              ELSE /\ interrupted
                   /\ pre.action_result = None /\ pre.final_response = None
                   /\ result.human_decision = decision
                   /\ decision = "approved" <=> result.action_result # None)

\* What an investigation returns, as a pair; None for the other operations.
ReferenceId(action_result) ==
    IF action_result # None /\ action_result.action_type \in InvestigationTypes
    THEN <<action_result.action_type, action_result.order_id>> ELSE None

\* The orders are compared in the final order_context, not in the store.
CheckMutation(case, result) ==
    LET expected == case.expected_mutation
        after == result.order_context
        Expected(field, before) == IF field = None THEN before ELSE field
    IN  Check(TRUE,
              /\ after # None
              /\ \A o \in DOMAIN orders_before :
                    /\ o \in DOMAIN after
                    /\ IF expected = None \/ expected.order_id # o
                       THEN after[o] = orders_before[o]
                       ELSE after[o] =
                              [status |-> Expected(expected.status, orders_before[o].status),
                               payment_status |-> Expected(expected.payment_status,
                                                           orders_before[o].payment_status),
                               shipping_address |-> Expected(expected.shipping_address_contains,
                                                             orders_before[o].shipping_address)]
              /\ expected # None /\ expected.reference_id # None =>
                    ReferenceId(result.action_result) = expected.reference_id)

CheckResponse(result, reply) ==
    Check(TRUE, result.final_response # None /\ reply = "complete")

ComponentResults(case, interrupted, result, urgency, reply) ==
    [intent            |-> CheckEqual(case.expected_intent, result.intent),
     urgency           |-> CheckEqual(case.expected_urgency, urgency),
     order_resolution  |-> CheckOrderResolution(case, result),
     policy            |-> CheckPolicy(case, result),
     route             |-> CheckEqual(case.expected_route, result.route),
     proposed_action   |-> CheckProposedAction(case, result),
     approval_behavior |-> CheckApprovalBehavior(case, interrupted, result),
     mutation          |-> CheckMutation(case, result),
     final_state       |-> CheckEqual(case.expected_final_workflow_status,
                                      result.workflow_status),
     response          |-> CheckResponse(result, reply)]

-----------------------------------------------------------------------------
\* e2e_runner.py.

\* Mutant: the interrupted result outlives its case.
MutantReport(result) ==
    /\ results' = Append(results, result)
    /\ stage' = "fresh"
    /\ orders_before' = None
    /\ UNCHANGED <<benchmark, pre_approval, summary>>

\* run_single_case returns; its local variables are gone.
Report(result) ==
    /\ results' = Append(results, result)
    /\ stage' = "fresh"
    /\ orders_before' = None
    /\ pre_approval' = None
    /\ UNCHANGED <<benchmark, summary>>

\* The result of a case that raised, before what is known of it is filled in.
FailedResult ==
    [passed |-> FALSE, component_results |-> None, actual_intent |-> None,
     actual_urgency |-> None, actual_route |-> None, actual_final_status |-> None,
     actual_final_response |-> None, infra_error |-> FALSE]

AtStage(s) == Position \in DOMAIN benchmark /\ stage = s

\* Mutant: the cases share one store.
MutantSetUp ==
    /\ AtStage("fresh")
    /\ store' = IF results = <<>> THEN FreshStore(catalog) ELSE store
    /\ IF Case.customer_id \in Customers
       THEN /\ stage' = "ready"
            /\ orders_before' = [o \in OwnedBy(Case.customer_id) |-> store'.orders[o]]
            /\ UNCHANGED <<benchmark, pre_approval, results, summary>>
       ELSE Report([FailedResult EXCEPT !.infra_error = TRUE])
    /\ UNCHANGED <<state, next, run, resume, interrupts, catalog,
                   submitted, reviews, journal, replies>>

\* A store and a graph of its own for the case; an unknown customer has no
\* orders to compare with later.
SetUp ==
    /\ AtStage("fresh")
    /\ store' = FreshStore(catalog)
    /\ IF Case.customer_id \in Customers
       THEN /\ stage' = "ready"
            /\ orders_before' = [o \in OwnedBy(Case.customer_id) |-> store'.orders[o]]
            /\ UNCHANGED <<benchmark, pre_approval, results, summary>>
       ELSE Report([FailedResult EXCEPT !.infra_error = TRUE])
    /\ UNCHANGED <<state, next, run, resume, interrupts, catalog,
                   submitted, reviews, journal, replies>>

\* The models' clients, the store's fixture and the graph are made outside any
\* try: what they raise ends the benchmark.
SetUpRaised ==
    /\ AtStage("fresh")
    /\ stage' = "aborted"
    /\ UNCHANGED <<vars, benchmark, orders_before, pre_approval, results, summary>>

InvokeCase ==
    /\ AtStage("ready")
    /\ Invoke(Position, Position, Case.customer_id, Case.customer_message)
    /\ stage' = "invoked"
    /\ UNCHANGED <<benchmark, orders_before, pre_approval, results, summary>>

\* The runner waits while the graph runs.
GraphRuns ==
    /\ AtStage("invoked") \/ AtStage("resumed")
    /\ GraphStep(Position)
    /\ UNCHANGED runnerVars

\* Mutant: an exception of the invoke is not caught.
MutantInvokeRaised ==
    /\ AtStage("invoked")
    /\ Raised(Position)
    /\ stage' = "aborted"
    /\ UNCHANGED <<vars, benchmark, orders_before, pre_approval, results, summary>>

InvokeRaised ==
    /\ AtStage("invoked")
    /\ Raised(Position)
    /\ Report(FailedResult)
    /\ UNCHANGED vars

Paused == run[Position] = "paused"

ResumeCase ==
    /\ AtStage("invoked")
    /\ Paused /\ Case.human_decision # None
    /\ Resume(Position, Case.human_decision)
    /\ stage' = "resumed"
    /\ pre_approval' = state[Position]
    /\ UNCHANGED <<benchmark, orders_before, results, summary>>

\* What was known when the graph paused is reported.
ResumeRaised ==
    /\ AtStage("resumed")
    /\ Raised(Position)
    /\ \E urgency \in Urgencies :
          Report([FailedResult EXCEPT !.actual_intent = pre_approval.intent,
                                      !.actual_urgency = urgency,
                                      !.actual_route = pre_approval.route])
    /\ UNCHANGED vars

\* An invoke that paused although the case has no decision is scored as it is.
Score ==
    LET result == state[Position]
        interrupted == pre_approval # None \/ Paused
    IN  /\ \/ AtStage("invoked") /\ ~(Paused /\ Case.human_decision # None)
           \/ AtStage("resumed")
        /\ run[Position] \in {"returned", "paused"}
        /\ \E urgency \in Urgencies,
              reply \in IF result.final_response = None THEN {None} ELSE ReplyKinds :
              LET components ==
                      ComponentResults(Case, interrupted, result, urgency, reply)
              IN  Report([passed |-> \A name \in DOMAIN components : components[name].passed,
                          component_results     |-> components,
                          actual_intent         |-> result.intent,
                          actual_urgency        |-> urgency,
                          actual_route          |-> result.route,
                          actual_final_status   |-> result.workflow_status,
                          actual_final_response |-> reply,
                          infra_error           |-> FALSE])
        /\ UNCHANGED vars

-----------------------------------------------------------------------------
\* _summarize, and the exit code of run_e2e_evals.py.

\* A case that raised has no component results.
Counted(name) ==
    {k \in DOMAIN results : /\ results[k].component_results # None
                            /\ results[k].component_results[name].applicable}

MetricAccuracy(name) ==
    [applicable_count |-> Cardinality(Counted(name)),
     passed_count |-> Cardinality({k \in Counted(name) :
                                      results[k].component_results[name].passed})]

\* Mutant: a case passes unless one of its components failed.
MutantOverallPassCount ==
    Cardinality({k \in DOMAIN results :
        LET components == results[k].component_results
        IN  components # None =>
                \A name \in DOMAIN components : components[name].passed})

OverallPassCount == Cardinality({k \in DOMAIN results : results[k].passed})

Summarize ==
    /\ stage = "fresh" /\ Len(results) = Len(benchmark)
    /\ summary = None
    /\ summary' = [metric_accuracies |-> [name \in Metrics |-> MetricAccuracy(name)],
                   exit_code |-> IF OverallPassCount = Len(results) THEN 0 ELSE 1]
    /\ UNCHANGED <<vars, benchmark, stage, orders_before, pre_approval, results>>

-----------------------------------------------------------------------------
RunnerNext ==
    \/ SetUp
    \/ SetUpRaised
    \/ InvokeCase
    \/ GraphRuns
    \/ InvokeRaised
    \/ ResumeCase
    \/ ResumeRaised
    \/ Score
    \/ Summarize

\* The runner is one thread, and a call of a model returns or raises.
RunnerSpec == RunnerInit /\ [][RunnerNext]_allVars /\ WF_allVars(RunnerNext)

-----------------------------------------------------------------------------
\* Properties.

Results == [passed                : BOOLEAN,
            component_results     : Optional([Metrics -> [applicable : BOOLEAN,
                                                          passed : BOOLEAN]]),
            actual_intent         : Optional(Intents),
            actual_urgency        : Optional(Urgencies),
            actual_route          : Optional(CaseRoutes),
            actual_final_status   : Optional(WorkflowStatuses),
            actual_final_response : Optional(ReplyKinds),
            infra_error           : BOOLEAN]

\* run_single_case has set its case up and has not returned.
CaseStages == {"ready", "invoked", "resumed"}

\* The runner's variables keep to their types, and its locals to their case.
RunnerTypeOK ==
    /\ benchmark \in Benchmarks
    /\ stage \in CaseStages \cup {"fresh", "aborted"}
    /\ orders_before # None <=> stage \in CaseStages
    /\ pre_approval # None <=> stage = "resumed"
    /\ results \in Seq(Results) /\ Len(results) <= Len(benchmark)
    /\ summary # None => stage = "fresh" /\ summary.exit_code \in {0, 1}

\* The store the case is expected to leave: the fixture with the expected
\* mutation, and with the investigation whose reference id is expected.
ExpectedStore(case) ==
    LET expected == case.expected_mutation
        Expected(field, before) == IF field = None THEN before ELSE field
        Investigated(action) ==
            {o \in Orders : expected # None /\ expected.reference_id = <<action, o>>}
    IN  [orders |-> [o \in Orders |->
            IF expected = None \/ expected.order_id # o THEN catalog[o]
            ELSE [status |-> Expected(expected.status, catalog[o].status),
                  payment_status |-> Expected(expected.payment_status,
                                              catalog[o].payment_status),
                  shipping_address |-> Expected(expected.shipping_address_contains,
                                                catalog[o].shipping_address)]],
         billing |-> Investigated("investigate_billing"),
         product |-> Investigated("investigate_product_issue")]

\* A passed case left the whole store as expected: every order of every
\* customer, and the investigations.  The checks only read the graph's final
\* state, and of that the customer's own orders.
PassMeansStore ==
    LET k == Len(results)
    IN  stage = "fresh" /\ k > 0 /\ results[k].passed =>
            store = ExpectedStore(benchmark[k])

\* The models did what the case expects of them, and nothing raised.
ModelsAsExpected(k) ==
    LET case == benchmark[k]
        expected == case.expected_mutation
    IN  /\ run[k] = "returned"
        /\ state[k].intent = case.expected_intent
        /\ results[k].actual_urgency = case.expected_urgency
        /\ results[k].actual_final_response = "complete"
        /\ state[k].action_input # None =>
              state[k].action_input.new_shipping_address =
                  IF expected = None THEN None ELSE expected.shipping_address_contains

\* Every curated case is right about the deterministic workflow: with the
\* expected classification, extraction and reply it passes, whichever case
\* ran before it.
FaithfulModelPasses ==
    \A k \in DOMAIN results : ModelsAsExpected(k) => results[k].passed

\* The field that declares a metric's expectation; the others are always
\* checked.
DeclaredBy ==
    [intent |-> "expected_intent", urgency |-> "expected_urgency",
     order_resolution |-> "expected_order_resolution_status",
     policy |-> "expected_policy_outcome", route |-> "expected_route",
     proposed_action |-> "expected_proposed_action",
     approval_behavior |-> "human_decision",
     final_state |-> "expected_final_workflow_status"]

Declared(name) ==
    {k \in DOMAIN benchmark :
        name \in DOMAIN DeclaredBy => benchmark[k][DeclaredBy[name]] # None}

\* A green exit code means every case ran to its end and every expectation
\* of the benchmark was counted and met: a case that raised or was left
\* paused is not lost between the metrics.
GreenMeansEverythingChecked ==
    summary # None /\ summary.exit_code = 0 =>
        /\ \A k \in DOMAIN benchmark : run[k] = "returned"
        /\ \A name \in Metrics : summary.metric_accuracies[name] =
              [applicable_count |-> Cardinality(Declared(name)),
               passed_count     |-> Cardinality(Declared(name))]

\* A case that was set up gets its result, whatever the graph or a model raises
\* in it, and the benchmark ends: with its summary, or where making a store, a
\* graph or a client raised.
BenchmarkEnds ==
    /\ stage \in CaseStages ~> stage = "fresh"
    /\ <>(summary # None \/ stage = "aborted")

-----------------------------------------------------------------------------
\* What the code's own documentation says and the code does not do.

\* e2e_runner.py:10-16: a malformed case is "allowed to raise and fail fast,
\* since silently continuing past a broken setup would make every subsequent
\* result meaningless".  Stated of the results: none follows that of a case
\* whose setup failed.
BrokenSetupFailsFast ==
    \A k \in DOMAIN results : results[k].infra_error => k = Len(results)

=============================================================================
