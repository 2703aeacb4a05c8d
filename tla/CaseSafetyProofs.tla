-------------------------- MODULE CaseSafetyProofs --------------------------
(***************************************************************************)
(* Type correctness and safety of CaseGraph for any number of threads,     *)
(* requests, orders and customers, any fixture, any answers of the OpenAI  *)
(* calls, shared or separate stores, threads reused or not.                *)
(*                                                                         *)
(* TypeOK is not inductive: nodes read channels an earlier node must have  *)
(* set.  TypeInv adds what each node finds in its checkpoint.              *)
(*                                                                         *)
(* Three inductive invariants over TypeInv: ReviewInv ties a thread's      *)
(* pending operation to the reviews it got, EffectInv ties a thread's      *)
(* journal to the requests submitted on it, and DecidedInv says where a    *)
(* thread can be once the request it serves is decided.                    *)
(***************************************************************************)
EXTENDS CaseGraph, RuleProofs

-----------------------------------------------------------------------------
\* Type correctness.

BeforeContext == {"START", "intake", "classify_request", "load_context"}

NeedInput == {"human_approval", "execute_safe_action", "execute_approved_action"}

NeedProposal == NeedInput \cup {"prepare_action_input", "prepare_approval_input"}

\* The channels node n reads without a check are present in s.
Ready(s, n) ==
    /\ n \notin {"START", "intake"} => s.request_id # None
    /\ n \notin BeforeContext => s.order_context # None
    /\ n \in NeedProposal => s.proposed_action # None
    /\ n \in NeedInput => s.action_input # None

ChannelsReady ==
    \A t \in Threads :
        /\ Ready(state[t], next[t])
        /\ run[t] = "paused" => next[t] = "human_approval" /\ interrupts[t] # None

TypeInv == TypeOK /\ ChannelsReady

USE DEF Optional

CheckpointTypes ==
    /\ state \in [Threads -> CaseStates]
    /\ next \in [Threads -> Nodes \cup {"START", "END"}]
    /\ run \in [Threads -> {"new", "running", "paused", "returned"} \cup Errors]

\* A committed superstep keeps the checkpoints typed and ready if its update
\* is well typed and ready for its successor.
LEMMA CommitReady ==
    ASSUME TypeInv, NEW t \in Threads, NEW s \in CaseStates,
           NEW n \in Nodes \cup {"END"}, Ready(s, n), Commit(t, s, n),
           \A u \in Threads \ {t} : interrupts'[u] = interrupts[u]
    PROVE  CheckpointTypes' /\ ChannelsReady'
<1>1. CheckpointTypes'
  BY DEF TypeInv, TypeOK, CheckpointTypes, Commit
<1>2. ChannelsReady'
  <2> SUFFICES ASSUME NEW u \in Threads
               PROVE  /\ Ready(state[u], next[u])'
                      /\ (run[u] = "paused" =>
                             next[u] = "human_approval" /\ interrupts[u] # None)'
    BY DEF ChannelsReady
  <2>1. CASE u = t
    <3>1. state'[u] = s /\ next'[u] = n /\ run'[u] # "paused"
      BY <2>1 DEF TypeInv, TypeOK, Commit
    <3>2. QED
      BY <3>1 DEF Ready
  <2>2. CASE u # t
    <3>1. /\ state'[u] = state[u] /\ next'[u] = next[u] /\ run'[u] = run[u]
          /\ interrupts'[u] = interrupts[u]
      BY <2>2 DEF TypeInv, TypeOK, Commit
    <3>2. QED
      BY <3>1 DEF TypeInv, ChannelsReady, Ready
  <2>3. QED
    BY <2>1, <2>2
<1>3. QED
  BY <1>1, <1>2

\* An exception leaves every checkpoint as it was.
LEMMA RaiseReady ==
    ASSUME TypeInv, NEW t \in Threads, NEW e \in Errors, Raise(t, e),
           interrupts' = interrupts
    PROVE  CheckpointTypes' /\ ChannelsReady'
<1>1. e \notin {"running", "paused"}
  BY DEF Errors, ExpectedErrors, CorruptionErrors
<1>2. CheckpointTypes'
  BY DEF TypeInv, TypeOK, CheckpointTypes, Raise
<1>3. ChannelsReady'
  BY <1>1 DEF TypeInv, TypeOK, ChannelsReady, Ready, Raise
<1>4. QED
  BY <1>2, <1>3

LEMMA CommitKeepsTypes ==
    ASSUME TypeInv, NEW t \in Threads, NEW s \in CaseStates,
           NEW n \in Nodes \cup {"END"}, Ready(s, n),
           Commit(t, s, n), OnlyCheckpoint
    PROVE  TypeInv'
<1>1. CheckpointTypes' /\ ChannelsReady'
  BY CommitReady DEF OnlyCheckpoint
<1>2. TypeOK'
  BY <1>1 DEF TypeInv, TypeOK, CheckpointTypes, OnlyCheckpoint, history
<1>3. QED
  BY <1>1, <1>2 DEF TypeInv

LEMMA RaiseKeepsTypes ==
    ASSUME TypeInv, NEW t \in Threads, NEW e \in Errors,
           Raise(t, e), OnlyCheckpoint
    PROVE  TypeInv'
<1>1. CheckpointTypes' /\ ChannelsReady'
  BY RaiseReady DEF OnlyCheckpoint
<1>2. TypeOK'
  BY <1>1 DEF TypeInv, TypeOK, CheckpointTypes, OnlyCheckpoint, history
<1>3. QED
  BY <1>1, <1>2 DEF TypeInv

LEMMA SettleKeepsTypes ==
    ASSUME TypeInv, NEW t \in Threads, NEW fails \in BOOLEAN, NEW e \in Errors,
           NEW s, NEW n,
           ~fails => s \in CaseStates /\ n \in Nodes \cup {"END"} /\ Ready(s, n),
           Settle(t, fails, e, s, n), OnlyCheckpoint
    PROVE  TypeInv'
  BY CommitKeepsTypes, RaiseKeepsTypes DEF Settle

\* Recording a status and an audit event changes no other channel.
LEMMA LoggedFrame ==
    ASSUME NEW s \in CaseStates, NEW status, NEW step
    PROVE  LET l == Logged(s, status, step)
           IN  /\ l.request_id = s.request_id
               /\ l.customer_id = s.customer_id
               /\ l.customer_message = s.customer_message
               /\ l.order_context = s.order_context
               /\ l.selected_order_id = s.selected_order_id
               /\ l.proposed_action = s.proposed_action
               /\ l.action_input = s.action_input
               /\ l.human_decision = s.human_decision
  BY DEF Logged, CaseStates

LEMMA AuditLogType ==
    ASSUME NEW s \in CaseStates, NEW log \in Seq(AuditSteps)
    PROVE  [s EXCEPT !.audit_log = log] \in CaseStates
  BY SMTT(60) DEF CaseStates

LEMMA LoggedType ==
    ASSUME NEW s \in CaseStates, NEW status \in WorkflowStatuses, NEW step \in AuditSteps
    PROVE  Logged(s, status, step) \in CaseStates
<1>1. Append(s.audit_log, step) \in Seq(AuditSteps)
  BY DEF CaseStates
<1>2. [s EXCEPT !.workflow_status = status] \in CaseStates
  BY DEF CaseStates
<1>3. QED
  BY <1>1, <1>2, AuditLogType, Zenon DEF Logged

LEMMA LoggedReady ==
    ASSUME NEW s \in CaseStates, NEW n, Ready(s, n), NEW status, NEW step
    PROVE  Ready(Logged(s, status, step), n)
  BY LoggedFrame DEF Ready

-----------------------------------------------------------------------------
\* The nodes before the routes split.

LEMMA IntakeTypes ==
    ASSUME TypeInv, NEW t \in Threads, Intake(t)
    PROVE  TypeInv'
<1> DEFINE s == state[t]
           fails == \/ s.request_id = None
                    \/ s.customer_id = None
                    \/ s.customer_message = None
           update == Logged(s, "received", "intake")
<1>1. s \in CaseStates
  BY DEF TypeInv, TypeOK
<1>2. update \in CaseStates
  BY <1>1, LoggedType DEF WorkflowStatuses, AuditSteps
<1>3. ~fails => Ready(update, "classify_request")
  BY <1>1, LoggedReady DEF Ready, BeforeContext, NeedProposal, NeedInput
<1>4. Settle(t, fails, "InvalidCustomerRequest", update, "classify_request")
      /\ OnlyCheckpoint
  BY DEF Intake
<1>5. QED
  BY <1>2, <1>3, <1>4, SettleKeepsTypes DEF Nodes, Errors, ExpectedErrors

LEMMA ClassifyTypes ==
    ASSUME TypeInv, NEW t \in Threads, ClassifyRequest(t)
    PROVE  TypeInv'
<1> DEFINE s == state[t]
           intended(intent) == [s EXCEPT !.intent = intent]
           update(intent) == Logged(intended(intent), "classified", "classification")
<1>1. s \in CaseStates /\ Ready(s, "classify_request")
  BY DEF TypeInv, TypeOK, ChannelsReady, ClassifyRequest, At
<1>2. ASSUME NEW intent \in Classifications
      PROVE  update(intent) \in CaseStates /\ Ready(update(intent), "load_context")
  <2>1. intended(intent) \in CaseStates
    BY <1>1, GraphAssumption DEF CaseStates
  <2>2. Ready(intended(intent), "load_context")
    BY <1>1 DEF Ready, BeforeContext, NeedProposal, NeedInput, CaseStates
  <2>3. QED
    BY <2>1, <2>2, LoggedType, LoggedReady DEF WorkflowStatuses, AuditSteps
<1>3. CASE \E intent \in Classifications : Commit(t, update(intent), "load_context")
  BY <1>2, <1>3, CommitKeepsTypes DEF ClassifyRequest, Nodes
<1>4. CASE Raise(t, "ClassificationError")
  BY <1>4, RaiseKeepsTypes DEF ClassifyRequest, Errors, ExpectedErrors
<1>5. QED
  BY <1>3, <1>4 DEF ClassifyRequest

\* Only orders of the fixture, with records of the store, are loaded.
LEMMA OrdersOfCustomerType ==
    ASSUME TypeOK, NEW c \in Customers
    PROVE  OrdersOfCustomer(c) \in OrderContexts
<1>1. store.orders \in [Orders -> OrderRecords] /\ catalog \in [Orders -> OrderRecords]
  BY DEF TypeOK, Stores
<1>2. OrdersOfCustomer(c) \in [OwnedBy(c) -> OrderRecords]
  BY <1>1 DEF OrdersOfCustomer, OwnedBy
<1>3. QED
  BY <1>2 DEF OrderContexts

LEMMA OrderContextShape ==
    ASSUME NEW context \in OrderContexts
    PROVE  DOMAIN context \subseteq Orders /\ context \in [DOMAIN context -> OrderRecords]
<1>1. PICK c \in Customers : context \in [OwnedBy(c) -> OrderRecords]
  BY DEF OrderContexts
<1>2. QED
  BY <1>1 DEF OwnedBy

LEMMA LoadContextTypes ==
    ASSUME TypeInv, NEW t \in Threads, LoadContext(t)
    PROVE  TypeInv'
<1> DEFINE s == state[t]
           loaded == [s EXCEPT !.order_context = OrdersOfCustomer(s.customer_id)]
           update == Logged(loaded, "context_loaded", "context_loading")
<1>1. s \in CaseStates /\ Ready(s, "load_context")
  BY DEF TypeInv, TypeOK, ChannelsReady, LoadContext, At
<1>2. CASE s.customer_id \notin Customers
  <2>1. Raise(t, "CustomerNotFoundError") /\ OnlyCheckpoint
    BY <1>2 DEF LoadContext, Settle
  <2>2. QED
    BY <2>1, RaiseKeepsTypes DEF Errors, ExpectedErrors
<1>3. CASE s.customer_id \in Customers
  <2>1. OrdersOfCustomer(s.customer_id) \in OrderContexts
    BY <1>3, OrdersOfCustomerType DEF TypeInv
  <2>2. loaded \in CaseStates
    BY <1>1, <2>1 DEF CaseStates
  <2>3. Ready(loaded, "resolve_order")
    BY <1>1, <2>1, AbsentAssumption
       DEF Ready, BeforeContext, NeedProposal, NeedInput, CaseStates
  <2>4. update \in CaseStates /\ Ready(update, "resolve_order")
    BY <2>2, <2>3, LoggedType, LoggedReady DEF WorkflowStatuses, AuditSteps
  <2>5. Settle(t, s.customer_id \notin Customers, "CustomerNotFoundError",
               update, "resolve_order")
        /\ OnlyCheckpoint
    BY DEF LoadContext
  <2>6. QED
    BY <2>4, <2>5, SettleKeepsTypes DEF Nodes, Errors, ExpectedErrors
<1>4. QED
  BY <1>2, <1>3


LEMMA ResolveOrderNodeTypes ==
    ASSUME TypeInv, NEW t \in Threads, ResolveOrderNode(t)
    PROVE  TypeInv'
<1> DEFINE s == state[t]
           resolution == ResolveOrder(s.intent, s.customer_message, s.order_context)
           selected == [s EXCEPT !.selected_order_id = resolution.selected_order_id]
           resolved == [s EXCEPT !.selected_order_id = resolution.selected_order_id,
                                 !.order_resolution = resolution]
           update == Logged(resolved, "order_resolved", "order_resolution")
<1>1. s \in CaseStates /\ Ready(s, "resolve_order")
  BY DEF TypeInv, TypeOK, ChannelsReady, ResolveOrderNode, At
<1>2. resolution \in Resolutions
  BY ResolveOrderType
<1>3. resolved \in CaseStates
  <2>1. selected \in CaseStates
    BY <1>1, <1>2 DEF CaseStates, Resolutions
  <2>2. ASSUME NEW x \in CaseStates
        PROVE  [x EXCEPT !.order_resolution = resolution] \in CaseStates
    BY <1>2 DEF CaseStates
  <2>3. QED
    BY <2>1, <2>2, Zenon
<1>4. Ready(resolved, "evaluate_policy")
  BY <1>1 DEF Ready, BeforeContext, NeedProposal, NeedInput, CaseStates
<1>5. update \in CaseStates /\ Ready(update, "evaluate_policy")
  BY <1>3, <1>4, LoggedType, LoggedReady DEF WorkflowStatuses, AuditSteps
<1>6. Settle(t, ResolutionFails(s.intent, s.order_context), "OrderResolutionError",
             update, "evaluate_policy")
      /\ OnlyCheckpoint
  BY DEF ResolveOrderNode
<1>7. ResolutionFails(s.intent, s.order_context) \in BOOLEAN
  BY DEF ResolutionFails
<1>8. QED
  BY <1>5, <1>6, <1>7, SettleKeepsTypes DEF Nodes, Errors, CorruptionErrors


\* Every outcome leads to a node of the graph.
LEMMA BranchNodeType ==
    ASSUME NEW assessment \in Assessments
    PROVE  BranchNode[DetermineCaseRoute(assessment)] \in
               {"clarification", "information", "propose_action",
                "prepare_approval", "blocked"}
  BY DEF BranchNode, DetermineCaseRoute, RouteByOutcome, Assessments, PolicyOutcomes

LEMMA EvaluatePolicyNodeTypes ==
    ASSUME TypeInv, NEW t \in Threads, EvaluatePolicyNode(t)
    PROVE  TypeInv'
<1> DEFINE s == state[t]
           assessment == EvaluatePolicy(s.intent, s.order_resolution, s.order_context)
           policyFails == PolicyFails(s.intent, s.order_resolution, s.order_context)
           routingFails == RoutingFails(s.intent, s.order_resolution, assessment)
           error == IF policyFails THEN "PolicyEvaluationError" ELSE "RoutingError"
           assessed == [s EXCEPT !.policy_assessment = assessment]
           update == Logged(assessed, "policy_checked", "policy_evaluation")
           branch == BranchNode[DetermineCaseRoute(assessment)]
<1>1. s \in CaseStates /\ Ready(s, "evaluate_policy")
  BY DEF TypeInv, TypeOK, ChannelsReady, EvaluatePolicyNode, At
<1>2. ASSUME ~policyFails
      PROVE  update \in CaseStates /\ branch \in Nodes /\ Ready(update, branch)
  <2>1. assessment \in Assessments
    BY <1>2, EvaluatePolicyType
  <2>2. assessed \in CaseStates
    BY <1>1, <2>1 DEF CaseStates
  <2>3. branch \in {"clarification", "information", "propose_action",
                    "prepare_approval", "blocked"}
    BY <2>1, BranchNodeType
  <2>4. Ready(assessed, branch)
    BY <1>1, <2>3 DEF Ready, BeforeContext, NeedProposal, NeedInput, CaseStates
  <2>5. QED
    BY <2>2, <2>3, <2>4, LoggedType, LoggedReady DEF WorkflowStatuses, AuditSteps, Nodes
<1>3. Settle(t, policyFails \/ routingFails, error, update, branch) /\ OnlyCheckpoint
  BY DEF EvaluatePolicyNode
<1>4. (policyFails \/ routingFails) \in BOOLEAN
  BY DEF PolicyFails, RoutingFails
<1>5. error \in Errors
  BY DEF Errors, CorruptionErrors
<1>6. QED
  BY <1>2, <1>3, <1>4, <1>5, SettleKeepsTypes

-----------------------------------------------------------------------------
\* The branches that change nothing.

\* The three of them differ only in the labels they record.
LEMMA LabelTypes ==
    ASSUME TypeInv, NEW t \in Threads, At(t, "clarification") \/ At(t, "information")
                                          \/ At(t, "blocked"),
           NEW route \in CaseRoutes, NEW status \in WorkflowStatuses,
           NEW step \in AuditSteps,
           Commit(t, Logged([state[t] EXCEPT !.route = route], status, step),
                  "final_response"),
           OnlyCheckpoint
    PROVE  TypeInv'
<1> DEFINE routed == [state[t] EXCEPT !.route = route]
<1>1. state[t] \in CaseStates /\ Ready(state[t], next[t])
  BY DEF TypeInv, TypeOK, ChannelsReady
<1>2. routed \in CaseStates
  BY <1>1 DEF CaseStates
<1>3. Ready(routed, "final_response")
  BY <1>1 DEF At, Ready, BeforeContext, NeedProposal, NeedInput, CaseStates
<1>4. Logged(routed, status, step) \in CaseStates
      /\ Ready(Logged(routed, status, step), "final_response")
  BY <1>2, <1>3, LoggedType, LoggedReady
<1>5. QED
  BY <1>4, CommitKeepsTypes DEF Nodes

LEMMA ClarificationTypes ==
    ASSUME TypeInv, NEW t \in Threads, Clarification(t)
    PROVE  TypeInv'
  BY LabelTypes DEF Clarification, CaseRoutes, WorkflowStatuses, AuditSteps

LEMMA InformationTypes ==
    ASSUME TypeInv, NEW t \in Threads, Information(t)
    PROVE  TypeInv'
  BY LabelTypes DEF Information, CaseRoutes, WorkflowStatuses, AuditSteps

LEMMA BlockedTypes ==
    ASSUME TypeInv, NEW t \in Threads, Blocked(t)
    PROVE  TypeInv'
  BY LabelTypes DEF Blocked, CaseRoutes, WorkflowStatuses, AuditSteps

-----------------------------------------------------------------------------
\* Proposals and their inputs.

\* The two proposal nodes record a proposal under their own route.
LEMMA ProposalTypes ==
    ASSUME TypeInv, NEW t \in Threads,
           At(t, "propose_action") \/ At(t, "prepare_approval"),
           NEW route \in CaseRoutes, NEW status \in WorkflowStatuses,
           NEW step \in AuditSteps,
           NEW n \in {"prepare_action_input", "prepare_approval_input"},
           NEW fails \in BOOLEAN,
           ProposalFails(state[t].intent, state[t].selected_order_id) => fails,
           Settle(t, fails, "ActionProposalError",
                  Logged([state[t] EXCEPT
                              !.route = route,
                              !.proposed_action = ProposeAction(state[t].intent,
                                                      state[t].selected_order_id)],
                         status, step),
                  n),
           OnlyCheckpoint
    PROVE  TypeInv'
<1> DEFINE s == state[t]
           action == ProposeAction(s.intent, s.selected_order_id)
           proposed == [s EXCEPT !.route = route, !.proposed_action = action]
<1>1. s \in CaseStates /\ Ready(s, next[t])
  BY DEF TypeInv, TypeOK, ChannelsReady
<1>2. ASSUME ~fails
      PROVE  proposed \in CaseStates /\ Ready(proposed, n)
  <2>1. action \in ProposedActions
    BY <1>1, <1>2, ProposeActionType DEF CaseStates
  <2>2. [s EXCEPT !.route = route] \in CaseStates
    BY <1>1 DEF CaseStates
  <2>3. ASSUME NEW x \in CaseStates
        PROVE  [x EXCEPT !.proposed_action = action] \in CaseStates
    BY <2>1 DEF CaseStates
  <2>4. proposed \in CaseStates
    BY <2>2, <2>3, Zenon
  <2>5. Ready(proposed, n)
    BY <1>1, <2>1, AbsentAssumption
       DEF At, Ready, BeforeContext, NeedProposal, NeedInput, CaseStates
  <2>6. QED
    BY <2>4, <2>5
<1>3. QED
  BY <1>2, LoggedType, LoggedReady, SettleKeepsTypes
     DEF Nodes, Errors, CorruptionErrors

LEMMA ProposeActionNodeTypes ==
    ASSUME TypeInv, NEW t \in Threads, ProposeActionNode(t)
    PROVE  TypeInv'
<1> DEFINE s == state[t]
           fails == \/ ProposalFails(s.intent, s.selected_order_id)
                    \/ ProposeAction(s.intent, s.selected_order_id).requires_human_approval
<1>1. fails \in BOOLEAN
  BY DEF ProposalFails
<1>2. QED
  BY <1>1, ProposalTypes DEF ProposeActionNode, CaseRoutes, WorkflowStatuses, AuditSteps

LEMMA PrepareApprovalTypes ==
    ASSUME TypeInv, NEW t \in Threads, PrepareApproval(t)
    PROVE  TypeInv'
<1> DEFINE s == state[t]
           fails == \/ ProposalFails(s.intent, s.selected_order_id)
                    \/ ~ProposeAction(s.intent, s.selected_order_id).requires_human_approval
<1>1. fails \in BOOLEAN
  BY DEF ProposalFails
<1>2. QED
  BY <1>1, ProposalTypes DEF PrepareApproval, CaseRoutes, WorkflowStatuses, AuditSteps

\* Each of the two input nodes hands a complete input to the node that
\* executes it or shows it to the reviewer.
LEMMA InputTypes ==
    ASSUME TypeInv, NEW t \in Threads,
           At(t, "prepare_action_input") \/ At(t, "prepare_approval_input"),
           NEW address \in Extractions(state[t].proposed_action),
           NEW status \in WorkflowStatuses, NEW step \in AuditSteps,
           NEW n \in {"execute_safe_action", "clarification", "human_approval"},
           Commit(t, Logged([state[t] EXCEPT !.action_input =
                                 PrepareActionInput(state[t].proposed_action, address)],
                            status, step),
                  n),
           OnlyCheckpoint
    PROVE  TypeInv'
<1> DEFINE s == state[t]
           input == PrepareActionInput(s.proposed_action, address)
           prepared == [s EXCEPT !.action_input = input]
<1>1. s \in CaseStates /\ Ready(s, next[t])
  BY DEF TypeInv, TypeOK, ChannelsReady
<1>2. s.proposed_action \in ProposedActions
  BY <1>1 DEF At, Ready, NeedProposal, CaseStates
<1>3. input \in ActionInputs
  <2>1. address \in Addresses \cup {None}
    BY DEF Extractions
  <2>2. QED
    BY <1>2, <2>1, PrepareActionInputType
<1>4. prepared \in CaseStates
  BY <1>1, <1>3 DEF CaseStates
<1>5. Ready(prepared, n)
  BY <1>1, <1>3, AbsentAssumption
     DEF At, Ready, BeforeContext, NeedProposal, NeedInput, CaseStates
<1>6. QED
  BY <1>4, <1>5, LoggedType, LoggedReady, CommitKeepsTypes DEF Nodes

LEMMA PrepareActionInputNodeTypes ==
    ASSUME TypeInv, NEW t \in Threads, PrepareActionInputNode(t)
    PROVE  TypeInv'
<1>1. CASE Raise(t, "ActionInputError")
  BY <1>1, RaiseKeepsTypes DEF PrepareActionInputNode, Errors, ExpectedErrors
<1>2. CASE ~Raise(t, "ActionInputError")
  BY <1>2, InputTypes DEF PrepareActionInputNode, WorkflowStatuses, AuditSteps
<1>3. QED
  BY <1>1, <1>2

LEMMA PrepareApprovalInputTypes ==
    ASSUME TypeInv, NEW t \in Threads, PrepareApprovalInput(t)
    PROVE  TypeInv'
  BY InputTypes DEF PrepareApprovalInput, WorkflowStatuses, AuditSteps

LEMMA ApprovalRejectedTypes ==
    ASSUME TypeInv, NEW t \in Threads, ApprovalRejected(t)
    PROVE  TypeInv'
<1> DEFINE s == state[t]
           update == Logged(s, "approval_rejected", "approval_rejected")
<1>1. s \in CaseStates /\ Ready(s, "approval_rejected")
  BY DEF TypeInv, TypeOK, ChannelsReady, ApprovalRejected, At
<1>2. Ready(s, "final_response")
  BY <1>1 DEF Ready, BeforeContext, NeedProposal, NeedInput
<1>3. update \in CaseStates /\ Ready(update, "final_response")
  BY <1>1, <1>2, LoggedType, LoggedReady DEF WorkflowStatuses, AuditSteps
<1>4. QED
  BY <1>3, SettleKeepsTypes DEF ApprovalRejected, Nodes, Errors, ExpectedErrors


-----------------------------------------------------------------------------
\* The approval.

LEMMA RequestApprovalTypes ==
    ASSUME TypeInv, NEW t \in Threads, RequestApproval(t)
    PROVE  TypeInv'
<1> DEFINE s == state[t]
           request == BuildApprovalRequest(s.request_id, s.proposed_action)
<1>1. /\ next[t] = "human_approval"
      /\ s \in CaseStates /\ Ready(s, "human_approval")
  BY DEF TypeInv, TypeOK, ChannelsReady, RequestApproval, At
<1>2. CASE ApprovalFails(s)
  <2>1. Raise(t, "ApprovalError") /\ OnlyCheckpoint
    BY <1>2 DEF RequestApproval, OnlyCheckpoint
  <2>2. QED
    BY <2>1, RaiseKeepsTypes DEF Errors, ExpectedErrors
<1>3. CASE ~ApprovalFails(s)
  <2>1. s.request_id \in Requests /\ s.proposed_action \in ProposedActions
    BY <1>1 DEF Ready, NeedProposal, NeedInput, CaseStates
  <2>2. request \in ApprovalRequests(Requests)
    BY <2>1 DEF BuildApprovalRequest, ApprovalRequests, ProposedActions
  <2>3. /\ interrupts' = [interrupts EXCEPT ![t] = request]
        /\ run' = [run EXCEPT ![t] = "paused"]
        /\ UNCHANGED <<state, next, resume, store, catalog, history>>
    BY <1>3 DEF RequestApproval
  <2>4. TypeOK'
    BY <2>2, <2>3 DEF TypeInv, TypeOK, history
  <2>5. ChannelsReady'
    BY <1>1, <2>2, <2>3, AbsentAssumption DEF TypeInv, TypeOK, ChannelsReady, Ready
  <2>6. QED
    BY <2>4, <2>5 DEF TypeInv
<1>4. QED
  BY <1>2, <1>3

LEMMA ResolveApprovalTypes ==
    ASSUME TypeInv, NEW t \in Threads, ResolveApproval(t)
    PROVE  TypeInv'
<1> DEFINE s == state[t]
           decision == ParseHumanApprovalResponse(resume[t])
           decided == [s EXCEPT !.human_decision = decision]
           update == [s EXCEPT !.human_decision = decision,
                               !.audit_log = Append(@, "human_approval")]
           n == IF decision = "approved" THEN "execute_approved_action"
                                         ELSE "approval_rejected"
<1>1. s \in CaseStates /\ Ready(s, "human_approval")
  BY DEF TypeInv, TypeOK, ChannelsReady, ResolveApproval, At
<1>2. UNCHANGED <<store, catalog, history>> /\ resume' = [resume EXCEPT ![t] = None]
  BY DEF ResolveApproval
<1>3. CASE ApprovalFails(s) \/ decision = None
  <2>1. Raise(t, "ApprovalError") /\ UNCHANGED interrupts
    BY <1>3 DEF ResolveApproval
  <2>2. CheckpointTypes' /\ ChannelsReady'
    BY <2>1, RaiseReady DEF Errors, ExpectedErrors
  <2>3. TypeOK'
    BY <1>2, <2>1, <2>2 DEF TypeInv, TypeOK, CheckpointTypes, history
  <2>4. QED
    BY <2>2, <2>3 DEF TypeInv
<1>4. CASE ~(ApprovalFails(s) \/ decision = None)
  <2>1. Commit(t, update, n) /\ interrupts' = [interrupts EXCEPT ![t] = None]
    BY <1>4 DEF ResolveApproval
  <2>2. decision \in Decisions
    BY <1>4 DEF ParseHumanApprovalResponse
  <2>3. decided \in CaseStates
    BY <1>1, <2>2 DEF CaseStates
  <2>4. Append(s.audit_log, "human_approval") \in Seq(AuditSteps)
    BY <1>1 DEF CaseStates, AuditSteps
  <2>5. update \in CaseStates
    BY <2>3, <2>4, AuditLogType, Zenon
  <2>6. n \in Nodes /\ Ready(update, n)
    BY <1>1 DEF Ready, BeforeContext, NeedProposal, NeedInput, CaseStates, Nodes
  <2>7. \A u \in Threads \ {t} : interrupts'[u] = interrupts[u]
    BY <2>1 DEF TypeInv, TypeOK
  <2>8. CheckpointTypes' /\ ChannelsReady'
    BY <2>1, <2>5, <2>6, <2>7, CommitReady
  <2>9. TypeOK'
    BY <1>2, <2>1, <2>8 DEF TypeInv, TypeOK, CheckpointTypes, history
  <2>10. QED
    BY <2>8, <2>9 DEF TypeInv
<1>5. QED
  BY <1>3, <1>4


-----------------------------------------------------------------------------
\* The execution.

LEMMA ExecuteTypes ==
    ASSUME TypeInv, NEW t \in Threads,
           At(t, "execute_safe_action") \/ At(t, "execute_approved_action"),
           NEW fails, NEW approved, Execute(t, fails, approved),
           UNCHANGED <<resume, interrupts, catalog, submitted, reviews, replies>>
    PROVE  TypeInv'
<1> DEFINE s == state[t]
           stop == fails \/ ExecutionFails(s.proposed_action, s.action_input, store, approved)
           result == ExecutionResult(s.proposed_action, s.action_input)
           effect == [request_id  |-> s.request_id,
                      action_type |-> s.proposed_action.action_type,
                      order_id    |-> s.action_input.order_id,
                      new_shipping_address |-> s.action_input.new_shipping_address]
           context == WithUpdatedOrder(s.order_context, result.order_id,
                                       store'.orders[result.order_id])
           executed == [s EXCEPT !.action_result = result, !.order_context = context]
           update == Logged(executed, "action_executed", "action_execution")
<1>1. /\ s \in CaseStates
      /\ s.request_id \in Requests /\ s.order_context \in OrderContexts
      /\ s.proposed_action \in ProposedActions /\ s.action_input \in ActionInputs
  BY DEF TypeInv, TypeOK, ChannelsReady, At, Ready, BeforeContext, NeedProposal,
         NeedInput, CaseStates
<1>2. CASE stop
  <2>1. Raise(t, "ActionExecutionError") /\ OnlyCheckpoint
    BY <1>2 DEF Execute, OnlyCheckpoint, history
  <2>2. QED
    BY <2>1, RaiseKeepsTypes DEF Errors, ExpectedErrors
<1>3. CASE ~stop
  <2>1. /\ store' = ExecuteAction(s.proposed_action, s.action_input, store)
        /\ journal' = [journal EXCEPT ![t] = Append(@, effect)]
        /\ Commit(t, update, "final_response")
    BY <1>3 DEF Execute
  <2>2. store' \in Stores /\ s.action_input.order_id \in Orders
    BY <1>1, <1>3, <2>1, ExecutionType DEF TypeInv, TypeOK
  <2>3. result \in ActionResults /\ result.order_id = s.action_input.order_id
    BY <1>1, <2>2 DEF ExecutionResult, ActionResults, ProposedActions
  <2>4. effect \in Effects
    BY <1>1, <2>2 DEF Effects, ProposedActions, ActionInputs
  <2>5. context \in OrderContexts
    <3>1. PICK c \in Customers : s.order_context \in [OwnedBy(c) -> OrderRecords]
      BY <1>1 DEF OrderContexts
    <3>2. store'.orders[result.order_id] \in OrderRecords
      BY <2>2, <2>3 DEF Stores
    <3>3. context \in [OwnedBy(c) -> OrderRecords]
      BY <3>1, <3>2, WithUpdatedOrderType
    <3>4. QED
      BY <3>3 DEF OrderContexts
  <2>6. executed \in CaseStates
    <3>1. [s EXCEPT !.action_result = result] \in CaseStates
      BY <1>1, <2>3 DEF CaseStates
    <3>2. ASSUME NEW x \in CaseStates
          PROVE  [x EXCEPT !.order_context = context] \in CaseStates
      BY <2>5 DEF CaseStates
    <3>3. QED
      BY <3>1, <3>2, Zenon
  <2>7. Ready(executed, "final_response")
    BY <1>1, <2>5, AbsentAssumption, GraphAssumption
       DEF Ready, BeforeContext, NeedProposal, NeedInput, CaseStates
  <2>8. update \in CaseStates /\ Ready(update, "final_response")
    BY <2>6, <2>7, LoggedType, LoggedReady DEF WorkflowStatuses, AuditSteps
  <2>9. CheckpointTypes' /\ ChannelsReady'
    BY <2>1, <2>8, CommitReady DEF Nodes
  <2>10. journal' \in [Threads -> Seq(Effects)]
    BY <2>1, <2>4 DEF TypeInv, TypeOK
  <2>11. TypeOK'
    BY <2>2, <2>9, <2>10 DEF TypeInv, TypeOK, CheckpointTypes
  <2>12. QED
    BY <2>9, <2>11 DEF TypeInv
<1>4. QED
  BY <1>2, <1>3


-----------------------------------------------------------------------------
\* The reply.

LEMMA ResponseContextType ==
    ASSUME NEW s \in CaseStates, s.order_context # None
    PROVE  ResponseContext(s) \in ResponseContexts
<1> DEFINE o == s.selected_order_id
           status == IF o # None /\ o \in DOMAIN s.order_context
                     THEN s.order_context[o].status ELSE None
<1>1. s.order_context \in OrderContexts
  BY DEF CaseStates
<1>2. PICK c \in Customers : s.order_context \in [OwnedBy(c) -> OrderRecords]
  BY <1>1 DEF OrderContexts
<1>3. status \in Optional(OrderStatuses)
  BY <1>2 DEF OrderRecords
<1>4. QED
  BY <1>3 DEF ResponseContext, ResponseContexts, CaseStates

LEMMA FinalResponseTypes ==
    ASSUME TypeInv, NEW t \in Threads, FinalResponse(t)
    PROVE  TypeInv'
<1> DEFINE s == state[t]
           answered == [s EXCEPT !.final_response = s.request_id]
           update == Logged(answered, "completed", "final_response")
           reply == [request_id |-> s.request_id, context |-> ResponseContext(s)]
<1>1. s \in CaseStates /\ Ready(s, "final_response")
  BY DEF TypeInv, TypeOK, ChannelsReady, FinalResponse, At
<1>2. CASE Raise(t, "ResponseGenerationError") /\ UNCHANGED replies
  <2>1. OnlyCheckpoint
    BY <1>2 DEF FinalResponse, OnlyCheckpoint, history
  <2>2. QED
    BY <1>2, <2>1, RaiseKeepsTypes DEF Errors, ExpectedErrors
<1>3. CASE /\ Commit(t, update, "END")
           /\ replies' = [replies EXCEPT ![t] = Append(@, reply)]
  <2>1. answered \in CaseStates
    BY <1>1 DEF CaseStates
  <2>2. Ready(answered, "END")
    BY <1>1 DEF Ready, BeforeContext, NeedProposal, NeedInput, CaseStates
  <2>3. update \in CaseStates /\ Ready(update, "END")
    BY <2>1, <2>2, LoggedType, LoggedReady DEF WorkflowStatuses, AuditSteps
  <2>4. UNCHANGED <<resume, interrupts, store, catalog, submitted, reviews, journal>>
    BY DEF FinalResponse
  <2>5. CheckpointTypes' /\ ChannelsReady'
    BY <1>3, <2>3, <2>4, CommitReady
  <2>6. reply \in Replies
    BY <1>1, ResponseContextType DEF Replies, Ready, BeforeContext, CaseStates
  <2>7. replies' \in [Threads -> Seq(Replies)]
    BY <1>3, <2>6 DEF TypeInv, TypeOK
  <2>8. TypeOK'
    BY <2>4, <2>5, <2>7 DEF TypeInv, TypeOK, CheckpointTypes
  <2>9. QED
    BY <2>5, <2>8 DEF TypeInv
<1>4. QED
  BY <1>2, <1>3 DEF FinalResponse

-----------------------------------------------------------------------------
\* The callers.

\* An invoke starts its request on merged channels.
LEMMA SubmitStarts ==
    ASSUME TypeInv, NEW t \in Threads, Submit(t)
    PROVE  \E r \in Optional(Requests), c \in Optional(CustomerIds),
              m \in Optional(Messages), complete \in BOOLEAN :
                  StartRequest(t, r, c, m, complete)
<1> PICK r \in Optional(Requests) \cup {Omitted},
         c \in Optional(CustomerIds) \cup {Omitted},
         m \in Optional(Messages) \cup {Omitted} : Invoke(t, r, c, m)
  BY DEF Submit
<1> DEFINE s == state[t]
<1>1. /\ s.request_id \in Optional(Requests)
      /\ s.customer_id \in Optional(CustomerIds)
      /\ s.customer_message \in Optional(Messages)
  BY DEF TypeInv, TypeOK, CaseStates
<1>2. /\ Merged(r, s.request_id) \in Optional(Requests)
      /\ Merged(c, s.customer_id) \in Optional(CustomerIds)
      /\ Merged(m, s.customer_message) \in Optional(Messages)
      /\ (c \in CustomerIds /\ m \in Messages) \in BOOLEAN
  BY <1>1 DEF Merged
<1>3. StartRequest(t, Merged(r, s.request_id), Merged(c, s.customer_id),
                   Merged(m, s.customer_message), c \in CustomerIds /\ m \in Messages)
  BY DEF Invoke
<1> HIDE DEF s
<1>4. QED
  BY <1>2, <1>3

LEMMA StartTypes ==
    ASSUME TypeInv, NEW t \in Threads, NEW r \in Optional(Requests),
           NEW c \in Optional(CustomerIds), NEW m \in Optional(Messages),
           NEW complete \in BOOLEAN, StartRequest(t, r, c, m, complete)
    PROVE  TypeInv'
<1> DEFINE s == state[t]
           payload == [s EXCEPT !.request_id = r, !.customer_id = c,
                                !.customer_message = m]
<1>1. s \in CaseStates
  BY DEF TypeInv, TypeOK
<1>2. payload \in CaseStates
  <2>1. ASSUME NEW x \in CaseStates
        PROVE  /\ [x EXCEPT !.request_id = r] \in CaseStates
               /\ [x EXCEPT !.customer_id = c] \in CaseStates
               /\ [x EXCEPT !.customer_message = m] \in CaseStates
    BY DEF CaseStates
  <2>2. QED
    BY <1>1, <2>1, Zenon
<1>3. state' = [state EXCEPT ![t] = payload]
  BY DEF StartRequest, TypeInv, TypeOK
<1>4. /\ state' \in [Threads -> CaseStates]
      /\ submitted' \in [Requests -> Optional(Submissions)]
  <2>1. [thread |-> t, customer_id |-> c, customer_message |-> m, complete |-> complete]
            \in Submissions
    BY DEF Submissions
  <2>2. submitted' \in [Requests -> Optional(Submissions)]
    BY <2>1 DEF StartRequest, TypeInv, TypeOK
  <2>3. QED
    BY <1>2, <1>3, <2>2 DEF TypeInv, TypeOK
<1>5. TypeOK'
  BY <1>4 DEF StartRequest, TypeInv, TypeOK, Nodes
<1>6. ChannelsReady'
  <2> SUFFICES ASSUME NEW u \in Threads
               PROVE  /\ Ready(state[u], next[u])'
                      /\ (run[u] = "paused" =>
                             next[u] = "human_approval" /\ interrupts[u] # None)'
    BY DEF ChannelsReady
  <2>1. CASE u = t
    BY <2>1 DEF StartRequest, TypeInv, TypeOK, Ready, BeforeContext, NeedProposal, NeedInput
  <2>2. CASE u # t
    BY <1>3, <2>2 DEF StartRequest, TypeInv, TypeOK, ChannelsReady, Ready
  <2>3. QED
    BY <2>1, <2>2
<1>7. QED
  BY <1>5, <1>6 DEF TypeInv

LEMMA ResumeTypes ==
    ASSUME TypeInv, NEW t \in Threads, NEW d \in Decisions \cup {"malformed"},
           Resume(t, d)
    PROVE  TypeInv'
<1>1. interrupts[t] \in ApprovalRequests(Requests)
  BY DEF Resume, TypeInv, TypeOK, ChannelsReady
<1>2. reviews' \subseteq Reviews
  BY <1>1 DEF Resume, TypeInv, TypeOK, Reviews, ApprovalRequests
<1>3. TypeOK'
  BY <1>2 DEF Resume, TypeInv, TypeOK
<1>4. ChannelsReady'
  BY DEF Resume, TypeInv, TypeOK, ChannelsReady, Ready
<1>5. QED
  BY <1>3, <1>4 DEF TypeInv

LEMMA ResumeUnknownThreadTypes ==
    ASSUME TypeInv, NEW t \in Threads, ResumeUnknownThread(t)
    PROVE  TypeInv'
<1>1. TypeOK'
  BY DEF ResumeUnknownThread, TypeInv, TypeOK, history, Nodes
<1>2. ChannelsReady'
  BY DEF ResumeUnknownThread, TypeInv, TypeOK, ChannelsReady, Ready, BeforeContext,
         NeedProposal, NeedInput
<1>3. QED
  BY <1>1, <1>2 DEF TypeInv

-----------------------------------------------------------------------------
LEMMA InitTypes == Init => TypeInv
<1> SUFFICES ASSUME Init
             PROVE  TypeInv
  OBVIOUS
<1>1. catalog \in [Orders -> OrderRecords]
  BY GraphAssumption DEF Init
<1>2. store \in Stores
  BY <1>1 DEF Init, FreshStore, Stores
<1>3. EmptyState \in CaseStates
  BY DEF EmptyState, CaseStates
<1>4. TypeOK
  BY <1>1, <1>2, <1>3 DEF Init, TypeOK
<1>5. ChannelsReady
  BY DEF Init, ChannelsReady, Ready, BeforeContext, NeedProposal, NeedInput
<1>6. QED
  BY <1>4, <1>5 DEF TypeInv

LEMMA StepTypes == TypeInv /\ [Next]_vars => TypeInv'
<1> SUFFICES ASSUME TypeInv, [Next]_vars
             PROVE  TypeInv'
  OBVIOUS
<1>1. CASE UNCHANGED vars
  BY <1>1 DEF vars, history, TypeInv, TypeOK, ChannelsReady, Ready
<1>2. ASSUME NEW t \in Threads, Submit(t)
      PROVE  TypeInv'
  BY <1>2, SubmitStarts, StartTypes
<1>3. ASSUME NEW t \in Threads, NEW d \in Decisions \cup {"malformed"}, Resume(t, d)
      PROVE  TypeInv'
  BY <1>3, ResumeTypes
<1>4. ASSUME NEW t \in Threads, ResumeUnknownThread(t)
      PROVE  TypeInv'
  BY <1>4, ResumeUnknownThreadTypes
<1>5. ASSUME NEW t \in Threads, ExecuteSafeAction(t)
      PROVE  TypeInv'
  BY <1>5, ExecuteTypes DEF ExecuteSafeAction
<1>6. ASSUME NEW t \in Threads, ExecuteApprovedAction(t)
      PROVE  TypeInv'
  BY <1>6, ExecuteTypes DEF ExecuteApprovedAction
<1>7. ASSUME NEW t \in Threads, GraphStep(t)
      PROVE  TypeInv'
  BY <1>5, <1>6, <1>7, IntakeTypes, ClassifyTypes, LoadContextTypes,
     ResolveOrderNodeTypes, EvaluatePolicyNodeTypes, ClarificationTypes,
     InformationTypes, BlockedTypes, ProposeActionNodeTypes,
     PrepareActionInputNodeTypes, PrepareApprovalTypes, PrepareApprovalInputTypes,
     RequestApprovalTypes, ResolveApprovalTypes, ApprovalRejectedTypes,
     FinalResponseTypes
     DEF GraphStep
<1>8. QED
  BY <1>1, <1>2, <1>3, <1>4, <1>7 DEF Next

LEMMA TypeInvariance == Spec => []TypeInv
  BY InitTypes, StepTypes, PTL DEF Spec

\* Every channel, store record and history keeps to the vocabularies of
\* state.py and models.py, whatever the callers and the OpenAI calls do.
THEOREM TypeCorrect == Spec => []TypeOK
<1>1. TypeInv => TypeOK
  BY DEF TypeInv
<1>2. QED
  BY <1>1, TypeInvariance, PTL

-----------------------------------------------------------------------------
\* What the supersteps that neither ask, resolve nor execute have in common.

PlainNodes == Nodes \ NeedInput

\* The input is for the order of the proposal.
InputMatches(s) ==
    s.action_input.ready => s.action_input.order_id = s.proposed_action.order_id

SameRequest(s, r) ==
    /\ s.request_id = r.request_id
    /\ s.customer_id = r.customer_id
    /\ s.customer_message = r.customer_message

PlainStep(t) ==
    /\ run[t] = "running" /\ next[t] \in PlainNodes
    /\ \A u \in Threads \ {t} :
           state'[u] = state[u] /\ next'[u] = next[u] /\ run'[u] = run[u]
    /\ UNCHANGED <<resume, interrupts, store, catalog, submitted, reviews, journal>>
    /\ \/ run'[t] \in Errors /\ state'[t] = state[t] /\ next'[t] = next[t]
       \/ /\ run'[t] \in {"running", "returned"}
          /\ SameRequest(state'[t], state[t])
          /\ next'[t] \in Nodes \cup {"END"}
          /\ next'[t] \notin {"intake", "execute_approved_action"}
          /\ next[t] = "final_response" => next'[t] = "END"
          /\ next'[t] \in NeedInput => InputMatches(state'[t])

LEMMA CommitIsPlain ==
    ASSUME TypeInv, NEW t \in Threads, run[t] = "running", next[t] \in PlainNodes,
           NEW s, SameRequest(s, state[t]),
           NEW n \in Nodes \cup {"END"}, n \notin {"intake", "execute_approved_action"},
           next[t] = "final_response" => n = "END",
           n \in NeedInput => InputMatches(s),
           Commit(t, s, n),
           UNCHANGED <<resume, interrupts, store, catalog, submitted, reviews, journal>>
    PROVE  PlainStep(t)
  BY DEF TypeInv, TypeOK, Commit, PlainStep

LEMMA RaiseIsPlain ==
    ASSUME TypeInv, NEW t \in Threads, run[t] = "running", next[t] \in PlainNodes,
           NEW e \in Errors, Raise(t, e),
           UNCHANGED <<resume, interrupts, store, catalog, submitted, reviews, journal>>
    PROVE  PlainStep(t)
  BY DEF TypeInv, TypeOK, Raise, PlainStep

LEMMA SettleIsPlain ==
    ASSUME TypeInv, NEW t \in Threads, NEW m \in PlainNodes \ {"final_response"}, At(t, m),
           NEW fails, NEW e \in Errors, NEW s, SameRequest(s, state[t]),
           NEW n \in PlainNodes \ {"intake"},
           Settle(t, fails, e, s, n), OnlyCheckpoint
    PROVE  PlainStep(t)
  BY CommitIsPlain, RaiseIsPlain
     DEF Settle, At, OnlyCheckpoint, history, PlainNodes, NeedInput

LEMMA SettlingNodesArePlain ==
    ASSUME TypeInv, NEW t \in Threads,
           \/ Intake(t) \/ LoadContext(t) \/ ResolveOrderNode(t)
           \/ ProposeActionNode(t) \/ PrepareApproval(t) \/ ApprovalRejected(t)
    PROVE  PlainStep(t)
<1> DEFINE s == state[t]
<1> USE DEF PlainNodes, Nodes, NeedInput, Errors, ExpectedErrors, CorruptionErrors
<1>1. s \in CaseStates
  BY DEF TypeInv, TypeOK
<1>2. \A status, step : SameRequest(Logged(s, status, step), s)
  BY <1>1 DEF SameRequest, Logged, CaseStates
<1>3. CASE Intake(t)
  BY <1>2, <1>3, SettleIsPlain DEF Intake
<1>4. CASE LoadContext(t)
  <2>1. \A context, status, step :
            SameRequest(Logged([s EXCEPT !.order_context = context], status, step), s)
    BY <1>1 DEF SameRequest, Logged, CaseStates
  <2>2. QED
    BY <1>4, <2>1, SettleIsPlain DEF LoadContext
<1>5. CASE ResolveOrderNode(t)
  <2> DEFINE resolution == ResolveOrder(s.intent, s.customer_message, s.order_context)
             update == Logged([s EXCEPT !.selected_order_id = resolution.selected_order_id,
                                        !.order_resolution = resolution],
                              "order_resolved", "order_resolution")
  <2>1. SameRequest(update, s)
    BY <1>1 DEF SameRequest, Logged, CaseStates
  <2>2. /\ At(t, "resolve_order") /\ OnlyCheckpoint
        /\ Settle(t, ResolutionFails(s.intent, s.order_context), "OrderResolutionError",
                  update, "evaluate_policy")
    BY <1>5 DEF ResolveOrderNode
  <2> HIDE DEF update
  <2>3. QED
    BY <2>1, <2>2, SettleIsPlain
<1>6. ASSUME NEW route, NEW action, NEW status, NEW step
      PROVE  SameRequest(Logged([s EXCEPT !.route = route,
                                          !.proposed_action = action], status, step), s)
  BY <1>1 DEF SameRequest, Logged, CaseStates
<1>7. CASE ProposeActionNode(t)
  BY <1>6, <1>7, SettleIsPlain DEF ProposeActionNode
<1>8. CASE PrepareApproval(t)
  BY <1>6, <1>8, SettleIsPlain DEF PrepareApproval
<1>9. CASE ApprovalRejected(t)
  BY <1>2, <1>9, SettleIsPlain DEF ApprovalRejected
<1>10. QED
  BY <1>3, <1>4, <1>5, <1>7, <1>8, <1>9

LEMMA EvaluatePolicyNodeIsPlain ==
    ASSUME TypeInv, NEW t \in Threads, EvaluatePolicyNode(t)
    PROVE  PlainStep(t)
<1> DEFINE s == state[t]
           assessment == EvaluatePolicy(s.intent, s.order_resolution, s.order_context)
           policyFails == PolicyFails(s.intent, s.order_resolution, s.order_context)
           routingFails == RoutingFails(s.intent, s.order_resolution, assessment)
           error == IF policyFails THEN "PolicyEvaluationError" ELSE "RoutingError"
           update == Logged([s EXCEPT !.policy_assessment = assessment],
                            "policy_checked", "policy_evaluation")
           branch == BranchNode[DetermineCaseRoute(assessment)]
<1> USE DEF PlainNodes, Nodes, NeedInput
<1>1. s \in CaseStates
  BY DEF TypeInv, TypeOK
<1>2. SameRequest(update, s)
  BY <1>1 DEF SameRequest, Logged, CaseStates
<1>3. Settle(t, policyFails \/ routingFails, error, update, branch) /\ OnlyCheckpoint
      /\ At(t, "evaluate_policy")
  BY DEF EvaluatePolicyNode
<1>4. error \in Errors
  BY DEF Errors, CorruptionErrors
<1>5. CASE policyFails \/ routingFails
  <2>1. Raise(t, error)
    BY <1>3, <1>5 DEF Settle
  <2>2. QED
    BY <1>3, <1>4, <2>1, RaiseIsPlain DEF At, OnlyCheckpoint, history
<1>6. CASE ~policyFails /\ ~routingFails
  <2>1. Commit(t, update, branch)
    BY <1>3, <1>6 DEF Settle
  <2>2. branch \in {"clarification", "information", "propose_action",
                    "prepare_approval", "blocked"}
    BY <1>6, EvaluatePolicyType, BranchNodeType
  <2>3. QED
    BY <1>2, <1>3, <2>1, <2>2, CommitIsPlain DEF At, OnlyCheckpoint, history
<1>7. QED
  BY <1>5, <1>6 DEF PolicyFails, RoutingFails

LEMMA CommittingNodesArePlain ==
    ASSUME TypeInv, NEW t \in Threads,
           \/ ClassifyRequest(t) \/ Clarification(t) \/ Information(t) \/ Blocked(t)
           \/ FinalResponse(t)
    PROVE  PlainStep(t)
<1> DEFINE s == state[t]
<1> USE DEF PlainNodes, Nodes, NeedInput, Errors, ExpectedErrors, At, OnlyCheckpoint,
            history
<1>1. s \in CaseStates
  BY DEF TypeInv, TypeOK
<1>2. CASE ClassifyRequest(t)
  <2>1. \A intent, status, step :
            SameRequest(Logged([s EXCEPT !.intent = intent], status, step), s)
    BY <1>1 DEF SameRequest, Logged, CaseStates
  <2>2. CASE Raise(t, "ClassificationError")
    BY <1>2, <2>2, RaiseIsPlain DEF ClassifyRequest
  <2>3. ASSUME NEW intent \in Classifications,
               Commit(t, Logged([s EXCEPT !.intent = intent],
                                "classified", "classification"), "load_context")
        PROVE  PlainStep(t)
    BY <1>2, <2>1, <2>3, CommitIsPlain DEF ClassifyRequest
  <2>4. QED
    BY <1>2, <2>2, <2>3 DEF ClassifyRequest
<1>3. ASSUME NEW route, NEW status, NEW step
      PROVE  SameRequest(Logged([s EXCEPT !.route = route], status, step), s)
  BY <1>1 DEF SameRequest, Logged, CaseStates
<1>4. CASE Clarification(t)
  BY <1>3, <1>4, CommitIsPlain DEF Clarification
<1>5. CASE Information(t)
  BY <1>3, <1>5, CommitIsPlain DEF Information
<1>6. CASE Blocked(t)
  BY <1>3, <1>6, CommitIsPlain DEF Blocked
<1>7. CASE FinalResponse(t)
  <2> DEFINE update == Logged([s EXCEPT !.final_response = s.request_id],
                              "completed", "final_response")
  <2>1. SameRequest(update, s)
    BY <1>1 DEF SameRequest, Logged, CaseStates
  <2>2. CASE Raise(t, "ResponseGenerationError")
    BY <1>7, <2>2, RaiseIsPlain DEF FinalResponse
  <2>3. CASE Commit(t, update, "END")
    <3> HIDE DEF update
    <3>1. QED
      BY <1>7, <2>1, <2>3, CommitIsPlain DEF FinalResponse
  <2>4. QED
    BY <1>7, <2>2, <2>3 DEF FinalResponse
<1>8. QED
  BY <1>2, <1>4, <1>5, <1>6, <1>7

LEMMA InputNodesArePlain ==
    ASSUME TypeInv, NEW t \in Threads,
           PrepareActionInputNode(t) \/ PrepareApprovalInput(t)
    PROVE  PlainStep(t)
<1> DEFINE s == state[t]
           input(address) == PrepareActionInput(s.proposed_action, address)
           prepared(address) == [s EXCEPT !.action_input = input(address)]
<1> USE DEF PlainNodes, Nodes, NeedInput, At, OnlyCheckpoint, history
<1>1. s \in CaseStates /\ s.proposed_action \in ProposedActions
  BY DEF TypeInv, TypeOK, ChannelsReady, Ready, NeedProposal, CaseStates,
         PrepareActionInputNode, PrepareApprovalInput
<1>2. ASSUME NEW address \in Extractions(s.proposed_action), NEW status, NEW step
      PROVE  /\ SameRequest(Logged(prepared(address), status, step), s)
             /\ InputMatches(Logged(prepared(address), status, step))
  <2> DEFINE update == Logged(prepared(address), status, step)
  <2>1. SameRequest(update, s)
    BY <1>1 DEF SameRequest, Logged, CaseStates
  <2>2. update.action_input = input(address) /\ update.proposed_action = s.proposed_action
    BY <1>1 DEF Logged, CaseStates
  <2>3. address \in Addresses \cup {None}
    BY DEF Extractions
  <2>4. QED
    BY <1>1, <2>1, <2>2, <2>3, PrepareActionInputType DEF InputMatches
<1>3. CASE PrepareActionInputNode(t)
  <2>1. CASE Raise(t, "ActionInputError")
    BY <1>3, <2>1, RaiseIsPlain DEF PrepareActionInputNode, Errors, ExpectedErrors
  <2>2. ASSUME NEW address \in Extractions(s.proposed_action),
               Commit(t, Logged(prepared(address), "action_input_ready", "action_input"),
                      IF input(address).ready THEN "execute_safe_action"
                                              ELSE "clarification")
        PROVE  PlainStep(t)
    BY <1>2, <1>3, <2>2, CommitIsPlain DEF PrepareActionInputNode
  <2>3. QED
    BY <1>3, <2>1, <2>2 DEF PrepareActionInputNode
<1>4. CASE PrepareApprovalInput(t)
  <2>1. PICK address \in Extractions(s.proposed_action) :
            Commit(t, Logged(prepared(address), "awaiting_approval", "action_input"),
                   "human_approval")
    BY <1>4 DEF PrepareApprovalInput
  <2>2. QED
    BY <1>2, <1>4, <2>1, CommitIsPlain DEF PrepareApprovalInput
<1>5. QED
  BY <1>3, <1>4

\* The supersteps: plain, or one of the four around the approval and the store.
LEMMA GraphSteps ==
    ASSUME TypeInv, NEW t \in Threads, GraphStep(t)
    PROVE  \/ PlainStep(t)
           \/ RequestApproval(t) \/ ResolveApproval(t)
           \/ ExecuteSafeAction(t) \/ ExecuteApprovedAction(t)
  BY SettlingNodesArePlain, EvaluatePolicyNodeIsPlain, CommittingNodesArePlain,
     InputNodesArePlain
     DEF GraphStep


-----------------------------------------------------------------------------
\* Reviews.

ReviewOf(t, d) == [thread      |-> t,
                   request_id  |-> state[t].request_id,
                   action_type |-> state[t].proposed_action.action_type,
                   order_id    |-> state[t].proposed_action.order_id,
                   decision    |-> d]

\* What ties a thread's pending operation to its reviews: the payload shown is
\* the proposal in the checkpoint, a decision on its way to human_approval and
\* an operation about to be executed are reviewed as they stand there, and the
\* input that is executed is for the order that was shown.
ThreadReviewed(t) ==
    /\ resume[t] # None => run[t] = "running" /\ next[t] = "human_approval"
    /\ run[t] = "paused" =>
           interrupts[t] = BuildApprovalRequest(state[t].request_id,
                                                state[t].proposed_action)
    /\ resume[t] \in Decisions => ReviewOf(t, resume[t]) \in reviews
    /\ At(t, "execute_approved_action") => ReviewOf(t, "approved") \in reviews
    /\ next[t] \in NeedInput => InputMatches(state[t])

ReviewInv == (\A t \in Threads : ThreadReviewed(t)) /\ SensitiveEffectsReviewed

LEMMA ReviewFrame ==
    ASSUME NEW u \in Threads, ThreadReviewed(u),
           state'[u] = state[u], next'[u] = next[u], run'[u] = run[u],
           resume'[u] = resume[u], interrupts'[u] = interrupts[u],
           reviews \subseteq reviews'
    PROVE  ThreadReviewed(u)'
  BY DEF ThreadReviewed, ReviewOf, At, InputMatches

\* Reviews are never withdrawn.
LEMMA ReviewedEffectsStay ==
    ASSUME TypeInv, SensitiveEffectsReviewed, journal' = journal, reviews \subseteq reviews'
    PROVE  SensitiveEffectsReviewed'
  BY DEF SensitiveEffectsReviewed

LEMMA PlainStepReviews ==
    ASSUME TypeInv, ReviewInv, NEW t \in Threads, PlainStep(t)
    PROVE  ReviewInv'
<1>1. resume'[t] = None /\ run'[t] # "paused"
  BY DEF PlainStep, ReviewInv, ThreadReviewed, PlainNodes, NeedInput, Errors,
         ExpectedErrors, CorruptionErrors
<1>2. ThreadReviewed(t)'
  <2>1. CASE run'[t] \in Errors /\ state'[t] = state[t] /\ next'[t] = next[t]
    BY <1>1, <2>1, AbsentAssumption
       DEF PlainStep, ThreadReviewed, At, PlainNodes, NeedInput, Nodes
  <2>2. CASE /\ next'[t] # "execute_approved_action"
             /\ next'[t] \in NeedInput => InputMatches(state'[t])
    BY <1>1, <2>2, AbsentAssumption DEF ThreadReviewed, At, InputMatches
  <2>3. QED
    BY <2>1, <2>2 DEF PlainStep
<1>3. \A u \in Threads \ {t} : ThreadReviewed(u)'
  BY ReviewFrame DEF ReviewInv, PlainStep
<1>4. SensitiveEffectsReviewed'
  BY ReviewedEffectsStay DEF ReviewInv, PlainStep
<1>5. QED
  BY <1>2, <1>3, <1>4 DEF ReviewInv

\* The payload a reviewer is shown is the proposal in the checkpoint.
LEMMA RequestApprovalReviews ==
    ASSUME TypeInv, ReviewInv, NEW t \in Threads, RequestApproval(t)
    PROVE  ReviewInv'
<1>1. ThreadReviewed(t)'
  BY AbsentAssumption
     DEF RequestApproval, TypeInv, TypeOK, ReviewInv, ThreadReviewed, ReviewOf, At, Raise,
         history, InputMatches
<1>2. \A u \in Threads \ {t} : ThreadReviewed(u)'
  BY ReviewFrame
     DEF RequestApproval, TypeInv, TypeOK, ReviewInv, Raise, history
<1>3. SensitiveEffectsReviewed'
  BY ReviewedEffectsStay DEF ReviewInv, RequestApproval, history
<1>4. QED
  BY <1>1, <1>2, <1>3 DEF ReviewInv


\* What a reviewer approved is what stands in the checkpoint when the thread
\* moves on to execute it.
LEMMA ResolveApprovalReviews ==
    ASSUME TypeInv, ReviewInv, NEW t \in Threads, ResolveApproval(t)
    PROVE  ReviewInv'
<1> DEFINE s == state[t]
           decision == ParseHumanApprovalResponse(resume[t])
           update == [s EXCEPT !.human_decision = decision,
                               !.audit_log = Append(@, "human_approval")]
<1>1. /\ resume'[t] = None /\ reviews' = reviews /\ journal' = journal
      /\ next[t] = "human_approval" /\ s \in CaseStates
  BY DEF ResolveApproval, TypeInv, TypeOK, At, history
<1>2. ThreadReviewed(t)'
  <2>1. CASE Raise(t, "ApprovalError")
    BY <1>1, <2>1, AbsentAssumption
       DEF TypeInv, TypeOK, Raise, ReviewInv, ThreadReviewed, At, InputMatches
  <2>2. CASE /\ ~(ApprovalFails(s) \/ decision = None)
             /\ Commit(t, update, IF decision = "approved" THEN "execute_approved_action"
                                                           ELSE "approval_rejected")
    <3>1. /\ state'[t] = update /\ run'[t] = "running"
          /\ next'[t] = IF decision = "approved" THEN "execute_approved_action"
                                                 ELSE "approval_rejected"
      BY <2>2 DEF TypeInv, TypeOK, Commit
    <3>2. /\ update.request_id = s.request_id
          /\ update.proposed_action = s.proposed_action
          /\ update.action_input = s.action_input
      BY <1>1 DEF CaseStates
    <3>3. resume[t] \in Decisions /\ decision = resume[t]
      BY <2>2 DEF ParseHumanApprovalResponse
    <3>4. ReviewOf(t, decision) \in reviews
      BY <3>3 DEF ReviewInv, ThreadReviewed
    <3>5. next'[t] = "execute_approved_action" => ReviewOf(t, "approved")' \in reviews'
      BY <1>1, <3>1, <3>2, <3>4 DEF ReviewOf
    <3>6. InputMatches(state'[t])
      BY <1>1, <3>1, <3>2 DEF ReviewInv, ThreadReviewed, InputMatches, NeedInput
    <3>7. QED
      BY <1>1, <3>1, <3>5, <3>6, AbsentAssumption DEF ThreadReviewed, At, InputMatches
  <2>3. QED
    BY <2>1, <2>2 DEF ResolveApproval
<1>3. \A u \in Threads \ {t} : ThreadReviewed(u)'
  <2>1. ASSUME NEW u \in Threads \ {t}
        PROVE  /\ state'[u] = state[u] /\ next'[u] = next[u] /\ run'[u] = run[u]
               /\ resume'[u] = resume[u] /\ interrupts'[u] = interrupts[u]
    BY DEF ResolveApproval, TypeInv, TypeOK, Raise, Commit
  <2>2. QED
    BY <1>1, <2>1, ReviewFrame DEF ReviewInv
<1>4. SensitiveEffectsReviewed'
  BY <1>1, ReviewedEffectsStay DEF ReviewInv
<1>5. QED
  BY <1>2, <1>3, <1>4 DEF ReviewInv


\* What an execution does, to the thread and to the journal: it raises and
\* nothing changes, or the one store call is made and journalled.
Refused(t) ==
    /\ run'[t] \in Errors
    /\ UNCHANGED <<state, next, store, journal>>

EffectAt(t, address) == [request_id  |-> state[t].request_id,
                         action_type |-> state[t].proposed_action.action_type,
                         order_id    |-> state[t].action_input.order_id,
                         new_shipping_address |-> address]

Executed(t, approved) ==
    LET s == state[t]
    IN  /\ run'[t] = "running" /\ next'[t] = "final_response"
        /\ SameRequest(state'[t], s)
        /\ s.action_input.ready /\ s.action_input.order_id \in Orders
        /\ s.proposed_action.action_type \in ApprovalRequiredActionTypes => approved
        /\ ~ExecutionFails(s.proposed_action, s.action_input, store, approved)
        /\ store' = ExecuteAction(s.proposed_action, s.action_input, store)
        /\ \E address :
               journal' = [journal EXCEPT ![t] = Append(@, EffectAt(t, address))]

LEMMA ExecuteEffect ==
    ASSUME TypeInv, NEW t \in Threads,
           At(t, "execute_safe_action") \/ At(t, "execute_approved_action"),
           NEW fails, NEW approved, Execute(t, fails, approved)
    PROVE  /\ \A u \in Threads \ {t} :
                  /\ state'[u] = state[u] /\ next'[u] = next[u] /\ run'[u] = run[u]
                  /\ journal'[u] = journal[u]
           /\ Refused(t) \/ Executed(t, approved)
<1> DEFINE s == state[t]
           stop == fails \/ ExecutionFails(s.proposed_action, s.action_input, store, approved)
           result == ExecutionResult(s.proposed_action, s.action_input)
           context == WithUpdatedOrder(s.order_context, result.order_id,
                                       store'.orders[result.order_id])
           update == Logged([s EXCEPT !.action_result = result, !.order_context = context],
                            "action_executed", "action_execution")
<1>1. /\ s \in CaseStates
      /\ s.proposed_action \in ProposedActions /\ s.action_input \in ActionInputs
  BY DEF TypeInv, TypeOK, ChannelsReady, At, Ready, NeedProposal, NeedInput, CaseStates
<1>2. CASE stop
  BY <1>2 DEF Execute, Refused, Raise, TypeInv, TypeOK, Errors, ExpectedErrors
<1>3. CASE ~stop
  <2>1. /\ store' = ExecuteAction(s.proposed_action, s.action_input, store)
        /\ journal' = [journal EXCEPT ![t] = Append(@,
               EffectAt(t, s.action_input.new_shipping_address))]
        /\ Commit(t, update, "final_response")
    BY <1>3 DEF Execute, EffectAt
  <2>2. SameRequest(update, s)
    BY <1>1 DEF SameRequest, Logged, CaseStates
  <2>3. /\ state'[t] = update /\ next'[t] = "final_response" /\ run'[t] = "running"
        /\ \A u \in Threads \ {t} :
               /\ state'[u] = state[u] /\ next'[u] = next[u] /\ run'[u] = run[u]
               /\ journal'[u] = journal[u]
    <3> HIDE DEF update
    <3>1. QED
      BY <2>1 DEF Commit, TypeInv, TypeOK
  <2>4. /\ s.action_input.ready /\ s.action_input.order_id \in Orders
        /\ s.proposed_action.action_type \in ApprovalRequiredActionTypes => approved
    BY <1>1, <1>3, ExecutionType DEF TypeInv, TypeOK
  <2>5. Executed(t, approved)
    <3> HIDE DEF update
    <3>1. QED
      BY <1>3, <2>1, <2>2, <2>3, <2>4 DEF Executed
  <2>6. QED
    BY <2>3, <2>5
<1>4. QED
  BY <1>2, <1>3

\* A sensitive operation gets past the executor only on the approved branch,
\* where its review is known.
LEMMA ExecuteReviews ==
    ASSUME TypeInv, ReviewInv, NEW t \in Threads, NEW fails, NEW approved \in BOOLEAN,
           \/ At(t, "execute_safe_action") /\ ~approved
           \/ At(t, "execute_approved_action"),
           Execute(t, fails, approved),
           UNCHANGED <<resume, interrupts, catalog, submitted, reviews, replies>>
    PROVE  ReviewInv'
<1> DEFINE s == state[t]
           type == s.proposed_action.action_type
<1>1. \A u \in Threads \ {t} : ThreadReviewed(u)'
  BY ExecuteEffect, ReviewFrame DEF ReviewInv
<1>2. resume'[t] = None
  BY DEF ReviewInv, ThreadReviewed, At
<1>3. CASE Refused(t)
  <2>1. ThreadReviewed(t)'
    BY <1>2, <1>3, AbsentAssumption
       DEF Refused, ReviewInv, ThreadReviewed, At, InputMatches, Errors, ExpectedErrors,
           CorruptionErrors
  <2>2. SensitiveEffectsReviewed'
    BY <1>3, ReviewedEffectsStay DEF Refused, ReviewInv
  <2>3. QED
    BY <1>1, <2>1, <2>2 DEF ReviewInv
<1>4. CASE Executed(t, approved)
  <2> PICK address : journal' = [journal EXCEPT ![t] = Append(@, EffectAt(t, address))]
    BY <1>4 DEF Executed
  <2>1. ThreadReviewed(t)'
    BY <1>2, <1>4, AbsentAssumption DEF Executed, ThreadReviewed, At, NeedInput
  <2>2. s.action_input.order_id = s.proposed_action.order_id
    BY <1>4 DEF Executed, ReviewInv, ThreadReviewed, InputMatches, At, NeedInput
  <2>3. type \in ApprovalRequiredActionTypes => ReviewOf(t, "approved") \in reviews
    BY <1>4 DEF Executed, ReviewInv, ThreadReviewed
  <2>4. SensitiveEffectsReviewed'
    <3> SUFFICES ASSUME NEW u \in Threads, NEW i \in DOMAIN journal'[u],
                        journal'[u][i].action_type \in ApprovalRequiredActionTypes
                 PROVE  [thread |-> u, request_id |-> journal'[u][i].request_id,
                         action_type |-> journal'[u][i].action_type,
                         order_id |-> journal'[u][i].order_id,
                         decision |-> "approved"] \in reviews
      BY DEF SensitiveEffectsReviewed
    <3>1. journal[u] \in Seq(Effects)
      BY DEF TypeInv, TypeOK
    <3>2. CASE u # t \/ i # Len(journal[t]) + 1
      <4>1. i \in DOMAIN journal[u] /\ journal'[u][i] = journal[u][i]
        BY <3>1, <3>2 DEF TypeInv, TypeOK
      <4>2. QED
        BY <4>1 DEF ReviewInv, SensitiveEffectsReviewed
    <3>3. CASE u = t /\ i = Len(journal[t]) + 1
      <4>1. journal'[u][i] = EffectAt(t, address)
        BY <3>1, <3>3 DEF TypeInv, TypeOK
      <4>2. QED
        BY <2>2, <2>3, <3>3, <4>1 DEF EffectAt, ReviewOf
    <3>4. QED
      BY <3>2, <3>3
  <2>5. QED
    BY <1>1, <2>1, <2>4 DEF ReviewInv
<1>5. QED
  BY <1>3, <1>4, ExecuteEffect

LEMMA StartReviews ==
    ASSUME TypeInv, ReviewInv, NEW t \in Threads, NEW r, NEW c, NEW m, NEW complete,
           StartRequest(t, r, c, m, complete)
    PROVE  ReviewInv'
<1>1. ThreadReviewed(t)'
  BY AbsentAssumption DEF StartRequest, TypeInv, TypeOK, ThreadReviewed, At, NeedInput
<1>2. ASSUME NEW u \in Threads \ {t}
      PROVE  /\ state'[u] = state[u] /\ next'[u] = next[u] /\ run'[u] = run[u]
             /\ resume'[u] = resume[u] /\ interrupts'[u] = interrupts[u]
  BY DEF StartRequest, TypeInv, TypeOK
<1>3. \A u \in Threads \ {t} : ThreadReviewed(u)'
  BY <1>2, ReviewFrame DEF StartRequest, ReviewInv
<1>4. SensitiveEffectsReviewed'
  BY ReviewedEffectsStay DEF StartRequest, ReviewInv
<1>5. QED
  BY <1>1, <1>3, <1>4 DEF ReviewInv

\* The reviewer decides about the payload, which is the proposal.
LEMMA ResumeReviews ==
    ASSUME TypeInv, ReviewInv, NEW t \in Threads, NEW d \in Decisions \cup {"malformed"},
           Resume(t, d)
    PROVE  ReviewInv'
<1>1. next[t] = "human_approval"
  BY DEF Resume, TypeInv, ChannelsReady
<1>2. resume'[t] = d /\ run'[t] = "running" /\ state' = state /\ next' = next
      /\ journal' = journal /\ interrupts' = interrupts /\ reviews \subseteq reviews'
  BY DEF Resume, TypeInv, TypeOK
<1>3. d \in Decisions => ReviewOf(t, d) \in reviews'
  <2>1. interrupts[t] = BuildApprovalRequest(state[t].request_id, state[t].proposed_action)
    BY DEF Resume, ReviewInv, ThreadReviewed
  <2>2. QED
    BY <2>1 DEF Resume, BuildApprovalRequest, ReviewOf
<1>4. ThreadReviewed(t)'
  BY <1>1, <1>2, <1>3 DEF ReviewInv, ThreadReviewed, ReviewOf, At, InputMatches
<1>5. ASSUME NEW u \in Threads \ {t}
      PROVE  run'[u] = run[u] /\ resume'[u] = resume[u]
  BY DEF Resume, TypeInv, TypeOK
<1>6. \A u \in Threads \ {t} : ThreadReviewed(u)'
  BY <1>2, <1>5, ReviewFrame DEF ReviewInv
<1>7. SensitiveEffectsReviewed'
  BY <1>2, ReviewedEffectsStay DEF ReviewInv
<1>8. QED
  BY <1>4, <1>6, <1>7 DEF ReviewInv

LEMMA ResumeUnknownThreadReviews ==
    ASSUME TypeInv, ReviewInv, NEW t \in Threads, ResumeUnknownThread(t)
    PROVE  ReviewInv'
<1>1. resume'[t] = None
  BY DEF ResumeUnknownThread, ReviewInv, ThreadReviewed
<1>2. ThreadReviewed(t)'
  BY <1>1, AbsentAssumption
     DEF ResumeUnknownThread, TypeInv, TypeOK, ThreadReviewed, At, NeedInput
<1>3. ASSUME NEW u \in Threads \ {t}
      PROVE  next'[u] = next[u] /\ run'[u] = run[u]
  BY DEF ResumeUnknownThread, TypeInv, TypeOK
<1>4. \A u \in Threads \ {t} : ThreadReviewed(u)'
  BY <1>3, ReviewFrame DEF ResumeUnknownThread, ReviewInv, history
<1>5. SensitiveEffectsReviewed'
  BY ReviewedEffectsStay DEF ResumeUnknownThread, ReviewInv, history
<1>6. QED
  BY <1>2, <1>4, <1>5 DEF ReviewInv

LEMMA InitReviews == Init => ReviewInv
  BY AbsentAssumption
     DEF Init, ReviewInv, ThreadReviewed, SensitiveEffectsReviewed, At, NeedInput

LEMMA StepReviews == TypeInv /\ ReviewInv /\ [Next]_vars => ReviewInv'
<1> SUFFICES ASSUME TypeInv, ReviewInv, [Next]_vars
             PROVE  ReviewInv'
  OBVIOUS
<1>1. CASE UNCHANGED vars
  <2>1. \A u \in Threads : ThreadReviewed(u)'
    BY <1>1, ReviewFrame DEF ReviewInv, vars, history
  <2>2. SensitiveEffectsReviewed'
    BY <1>1, ReviewedEffectsStay DEF ReviewInv, vars, history
  <2>3. QED
    BY <2>1, <2>2 DEF ReviewInv
<1>2. ASSUME NEW t \in Threads, GraphStep(t)
      PROVE  ReviewInv'
  <2>1. CASE ExecuteSafeAction(t)
    BY <2>1, ExecuteReviews DEF ExecuteSafeAction
  <2>2. CASE ExecuteApprovedAction(t)
    BY <2>2, ExecuteReviews DEF ExecuteApprovedAction
  <2>3. QED
    BY <1>2, <2>1, <2>2, GraphSteps, PlainStepReviews, RequestApprovalReviews,
       ResolveApprovalReviews
<1>3. QED
  BY <1>1, <1>2, SubmitStarts, StartReviews, ResumeReviews, ResumeUnknownThreadReviews
     DEF Next

LEMMA ReviewInvariance == Spec => []ReviewInv
  BY InitReviews, StepReviews, TypeInvariance, PTL DEF Spec

\* A sensitive operation reaches the store only after a reviewer approved
\* exactly that operation on that order for that request in that thread, on
\* used threads and with stale channels too.
THEOREM SensitiveEffectsAreReviewed == Spec => []SensitiveEffectsReviewed
<1>1. ReviewInv => SensitiveEffectsReviewed
  BY DEF ReviewInv
<1>2. QED
  BY <1>1, ReviewInvariance, PTL


-----------------------------------------------------------------------------
\* Effects.

\* What thread t, whose checkpoint is s, started its request with.
StartedWith(submission, t, s) ==
    /\ submission # None
    /\ submission.thread = t
    /\ submission.customer_id = s.customer_id
    /\ submission.customer_message = s.customer_message

\* What ties a thread to its requests: the checkpoint holds what its request
\* was started with, the journal holds requests of this thread only and
\* each once, and the current one only once the case is past its execution.
\* A thread that was never used has no journal.
ThreadEffects(t) ==
    LET s == state[t]
    IN  /\ run[t] = "new" => journal[t] = <<>>
        /\ s.request_id # None => StartedWith(submitted[s.request_id], t, s)
        /\ \A i \in DOMAIN journal[t] :
               /\ submitted[journal[t][i].request_id] # None
               /\ submitted[journal[t][i].request_id].thread = t
               /\ journal[t][i].request_id = s.request_id =>
                      next[t] \in {"final_response", "END"}
               /\ \A j \in DOMAIN journal[t] :
                      journal[t][i].request_id = journal[t][j].request_id => i = j

EffectInv == \A t \in Threads : ThreadEffects(t)

\* A submission, once recorded, is never replaced.
SubmissionsStay ==
    \A r \in Requests : submitted[r] # None => submitted'[r] = submitted[r]

\* A used thread stays used.
UsedStays == \A t \in Threads : run'[t] = "new" => run[t] = "new"

LEMMA JournalledRequest ==
    ASSUME TypeInv, NEW t \in Threads, NEW i \in DOMAIN journal[t]
    PROVE  journal[t][i].request_id \in Requests
<1>1. journal[t] \in Seq(Effects)
  BY DEF TypeInv, TypeOK
<1>2. journal[t][i] \in Effects
  BY <1>1
<1>3. QED
  BY <1>2 DEF Effects

LEMMA EffectFrame ==
    ASSUME TypeInv, NEW u \in Threads, ThreadEffects(u), SubmissionsStay,
           SameRequest(state'[u], state[u]), journal'[u] = journal[u],
           UsedStays,
           \/ journal[u] = <<>>
           \/ next'[u] = next[u]
           \/ next[u] \notin {"final_response", "END"}
           \/ next'[u] \in {"final_response", "END"}
    PROVE  ThreadEffects(u)'
<1>1. state[u] \in CaseStates
  BY DEF TypeInv, TypeOK
<1>2. \A i \in DOMAIN journal[u] : journal[u][i].request_id \in Requests
  BY JournalledRequest
<1>3. state[u].request_id \in Optional(Requests)
  BY <1>1 DEF CaseStates
<1>4. ASSUME state[u].request_id # None
      PROVE  submitted'[state[u].request_id] = submitted[state[u].request_id]
  BY <1>3, <1>4 DEF ThreadEffects, StartedWith, SubmissionsStay
<1>5. \A i \in DOMAIN journal[u] :
          submitted'[journal[u][i].request_id] = submitted[journal[u][i].request_id]
  BY <1>2 DEF SubmissionsStay, ThreadEffects
<1>6. state'[u].request_id # None =>
          StartedWith(submitted'[state'[u].request_id], u, state'[u])
  BY <1>4 DEF ThreadEffects, SameRequest, StartedWith
<1>7. ASSUME NEW i \in DOMAIN journal[u]
      PROVE  journal[u][i].request_id = state'[u].request_id =>
                 next'[u] \in {"final_response", "END"}
  BY DEF ThreadEffects, SameRequest
<1>8. run'[u] = "new" => journal'[u] = <<>>
  BY DEF UsedStays, ThreadEffects
<1>9. QED
  BY <1>5, <1>6, <1>7, <1>8 DEF ThreadEffects


LEMMA PlainStepEffects ==
    ASSUME TypeInv, EffectInv, NEW t \in Threads, PlainStep(t)
    PROVE  EffectInv'
<1>1. SubmissionsStay /\ UsedStays
  <2>1. run'[t] # "new" /\ \A u \in Threads \ {t} : run'[u] = run[u]
    BY DEF PlainStep, Errors, ExpectedErrors, CorruptionErrors
  <2>2. QED
    BY <2>1 DEF PlainStep, SubmissionsStay, UsedStays
<1>2. ASSUME NEW u \in Threads
      PROVE  /\ SameRequest(state'[u], state[u]) /\ journal'[u] = journal[u]
             /\ \/ next'[u] = next[u]
                \/ next[u] \notin {"final_response", "END"}
                \/ next'[u] \in {"final_response", "END"}
  BY DEF PlainStep, PlainNodes, Nodes, SameRequest
<1>3. QED
  BY <1>1, <1>2, EffectFrame DEF EffectInv

\* The request that is executed has not been journalled before: its case was
\* not past its execution.
LEMMA ExecuteEffects ==
    ASSUME TypeInv, EffectInv, NEW t \in Threads, NEW fails, NEW approved,
           At(t, "execute_safe_action") \/ At(t, "execute_approved_action"),
           Execute(t, fails, approved),
           UNCHANGED <<resume, interrupts, catalog, submitted, reviews, replies>>
    PROVE  EffectInv'
<1> DEFINE s == state[t]
<1>1. SubmissionsStay /\ UsedStays
  <2>1. run'[t] # "new" /\ \A u \in Threads \ {t} : run'[u] = run[u]
    BY ExecuteEffect DEF Refused, Executed, Errors, ExpectedErrors, CorruptionErrors
  <2>2. QED
    BY <2>1 DEF SubmissionsStay, UsedStays
<1>2. \A u \in Threads \ {t} : ThreadEffects(u)'
  <2>1. \A u \in Threads \ {t} : /\ state'[u] = state[u] /\ next'[u] = next[u]
                                 /\ journal'[u] = journal[u]
    BY ExecuteEffect
  <2>2. QED
    BY <1>1, <2>1, EffectFrame DEF EffectInv, SameRequest
<1>3. CASE Refused(t)
  <2>1. ThreadEffects(t)'
    BY <1>1, <1>3, EffectFrame DEF Refused, EffectInv, SameRequest
  <2>2. QED
    BY <1>2, <2>1 DEF EffectInv
<1>4. CASE Executed(t, approved)
  <2> PICK address : journal' = [journal EXCEPT ![t] = Append(@, EffectAt(t, address))]
    BY <1>4 DEF Executed
  <2> DEFINE last == Len(journal[t]) + 1
  <2>1. journal[t] \in Seq(Effects)
    BY DEF TypeInv, TypeOK
  <2>2. /\ DOMAIN journal'[t] = DOMAIN journal[t] \cup {last} /\ last \notin DOMAIN journal[t]
        /\ \A i \in DOMAIN journal[t] : journal'[t][i] = journal[t][i]
        /\ journal'[t][last] = EffectAt(t, address)
    BY <2>1 DEF TypeInv, TypeOK
  <2>3. journal'[t][last].request_id = s.request_id
    BY <2>2 DEF EffectAt
  <2>4. SameRequest(state'[t], s) /\ next'[t] = "final_response"
    BY <1>4 DEF Executed
  <2>5. s.request_id # None
    BY DEF TypeInv, ChannelsReady, Ready, At
  <2>6. /\ submitted[s.request_id] # None
        /\ submitted[s.request_id].thread = t
    BY <2>5 DEF EffectInv, ThreadEffects, StartedWith
  <2>7. \A i \in DOMAIN journal[t] : journal[t][i].request_id # s.request_id
    BY DEF EffectInv, ThreadEffects, At
  <2>8. ASSUME NEW i \in DOMAIN journal'[t]
        PROVE  /\ submitted'[journal'[t][i].request_id] # None
               /\ submitted'[journal'[t][i].request_id].thread = t
               /\ \A j \in DOMAIN journal'[t] :
                      journal'[t][i].request_id = journal'[t][j].request_id => i = j
    <3>1. CASE i \in DOMAIN journal[t]
      <4>1. /\ submitted[journal[t][i].request_id] # None
            /\ submitted[journal[t][i].request_id].thread = t
            /\ \A j \in DOMAIN journal[t] :
                   journal[t][i].request_id = journal[t][j].request_id => i = j
        BY <3>1 DEF EffectInv, ThreadEffects
      <4>2. QED
        BY <2>2, <2>3, <2>7, <3>1, <4>1
    <3>2. CASE i = last
      BY <2>2, <2>3, <2>6, <2>7, <3>2
    <3>3. QED
      BY <2>2, <3>1, <3>2
  <2>9. ThreadEffects(t)'
    BY <1>4, <2>4, <2>8 DEF Executed, EffectInv, ThreadEffects, SameRequest, StartedWith
  <2>10. QED
    BY <1>2, <2>9 DEF EffectInv
<1>5. QED
  BY <1>3, <1>4, ExecuteEffect


LEMMA ApprovalEffects ==
    ASSUME TypeInv, EffectInv, NEW t \in Threads, RequestApproval(t) \/ ResolveApproval(t)
    PROVE  EffectInv'
<1>1. /\ SubmissionsStay /\ UsedStays
      /\ journal' = journal /\ next[t] = "human_approval"
  BY DEF SubmissionsStay, UsedStays, RequestApproval, ResolveApproval, Raise, Commit,
         TypeInv, TypeOK, history, At
<1>2. state[t] \in CaseStates
  BY DEF TypeInv, TypeOK
<1>3. ASSUME NEW u \in Threads
      PROVE  /\ SameRequest(state'[u], state[u])
             /\ next'[u] = next[u] \/ u = t
  <2>1. CASE state' = state /\ next' = next
    BY <2>1 DEF SameRequest
  <2>2. ASSUME NEW decision, NEW n,
               Commit(t, [state[t] EXCEPT !.human_decision = decision,
                                          !.audit_log = Append(@, "human_approval")], n)
        PROVE  /\ SameRequest(state'[u], state[u])
               /\ next'[u] = next[u] \/ u = t
    BY <1>2, <2>2 DEF Commit, TypeInv, TypeOK, SameRequest, CaseStates
  <2>3. QED
    BY <2>1, <2>2 DEF RequestApproval, ResolveApproval, Raise
<1>4. QED
  BY <1>1, <1>3, EffectFrame DEF EffectInv

\* A new request is not in any journal: only submitted requests are.
LEMMA StartEffects ==
    ASSUME TypeInv, EffectInv, NEW t \in Threads, NEW r \in Optional(Requests),
           NEW c \in Optional(CustomerIds), NEW m \in Optional(Messages),
           NEW complete \in BOOLEAN, StartRequest(t, r, c, m, complete)
    PROVE  EffectInv'
<1>1. SubmissionsStay /\ UsedStays /\ journal' = journal
  BY DEF StartRequest, SubmissionsStay, UsedStays, TypeInv, TypeOK
<1>2. \A u \in Threads \ {t} : ThreadEffects(u)'
  <2>1. \A u \in Threads \ {t} : state'[u] = state[u] /\ next'[u] = next[u]
    BY DEF StartRequest, TypeInv, TypeOK
  <2>2. QED
    BY <1>1, <2>1, EffectFrame DEF EffectInv, SameRequest
<1>3. ThreadEffects(t)'
  <2>1. /\ state'[t].request_id = r /\ state'[t].customer_id = c
        /\ state'[t].customer_message = m
    <3>1. state[t] \in CaseStates
      BY DEF TypeInv, TypeOK
    <3>2. state'[t] = [state[t] EXCEPT !.request_id = r, !.customer_id = c,
                                       !.customer_message = m]
      BY DEF StartRequest, TypeInv, TypeOK
    <3>3. QED
      BY <3>1, <3>2 DEF CaseStates
  <2>2. ASSUME NEW i \in DOMAIN journal[t]
        PROVE  /\ journal[t][i].request_id # r
               /\ submitted'[journal[t][i].request_id] = submitted[journal[t][i].request_id]
    <3>1. journal[t][i].request_id \in Requests
      BY JournalledRequest
    <3>2. submitted[journal[t][i].request_id] # None
      BY DEF EffectInv, ThreadEffects
    <3>3. QED
      BY <1>1, <3>1, <3>2, GraphAssumption DEF StartRequest, SubmissionsStay
  <2>3. run'[t] # "new"
    BY DEF StartRequest, TypeInv, TypeOK
  <2>4. ASSUME r # None
        PROVE  StartedWith(submitted'[r], t, state'[t])
    <3>1. submitted'[r] = [thread |-> t, customer_id |-> c, customer_message |-> m,
                           complete |-> complete]
      BY <2>4 DEF StartRequest, TypeInv, TypeOK, Optional
    <3>2. submitted'[r] # None
      BY <3>1, AbsentAssumption DEF Submissions
    <3>3. QED
      BY <2>1, <3>1, <3>2 DEF StartedWith
  <2>5. ASSUME NEW i \in DOMAIN journal[t]
        PROVE  /\ submitted[journal[t][i].request_id] # None
               /\ submitted[journal[t][i].request_id].thread = t
               /\ \A j \in DOMAIN journal[t] :
                      journal[t][i].request_id = journal[t][j].request_id => i = j
    BY DEF EffectInv, ThreadEffects
  <2>6. ASSUME NEW i \in DOMAIN journal'[t]
        PROVE  /\ submitted'[journal'[t][i].request_id] # None
               /\ submitted'[journal'[t][i].request_id].thread = t
               /\ journal'[t][i].request_id # state'[t].request_id
               /\ \A j \in DOMAIN journal'[t] :
                      journal'[t][i].request_id = journal'[t][j].request_id => i = j
    BY <1>1, <2>1, <2>2, <2>5
  <2>7. QED
    BY <2>1, <2>3, <2>4, <2>6 DEF ThreadEffects
<1>4. QED
  BY <1>2, <1>3 DEF EffectInv

LEMMA ResumeEffects ==
    ASSUME TypeInv, EffectInv, NEW t \in Threads, NEW d, Resume(t, d)
    PROVE  EffectInv'
<1>1. /\ SubmissionsStay /\ UsedStays
      /\ journal' = journal /\ state' = state /\ next' = next
  BY DEF Resume, SubmissionsStay, UsedStays, TypeInv, TypeOK
<1>2. QED
  BY <1>1, EffectFrame DEF EffectInv, SameRequest

\* A thread without a checkpoint has no journal.
LEMMA ResumeUnknownThreadEffects ==
    ASSUME TypeInv, EffectInv, NEW t \in Threads, ResumeUnknownThread(t)
    PROVE  EffectInv'
<1>1. /\ SubmissionsStay /\ UsedStays
      /\ journal' = journal /\ state' = state
      /\ \A u \in Threads \ {t} : next'[u] = next[u]
  BY DEF ResumeUnknownThread, SubmissionsStay, UsedStays, history, TypeInv, TypeOK
<1>2. journal[t] = <<>>
  BY DEF ResumeUnknownThread, EffectInv, ThreadEffects
<1>3. QED
  BY <1>1, <1>2, EffectFrame DEF EffectInv, SameRequest


LEMMA InitEffects == Init => EffectInv
<1> SUFFICES ASSUME Init, NEW t \in Threads
             PROVE  ThreadEffects(t)
  BY DEF EffectInv
<1>1. journal[t] = <<>> /\ state[t].request_id = None
  BY DEF Init, EmptyState
<1>2. QED
  BY <1>1 DEF ThreadEffects

LEMMA StepEffects == TypeInv /\ EffectInv /\ [Next]_vars => EffectInv'
<1> SUFFICES ASSUME TypeInv, EffectInv, [Next]_vars
             PROVE  EffectInv'
  OBVIOUS
<1>1. CASE UNCHANGED vars
  BY <1>1, EffectFrame DEF EffectInv, vars, history, SubmissionsStay, UsedStays, SameRequest
<1>2. ASSUME NEW t \in Threads, GraphStep(t)
      PROVE  EffectInv'
  <2>1. CASE ExecuteSafeAction(t)
    BY <2>1, ExecuteEffects DEF ExecuteSafeAction
  <2>2. CASE ExecuteApprovedAction(t)
    BY <2>2, ExecuteEffects DEF ExecuteApprovedAction
  <2>3. QED
    BY <1>2, <2>1, <2>2, GraphSteps, PlainStepEffects, ApprovalEffects
<1>3. QED
  BY <1>1, <1>2, SubmitStarts, StartEffects, ResumeEffects, ResumeUnknownThreadEffects
     DEF Next

LEMMA EffectInvariance == Spec => []EffectInv
  BY InitEffects, StepEffects, TypeInvariance, PTL DEF Spec

\* A request mutates the store at most once, in the thread it was submitted
\* on: nothing a caller can do runs an execution node twice for it.
THEOREM OneEffectForEachRequest == Spec => []OneEffectPerRequest
<1>1. TypeInv /\ EffectInv => OneEffectPerRequest
  <2> SUFFICES ASSUME EffectInv,
                      NEW t \in Threads, NEW u \in Threads,
                      NEW i \in DOMAIN journal[t], NEW j \in DOMAIN journal[u],
                      journal[t][i].request_id = journal[u][j].request_id
               PROVE  t = u /\ i = j
    BY DEF OneEffectPerRequest
  <2>1. /\ submitted[journal[t][i].request_id].thread = t
        /\ submitted[journal[u][j].request_id].thread = u
    BY DEF EffectInv, ThreadEffects
  <2>2. t = u
    BY <2>1
  <2>3. \A k \in DOMAIN journal[t] :
            journal[t][i].request_id = journal[t][k].request_id => i = k
    BY DEF EffectInv, ThreadEffects
  <2>4. QED
    BY <2>2, <2>3
<1>2. QED
  BY <1>1, TypeInvariance, EffectInvariance, PTL

-----------------------------------------------------------------------------
\* The life of an order.

\* Whatever the policy decided and however long ago, the store's own checks
\* keep each of its operations legal.
LEMMA ExecutionIsLegal ==
    ASSUME NEW s \in Stores, NEW proposed \in ProposedActions, NEW input \in ActionInputs,
           NEW approved, ~ExecutionFails(proposed, input, s, approved),
           NEW after, after = ExecuteAction(proposed, input, s), NEW o \in Orders
    PROVE  /\ after.orders[o].status # s.orders[o].status =>
                  /\ s.orders[o].status \in {"pending", "processing"}
                  /\ after.orders[o].status = "cancelled"
           /\ after.orders[o].shipping_address # s.orders[o].shipping_address =>
                  /\ s.orders[o].status \in {"pending", "processing"}
                  /\ after.orders[o].status = s.orders[o].status
           /\ s.orders[o].payment_status = "refunded" =>
                  after.orders[o].payment_status = "refunded"
<1> DEFINE x == input.order_id
<1>1. /\ s.orders \in [Orders -> OrderRecords] /\ x \in Orders
      /\ proposed.action_type \in {"cancel_order", "change_address", "issue_refund",
                                   "investigate_billing", "investigate_product_issue"}
  BY ExecutionType DEF Stores, ProposedActions, ActionTypes
<1>2. s.orders[o] \in OrderRecords /\ s.orders[x] \in OrderRecords
  BY <1>1
<1>3. CASE proposed.action_type = "cancel_order"
  BY <1>1, <1>2, <1>3
     DEF ExecutionFails, ExecuteAction, CancelOrder, CanCancel, CancellableStatuses,
         OrderRecords, Stores
<1>4. CASE proposed.action_type = "change_address"
  BY <1>1, <1>2, <1>4
     DEF ExecutionFails, ExecuteAction, ChangeShippingAddress, CanChangeAddress,
         AddressChangeableStatuses, OrderRecords, Stores
<1>5. CASE proposed.action_type = "issue_refund"
  BY <1>1, <1>2, <1>5 DEF ExecuteAction, IssueFullRefund, OrderRecords, Stores
<1>6. CASE proposed.action_type \in {"investigate_billing", "investigate_product_issue"}
  BY <1>1, <1>6
     DEF ExecuteAction, CreateBillingInvestigation, CreateProductInvestigation, Stores
<1>7. QED
  BY <1>1, <1>3, <1>4, <1>5, <1>6

LEMMA ExecutionKeepsInvestigations ==
    ASSUME NEW s \in Stores, NEW proposed \in ProposedActions, NEW input \in ActionInputs,
           NEW after, after = ExecuteAction(proposed, input, s)
    PROVE  s.billing \subseteq after.billing /\ s.product \subseteq after.product
  BY DEF ExecuteAction, CancelOrder, ChangeShippingAddress, IssueFullRefund,
         CreateBillingInvestigation, CreateProductInvestigation, Stores,
         ProposedActions, ActionTypes

LEMMA ExecutionStep ==
    ASSUME TypeInv, NEW t \in Threads, NEW approved,
           At(t, "execute_safe_action") \/ At(t, "execute_approved_action"),
           Refused(t) \/ Executed(t, approved)
    PROVE  LegalStoreStep
<1> DEFINE s == state[t]
<1>1. CASE Refused(t)
  BY <1>1 DEF Refused, LegalStoreStep
<1>2. CASE Executed(t, approved)
  <2>1. store \in Stores /\ s \in CaseStates
    BY DEF TypeInv, TypeOK
  <2>2. s.proposed_action \in ProposedActions /\ s.action_input \in ActionInputs
    <3>1. s.proposed_action # None /\ s.action_input # None
      BY DEF TypeInv, ChannelsReady, Ready, At, NeedInput, NeedProposal
    <3>2. /\ s.proposed_action \in Optional(ProposedActions)
          /\ s.action_input \in Optional(ActionInputs)
      BY <2>1 DEF CaseStates
    <3>3. QED
      BY <3>1, <3>2
  <2>3. /\ ~ExecutionFails(s.proposed_action, s.action_input, store, approved)
        /\ store' = ExecuteAction(s.proposed_action, s.action_input, store)
    BY <1>2 DEF Executed
  <2>4. /\ store.billing \subseteq store'.billing /\ store.product \subseteq store'.product
    BY <2>1, <2>2, <2>3, ExecutionKeepsInvestigations
  <2>5. QED
    BY <2>1, <2>2, <2>3, <2>4, ExecutionIsLegal DEF LegalStoreStep
<1>3. QED
  BY <1>1, <1>2

\* Whatever the interleaving, only an open order is cancelled or has its
\* address changed, a refund is final and an investigation is never withdrawn:
\* no policy decision, however stale, takes an order anywhere else.
THEOREM OrdersLiveLegally == Spec => OrderLifecycle
<1>1. TypeInv /\ [Next]_vars => [LegalStoreStep]_vars
  <2> SUFFICES ASSUME TypeInv, Next
               PROVE  LegalStoreStep
    OBVIOUS
  <2>1. CASE store' = store
    BY <2>1 DEF LegalStoreStep
  <2>2. ASSUME NEW t \in Threads, GraphStep(t)
        PROVE  LegalStoreStep
    <3>1. CASE ExecuteSafeAction(t)
      BY <3>1, ExecuteEffect, ExecutionStep DEF ExecuteSafeAction
    <3>2. CASE ExecuteApprovedAction(t)
      BY <3>2, ExecuteEffect, ExecutionStep DEF ExecuteApprovedAction
    <3>3. CASE PlainStep(t)
      BY <2>1, <3>3 DEF PlainStep
    <3>4. CASE RequestApproval(t) \/ ResolveApproval(t)
      BY <2>1, <3>4 DEF RequestApproval, ResolveApproval
    <3>5. QED
      BY <2>2, <3>1, <3>2, <3>3, <3>4, GraphSteps
  <2>3. ASSUME NEW t \in Threads, Submit(t) \/ ResumeUnknownThread(t)
        PROVE  LegalStoreStep
    BY <2>1, <2>3, SubmitStarts DEF StartRequest, ResumeUnknownThread
  <2>4. ASSUME NEW t \in Threads, NEW d, Resume(t, d)
        PROVE  LegalStoreStep
    BY <2>1, <2>4 DEF Resume
  <2>5. QED
    BY <2>2, <2>3, <2>4 DEF Next
<1>2. QED
  BY <1>1, TypeInvariance, PTL DEF Spec, OrderLifecycle

-----------------------------------------------------------------------------
\* A review decides its request once and for all.  RejectedNeverActs is not
\* inductive: a decision is on record before the node that obeys it runs.
\* DecidedInv says where a thread can be once its request is decided.

AfterReview == {"human_approval", "execute_approved_action", "approval_rejected",
                "final_response", "END"}

\* A thread whose current request was decided is on its way to obey it: it
\* does not ask again, and after a rejection it does not execute.
ThreadDecided(t) ==
    \A v \in reviews : v.request_id = state[t].request_id =>
        /\ run[t] \notin {"new", "paused"} /\ next[t] \in AfterReview
        /\ At(t, "human_approval") => resume[t] = v.decision
        /\ v.decision = "rejected" => next[t] # "execute_approved_action"

\* A review is about a request submitted on its thread.
ReviewsRegistered ==
    \A v \in reviews : /\ submitted[v.request_id] # None
                       /\ submitted[v.request_id].thread = v.thread

DecidedInv ==
    /\ \A t \in Threads : ThreadDecided(t)
    /\ ReviewsRegistered
    /\ RejectedNeverActs

CaseInv == TypeInv /\ ReviewInv /\ EffectInv /\ DecidedInv

-----------------------------------------------------------------------------
\* Steps by what they change.

LEMMA DecidedFrame ==
    ASSUME NEW u \in Threads, ThreadDecided(u),
           state'[u].request_id = state[u].request_id, next'[u] = next[u],
           run'[u] = run[u], resume'[u] = resume[u],
           \A v \in reviews' : v.request_id = state[u].request_id => v \in reviews
    PROVE  ThreadDecided(u)'
  BY DEF ThreadDecided, At

\* A step that records no review and executes nothing.
LEMMA NoReviewStep ==
    ASSUME CaseInv, NEW t \in Threads, UNCHANGED <<reviews, journal>>, SubmissionsStay,
           \A u \in Threads \ {t} :
               /\ state'[u] = state[u] /\ next'[u] = next[u] /\ run'[u] = run[u]
               /\ resume'[u] = resume[u],
           ThreadDecided(t)'
    PROVE  DecidedInv'
<1>1. \A u \in Threads : ThreadDecided(u)'
  BY DecidedFrame DEF CaseInv, DecidedInv
<1>2. ReviewsRegistered'
  <2>1. reviews \subseteq Reviews
    BY DEF CaseInv, TypeInv, TypeOK
  <2>2. QED
    BY <2>1 DEF CaseInv, DecidedInv, ReviewsRegistered, SubmissionsStay, Reviews
<1>3. RejectedNeverActs'
  BY DEF CaseInv, DecidedInv, RejectedNeverActs, Acted
<1>4. QED
  BY <1>1, <1>2, <1>3 DEF DecidedInv

-----------------------------------------------------------------------------
\* The supersteps.

\* The branch of a rejection leads to the reply.
LEMMA RejectionIsReplied ==
    ASSUME TypeInv, NEW t \in Threads, GraphStep(t), next[t] = "approval_rejected"
    PROVE  next'[t] \in {"approval_rejected", "final_response"}
<1>1. ApprovalRejected(t)
  BY DEF GraphStep, At, Intake, ClassifyRequest, LoadContext, ResolveOrderNode,
         EvaluatePolicyNode, Clarification, Information, Blocked, ProposeActionNode,
         PrepareActionInputNode, ExecuteSafeAction, PrepareApproval, PrepareApprovalInput,
         RequestApproval, ResolveApproval, ExecuteApprovedAction, FinalResponse
<1>2. QED
  BY <1>1 DEF ApprovalRejected, Settle, Raise, Commit, TypeInv, TypeOK

LEMMA PlainStepDecided ==
    ASSUME CaseInv, NEW t \in Threads, GraphStep(t), PlainStep(t)
    PROVE  DecidedInv'
<1>1. ThreadDecided(t)'
  <2> SUFFICES ASSUME NEW v \in reviews, v.request_id = state[t].request_id
               PROVE  /\ run'[t] \notin {"new", "paused"}
                      /\ next'[t] \in {"approval_rejected", "final_response", "END"}
    BY DEF PlainStep, SameRequest, ThreadDecided, At, AfterReview
  <2>1. next[t] \in {"approval_rejected", "final_response"}
    BY DEF CaseInv, DecidedInv, ThreadDecided, AfterReview, PlainStep, PlainNodes, Nodes,
           NeedInput
  <2>2. next[t] = "approval_rejected" => next'[t] \in {"approval_rejected", "final_response"}
    BY RejectionIsReplied DEF CaseInv
  <2>3. next[t] = "final_response" => next'[t] \in {"final_response", "END"}
    BY DEF PlainStep
  <2>4. run'[t] \notin {"new", "paused"}
    BY DEF PlainStep, Errors, ExpectedErrors, CorruptionErrors
  <2>5. QED
    BY <2>1, <2>2, <2>3, <2>4
<1>2. SubmissionsStay
  BY DEF PlainStep, SubmissionsStay
<1>3. QED
  BY <1>1, <1>2, NoReviewStep DEF PlainStep

\* The card is shown for a request that is not decided.
LEMMA RequestApprovalDecided ==
    ASSUME CaseInv, NEW t \in Threads, RequestApproval(t)
    PROVE  DecidedInv'
<1>1. /\ UNCHANGED <<reviews, journal, resume, submitted, state, next>>
      /\ \A u \in Threads \ {t} : run'[u] = run[u]
  BY DEF RequestApproval, Raise, history, CaseInv, TypeInv, TypeOK
<1>2. reviews \subseteq Reviews
  BY DEF CaseInv, TypeInv, TypeOK
<1>3. \A v \in reviews : v.request_id # state[t].request_id
  BY <1>2, AbsentAssumption
     DEF RequestApproval, CaseInv, DecidedInv, ThreadDecided, Reviews
<1>4. ThreadDecided(t)'
  BY <1>1, <1>3 DEF ThreadDecided
<1>5. QED
  BY <1>1, <1>4, NoReviewStep DEF SubmissionsStay

\* The decision that is obeyed is the one on record.
LEMMA ResolveApprovalDecided ==
    ASSUME CaseInv, NEW t \in Threads, ResolveApproval(t)
    PROVE  DecidedInv'
<1> DEFINE s == state[t]
           decision == ParseHumanApprovalResponse(resume[t])
           update == [s EXCEPT !.human_decision = decision,
                               !.audit_log = Append(@, "human_approval")]
<1>1. /\ UNCHANGED <<reviews, journal, submitted>> /\ At(t, "human_approval")
      /\ \A u \in Threads \ {t} :
             /\ state'[u] = state[u] /\ next'[u] = next[u] /\ run'[u] = run[u]
             /\ resume'[u] = resume[u]
  BY DEF ResolveApproval, Raise, Commit, history, CaseInv, TypeInv, TypeOK
<1>2. ThreadDecided(t)'
  <2>1. CASE Raise(t, "ApprovalError")
    <3>1. state' = state /\ next' = next /\ run'[t] = "ApprovalError"
      BY <2>1 DEF Raise, CaseInv, TypeInv, TypeOK
    <3>2. QED
      BY <1>1, <3>1 DEF CaseInv, DecidedInv, ThreadDecided, At
  <2>2. CASE /\ decision # None
             /\ Commit(t, update, IF decision = "approved" THEN "execute_approved_action"
                                                           ELSE "approval_rejected")
    <3>1. /\ next'[t] = IF decision = "approved" THEN "execute_approved_action"
                                                 ELSE "approval_rejected"
          /\ state'[t] = update /\ run'[t] = "running"
      BY <2>2 DEF Commit, CaseInv, TypeInv, TypeOK
    <3>2. state'[t].request_id = s.request_id
      <4>1. s \in CaseStates
        BY DEF CaseInv, TypeInv, TypeOK
      <4>2. QED
        BY <3>1, <4>1 DEF CaseStates
    <3>3. \A v \in reviews : v.request_id = s.request_id => v.decision = decision
      BY <1>1, <2>2 DEF CaseInv, DecidedInv, ThreadDecided, ParseHumanApprovalResponse
    <3>4. QED
      BY <1>1, <3>1, <3>2, <3>3 DEF ThreadDecided, AfterReview, At
  <2>3. QED
    BY <2>1, <2>2 DEF ResolveApproval
<1>3. QED
  BY <1>1, <1>2, NoReviewStep DEF SubmissionsStay

\* What is executed was not rejected.
LEMMA ExecuteDecided ==
    ASSUME CaseInv, NEW t \in Threads, NEW fails, NEW approved,
           At(t, "execute_safe_action") \/ At(t, "execute_approved_action"),
           Execute(t, fails, approved),
           UNCHANGED <<resume, interrupts, catalog, submitted, reviews, replies>>
    PROVE  DecidedInv'
<1>1. /\ \A u \in Threads \ {t} :
             /\ state'[u] = state[u] /\ next'[u] = next[u] /\ run'[u] = run[u]
             /\ journal'[u] = journal[u]
      /\ Refused(t) \/ Executed(t, approved)
  BY ExecuteEffect DEF CaseInv
<1>2. \A v \in reviews : v.request_id = state[t].request_id => v.decision # "rejected"
  BY DEF CaseInv, DecidedInv, ThreadDecided, At, AfterReview
<1>3. CASE Refused(t)
  <2>1. ThreadDecided(t)'
    BY <1>3 DEF Refused, CaseInv, DecidedInv, ThreadDecided, At, Errors, ExpectedErrors,
                CorruptionErrors
  <2>2. QED
    BY <1>1, <1>3, <2>1, NoReviewStep DEF Refused, SubmissionsStay
<1>4. CASE Executed(t, approved)
  <2>1. state'[t].request_id = state[t].request_id /\ next'[t] = "final_response"
        /\ run'[t] = "running"
    BY <1>4 DEF Executed, SameRequest
  <2>2. \A u \in Threads : ThreadDecided(u)'
    <3>1. ThreadDecided(t)'
      BY <2>1 DEF ThreadDecided, AfterReview, At
    <3>2. \A u \in Threads \ {t} : ThreadDecided(u)'
      BY <1>1, DecidedFrame DEF CaseInv, DecidedInv
    <3>3. QED
      BY <3>1, <3>2
  <2>3. ReviewsRegistered'
    BY DEF CaseInv, DecidedInv, ReviewsRegistered
  <2>4. ASSUME NEW v \in reviews, v.decision = "rejected" PROVE ~Acted(v.thread, v.request_id)'
    <3>1. ~Acted(v.thread, v.request_id) /\ v.thread \in Threads
      BY <2>4 DEF CaseInv, DecidedInv, RejectedNeverActs, TypeInv, TypeOK, Reviews
    <3>2. CASE v.thread # t
      BY <1>1, <3>1, <3>2 DEF Acted
    <3>3. CASE v.thread = t
      <4>1. PICK address : journal' = [journal EXCEPT ![t] = Append(@, EffectAt(t, address))]
        BY <1>4 DEF Executed
      <4>2. journal[t] \in Seq(Effects)
        BY DEF CaseInv, TypeInv, TypeOK
      <4>3. \A i \in DOMAIN journal'[t] :
                \/ i \in DOMAIN journal[t] /\ journal'[t][i] = journal[t][i]
                \/ journal'[t][i] = EffectAt(t, address)
        BY <4>1, <4>2 DEF CaseInv, TypeInv, TypeOK
      <4>4. EffectAt(t, address).request_id # v.request_id
        BY <1>2, <2>4 DEF EffectAt
      <4>5. QED
        BY <3>1, <3>3, <4>3, <4>4 DEF Acted
    <3>4. QED
      BY <3>2, <3>3
  <2>5. RejectedNeverActs'
    BY <2>4 DEF CaseInv, DecidedInv, RejectedNeverActs
  <2>6. QED
    BY <2>2, <2>3, <2>5 DEF DecidedInv
<1>5. QED
  BY <1>1, <1>3, <1>4

-----------------------------------------------------------------------------
\* The callers.

\* A new request is not decided: reviews are about submitted requests.
LEMMA StartDecided ==
    ASSUME CaseInv, NEW t \in Threads, NEW r \in Optional(Requests),
           NEW c \in Optional(CustomerIds), NEW m \in Optional(Messages),
           NEW complete \in BOOLEAN, StartRequest(t, r, c, m, complete)
    PROVE  DecidedInv'
<1>1. /\ UNCHANGED <<reviews, journal>> /\ (r # None => submitted[r] = None)
      /\ \A u \in Threads \ {t} :
             /\ state'[u] = state[u] /\ next'[u] = next[u] /\ run'[u] = run[u]
             /\ resume'[u] = resume[u]
  BY DEF StartRequest, CaseInv, TypeInv, TypeOK
<1>2. SubmissionsStay
  BY DEF StartRequest, SubmissionsStay, CaseInv, TypeInv, TypeOK
<1>3. state'[t].request_id = r
  <2>1. state[t] \in CaseStates
    BY DEF CaseInv, TypeInv, TypeOK
  <2>2. state'[t] = [state[t] EXCEPT !.request_id = r, !.customer_id = c,
                                     !.customer_message = m]
    BY DEF StartRequest, CaseInv, TypeInv, TypeOK
  <2>3. QED
    BY <2>1, <2>2 DEF CaseStates
<1>4. \A v \in reviews : v.request_id # r
  <2>1. \A v \in reviews : v.request_id \in Requests /\ submitted[v.request_id] # None
    BY DEF CaseInv, TypeInv, TypeOK, Reviews, DecidedInv, ReviewsRegistered
  <2>2. QED
    BY <1>1, <2>1, GraphAssumption
<1>5. ThreadDecided(t)'
  BY <1>1, <1>3, <1>4 DEF ThreadDecided
<1>6. QED
  BY <1>1, <1>2, <1>5, NoReviewStep

\* A thread without a checkpoint serves no request.
LEMMA ResumeUnknownThreadDecided ==
    ASSUME CaseInv, NEW t \in Threads, ResumeUnknownThread(t)
    PROVE  DecidedInv'
<1>1. /\ UNCHANGED <<reviews, journal, submitted, state, resume>>
      /\ \A u \in Threads \ {t} : next'[u] = next[u] /\ run'[u] = run[u]
  BY DEF ResumeUnknownThread, CaseInv, TypeInv, TypeOK, history
<1>2. ThreadDecided(t)'
  BY <1>1 DEF ResumeUnknownThread, CaseInv, DecidedInv, ThreadDecided
<1>3. QED
  BY <1>1, <1>2, NoReviewStep DEF SubmissionsStay

\* The request that is decided was waiting: it is this thread's, it has no
\* review yet and no effect.
LEMMA ResumeDecided ==
    ASSUME CaseInv, NEW t \in Threads, NEW d \in Decisions \cup {"malformed"}, Resume(t, d)
    PROVE  DecidedInv'
<1> DEFINE r == state[t].request_id
<1>1. /\ UNCHANGED <<state, next, submitted, journal>>
      /\ run[t] = "paused" /\ next[t] = "human_approval"
      /\ run'[t] = "running" /\ resume'[t] = d
      /\ \A u \in Threads \ {t} : run'[u] = run[u] /\ resume'[u] = resume[u]
  BY DEF Resume, CaseInv, TypeInv, TypeOK, ChannelsReady
<1>2. \A v \in reviews : v.request_id # r
  BY <1>1 DEF CaseInv, DecidedInv, ThreadDecided
<1>3. r # None /\ r \in Requests
  <2>1. state[t] \in CaseStates
    BY DEF CaseInv, TypeInv, TypeOK
  <2>2. r # None
    BY <1>1 DEF CaseInv, TypeInv, ChannelsReady, Ready
  <2>3. QED
    BY <2>1, <2>2 DEF CaseStates
<1>4. submitted[r] # None /\ submitted[r].thread = t
  BY <1>3 DEF CaseInv, EffectInv, ThreadEffects, StartedWith
<1>5. ~Acted(t, r)
  BY <1>1 DEF Acted, CaseInv, EffectInv, ThreadEffects
<1>6. PICK new : /\ reviews \subseteq reviews'
                 /\ reviews' \subseteq reviews \cup {new}
                 /\ new.thread = t /\ new.request_id = r /\ new.decision = d
  <2> DEFINE review == [thread      |-> t,
                        request_id  |-> interrupts[t].request_id,
                        action_type |-> interrupts[t].action_type,
                        order_id    |-> interrupts[t].order_id,
                        decision    |-> d]
  <2>1. interrupts[t].request_id = r
    <3>1. interrupts[t] = BuildApprovalRequest(state[t].request_id,
                                               state[t].proposed_action)
      BY <1>1 DEF CaseInv, ReviewInv, ThreadReviewed
    <3>2. QED
      BY <3>1 DEF BuildApprovalRequest
  <2>2. review.thread = t /\ review.request_id = r /\ review.decision = d
    BY <2>1
  <2>3. reviews \subseteq reviews' /\ reviews' \subseteq reviews \cup {review}
    BY DEF Resume
  <2>4. QED
    BY <2>2, <2>3
<1>7. ThreadDecided(t)'
  BY <1>1, <1>2, <1>6 DEF ThreadDecided, AfterReview, At
<1>8. ASSUME NEW u \in Threads \ {t} PROVE ThreadDecided(u)'
  <2>1. state[u].request_id # r
    <3>1. state[u].request_id # None =>
              submitted[state[u].request_id].thread = u
      BY DEF CaseInv, EffectInv, ThreadEffects, StartedWith
    <3>2. QED
      BY <1>3, <1>4, <3>1
  <2>2. ThreadDecided(u)
    BY DEF CaseInv, DecidedInv
  <2>3. QED
    BY <1>1, <1>6, <2>1, <2>2, DecidedFrame
<1>9. ReviewsRegistered'
  BY <1>1, <1>4, <1>6 DEF CaseInv, DecidedInv, ReviewsRegistered
<1>10. RejectedNeverActs'
  BY <1>1, <1>2, <1>5, <1>6 DEF CaseInv, DecidedInv, RejectedNeverActs, Acted
<1>11. QED
  BY <1>7, <1>8, <1>9, <1>10 DEF DecidedInv

-----------------------------------------------------------------------------
LEMMA InitDecided == Init => DecidedInv
  BY DEF Init, DecidedInv, ThreadDecided, ReviewsRegistered, RejectedNeverActs

LEMMA StepDecided == CaseInv /\ [Next]_vars => DecidedInv'
<1> SUFFICES ASSUME CaseInv, [Next]_vars
             PROVE  DecidedInv'
  OBVIOUS
<1>1. CASE UNCHANGED vars
  BY <1>1 DEF vars, history, CaseInv, DecidedInv, ThreadDecided, ReviewsRegistered,
              RejectedNeverActs, Acted, At
<1>2. ASSUME NEW t \in Threads, GraphStep(t)
      PROVE  DecidedInv'
  <2>1. CASE ExecuteSafeAction(t)
    BY <2>1, ExecuteDecided DEF ExecuteSafeAction
  <2>2. CASE ExecuteApprovedAction(t)
    BY <2>2, ExecuteDecided DEF ExecuteApprovedAction
  <2>3. QED
    BY <1>2, <2>1, <2>2, GraphSteps, PlainStepDecided, RequestApprovalDecided,
       ResolveApprovalDecided DEF CaseInv
<1>3. QED
  BY <1>1, <1>2, SubmitStarts, StartDecided, ResumeDecided, ResumeUnknownThreadDecided
     DEF Next, CaseInv

LEMMA CaseInvariance == Spec => []CaseInv
<1>1. TypeInv /\ ReviewInv /\ EffectInv /\ DecidedInv <=> CaseInv
  BY DEF CaseInv
<1>2. Init => CaseInv
  BY InitTypes, InitReviews, InitEffects, InitDecided DEF CaseInv
<1>3. CaseInv /\ [Next]_vars => CaseInv'
  BY StepTypes, StepReviews, StepEffects, StepDecided DEF CaseInv
<1>4. QED
  BY <1>2, <1>3, PTL DEF Spec

\* A request is decided at most once, and a rejected one never reaches the
\* store: not on a used thread, not after a malformed answer, not when its
\* case raises, not with another case in between.
THEOREM RejectionIsFinal == Spec => []RejectedNeverActs
<1>1. CaseInv => RejectedNeverActs
  BY DEF CaseInv, DecidedInv
<1>2. QED
  BY <1>1, CaseInvariance, PTL

=============================================================================
