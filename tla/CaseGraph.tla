----------------------------- MODULE CaseGraph -----------------------------
(***************************************************************************)
(* The LangGraph workflow of customer_ops/graph.py: any number of threads  *)
(* (conversations) run the same compiled graph over one action store.      *)
(*                                                                         *)
(* A thread has a checkpoint - its CustomerOpsState and the node that runs *)
(* next - and a status that says what its last invoke did.  One action is  *)
(* one superstep: the node reads the checkpoint, and either its update is  *)
(* committed and the next node scheduled, or it raises, the invoke raises  *)
(* and the checkpoint stays as it was.  Supersteps of different threads    *)
(* interleave.  Checkpoints, interrupts and resumption are LangGraph's and *)
(* are modelled from how the graph and its tests use them.                 *)
(***************************************************************************)
EXTENDS CaseRules, Naturals, Sequences, FiniteSets

CONSTANTS
    Omitted,          \* a key the payload does not have
    Threads,          \* thread ids the callers own
    Requests,         \* request ids, each submitted at most once
    Customers,        \* registered customers
    CustomerIds,      \* ids a payload may carry, registered or not
    OwnerOf,          \* the customer of each order
    Messages,         \* messages, each the set of order ids it names
    Classifications,  \* the intents the classifier may answer
    Fixtures,         \* the order records a store may be loaded with
    SharedStore,      \* load_context reads the action store itself
    ReuseThreads      \* callers submit a further request on a used thread

ASSUME GraphAssumption ==
    /\ None \notin Requests
    /\ Omitted # None /\ Omitted \notin Requests
    /\ Omitted \notin CustomerIds /\ Omitted \notin Messages
    /\ Customers \subseteq CustomerIds /\ None \notin CustomerIds
    /\ OwnerOf \in [Orders -> Customers]
    /\ Messages \subseteq SUBSET Orders /\ None \notin Messages
    /\ Classifications \subseteq Intents
    /\ Fixtures \subseteq [Orders -> OrderRecords]
    /\ SharedStore \in BOOLEAN
    /\ ReuseThreads \in BOOLEAN

VARIABLES
    state,       \* thread -> its CustomerOpsState in the checkpointer
    next,        \* thread -> the node its checkpoint schedules
    run,         \* thread -> what its last invoke is doing or did
    resume,      \* thread -> the Command(resume=...) value not consumed yet
    interrupts,  \* thread -> the __interrupt__ payload of a paused thread
    store,       \* the action store of the graph
    catalog,     \* the fixture; what a separate read-only store keeps serving
    submitted,   \* history: request id -> what it was started with
    reviews,     \* history: the decisions reviewers gave, with what they saw
    journal,     \* history: thread -> the store mutations its cases made
    replies      \* history: thread -> what its replies were grounded on

checkpoint == <<state, next, run>>
history == <<submitted, reviews, journal, replies>>
vars == <<state, next, run, resume, interrupts, store, catalog, history>>

-----------------------------------------------------------------------------
Nodes == {"intake", "classify_request", "load_context", "resolve_order",
          "evaluate_policy", "clarification", "information", "propose_action",
          "prepare_action_input", "execute_safe_action", "prepare_approval",
          "prepare_approval_input", "human_approval", "execute_approved_action",
          "approval_rejected", "blocked", "final_response"}

WorkflowStatuses == {"received", "classified", "context_loaded", "order_resolved",
                     "policy_checked", "clarification_required", "information_ready",
                     "action_proposed", "action_input_ready", "awaiting_approval",
                     "approval_rejected", "blocked", "action_executed", "escalated",
                     "completed", "failed"}

AuditSteps == {"intake", "classification", "context_loading", "order_resolution",
               "policy_evaluation", "clarification", "information",
               "action_proposal", "approval_required", "action_input",
               "human_approval", "action_execution", "approval_rejected",
               "blocked", "final_response"}

\* Raised for input the code expects to meet.
ExpectedErrors == {"InvalidCustomerRequest", "ClassificationError",
                   "CustomerNotFoundError", "ActionInputError", "ApprovalError",
                   "ActionExecutionError", "ResponseGenerationError"}

\* Raised only for a state that should never occur.
CorruptionErrors == {"OrderResolutionError", "PolicyEvaluationError",
                     "RoutingError", "ActionProposalError"}

Errors == ExpectedErrors \cup CorruptionErrors

Optional(S) == S \cup {None}

OwnedBy(c) == {o \in Orders : OwnerOf[o] = c}

\* What load_context may have read.
OrderContexts == UNION {[OwnedBy(c) -> OrderRecords] : c \in Customers}

CaseStates ==
    [request_id        : Optional(Requests),
     customer_id       : Optional(CustomerIds),
     customer_message  : Optional(Messages),
     intent            : Optional(Intents),
     order_context     : Optional(OrderContexts),
     selected_order_id : Optional(Orders),
     order_resolution  : Optional(Resolutions),
     policy_assessment : Optional(Assessments),
     route             : Optional(CaseRoutes),
     proposed_action   : Optional(ProposedActions),
     action_input      : Optional(ActionInputs),
     human_decision    : Optional(Decisions),
     action_result     : Optional(ActionResults),
     final_response    : Optional(Requests),
     workflow_status   : Optional(WorkflowStatuses),
     audit_log         : Seq(AuditSteps)]

EmptyState ==
    [request_id |-> None, customer_id |-> None, customer_message |-> None,
     intent |-> None, order_context |-> None, selected_order_id |-> None,
     order_resolution |-> None, policy_assessment |-> None, route |-> None,
     proposed_action |-> None, action_input |-> None, human_decision |-> None,
     action_result |-> None, final_response |-> None, workflow_status |-> None,
     audit_log |-> <<>>]

\* What a request is started with: the values its thread has once the payload
\* is merged into it, and whether the payload itself carried them.
Submissions == [thread           : Threads,
                customer_id      : Optional(CustomerIds),
                customer_message : Optional(Messages),
                complete         : BOOLEAN]

\* An absent channel is never mistaken for a value of it.
ASSUME AbsentAssumption ==
    /\ None \notin OrderContexts \cup Resolutions \cup ProposedActions
    /\ None \notin ActionInputs \cup ActionResults \cup Decisions \cup Intents
    /\ None # "malformed"
    /\ None \notin ApprovalRequests(Requests) \cup Submissions

Reviews == [thread : Threads, request_id : Requests, action_type : ActionTypes,
            order_id : Orders, decision : Decisions]

Effects == [request_id : Requests, action_type : ActionTypes, order_id : Orders,
            new_shipping_address : Optional(Addresses)]

\* The part of ResponseContext the properties tell apart; the message, the
\* policy labels, the proposal and its input are passed through unchanged.
ResponseContexts == [route           : Optional(CaseRoutes),
                     workflow_status : Optional(WorkflowStatuses),
                     order_id        : Optional(Orders),
                     order_status    : Optional(OrderStatuses),
                     human_decision  : Optional(Decisions),
                     action_result   : Optional(ActionResults)]

Replies == [request_id : Optional(Requests), context : ResponseContexts]

-----------------------------------------------------------------------------
Init ==
    /\ catalog \in Fixtures
    /\ store = FreshStore(catalog)
    /\ state = [t \in Threads |-> EmptyState]
    /\ next = [t \in Threads |-> "START"]
    /\ run = [t \in Threads |-> "new"]
    /\ resume = [t \in Threads |-> None]
    /\ interrupts = [t \in Threads |-> None]
    /\ submitted = [r \in Requests |-> None]
    /\ reviews = {}
    /\ journal = [t \in Threads |-> <<>>]
    /\ replies = [t \in Threads |-> <<>>]

-----------------------------------------------------------------------------
\* Supersteps.

At(t, n) == run[t] = "running" /\ next[t] = n

\* The node's update is committed and node n is scheduled.
Commit(t, s, n) ==
    /\ state' = [state EXCEPT ![t] = s]
    /\ next' = [next EXCEPT ![t] = n]
    /\ run' = [run EXCEPT ![t] = IF n = "END" THEN "returned" ELSE "running"]

\* The invoke raises e; nothing is committed.
Raise(t, e) ==
    /\ run' = [run EXCEPT ![t] = e]
    /\ UNCHANGED <<state, next>>

Settle(t, fails, e, s, n) == IF fails THEN Raise(t, e) ELSE Commit(t, s, n)

\* Most nodes only touch their own checkpoint.
OnlyCheckpoint == UNCHANGED <<resume, interrupts, store, catalog, history>>

\* What nodes record of themselves: a workflow status and one audit event.
Logged(s, status, step) ==
    [s EXCEPT !.workflow_status = status, !.audit_log = Append(@, step)]

-----------------------------------------------------------------------------
\* The callers.

\* The checkpoint an invoke starts from: intake is scheduled on the merged
\* channels and a pending interrupt is dropped.
StartRequest(t, r, c, m, complete) ==
    /\ run[t] = "new" \/ (ReuseThreads /\ run[t] # "running")
    /\ r # None => submitted[r] = None
    /\ submitted' =
           IF r = None THEN submitted
           ELSE [submitted EXCEPT ![r] =
                    [thread |-> t, customer_id |-> c, customer_message |-> m,
                     complete |-> complete]]
    /\ state' = [state EXCEPT ![t].request_id = r,
                              ![t].customer_id = c,
                              ![t].customer_message = m]
    /\ next' = [next EXCEPT ![t] = "intake"]
    /\ run' = [run EXCEPT ![t] = "running"]
    /\ resume' = [resume EXCEPT ![t] = None]
    /\ interrupts' = [interrupts EXCEPT ![t] = None]
    /\ UNCHANGED <<store, catalog, reviews, journal, replies>>

\* A channel whose key the payload omits keeps the value it had.
Merged(given, kept) == IF given = Omitted THEN kept ELSE given

\* graph.invoke(payload, thread_id).  A blank field of the payload is None, a
\* missing one is Omitted.  The other channels keep what earlier requests left
\* in them.  A used thread whose payload omits the request id would run its
\* earlier request again: each id is submitted at most once.
Invoke(t, r, c, m) ==
    LET s == state[t]
    IN  StartRequest(t, Merged(r, s.request_id),
                        Merged(c, s.customer_id),
                        Merged(m, s.customer_message),
                        c \in CustomerIds /\ m \in Messages)

\* Command(resume={"decision": d}) on a paused thread: the reviewer saw the
\* interrupt payload.  Anything but a decision is "malformed".
Resume(t, d) ==
    /\ run[t] = "paused"
    /\ resume' = [resume EXCEPT ![t] = d]
    /\ run' = [run EXCEPT ![t] = "running"]
    /\ reviews' = IF d \in Decisions
                  THEN reviews \cup {[thread      |-> t,
                                      request_id  |-> interrupts[t].request_id,
                                      action_type |-> interrupts[t].action_type,
                                      order_id    |-> interrupts[t].order_id,
                                      decision    |-> d]}
                  ELSE reviews
    /\ UNCHANGED <<state, next, interrupts, store, catalog,
                   submitted, journal, replies>>

\* A resume on a thread id without a checkpoint runs the graph from START
\* with no payload.
ResumeUnknownThread(t) ==
    /\ run[t] = "new"
    /\ next' = [next EXCEPT ![t] = "intake"]
    /\ run' = [run EXCEPT ![t] = "running"]
    /\ UNCHANGED <<state, resume, interrupts, store, catalog, history>>

-----------------------------------------------------------------------------
\* The nodes every case runs.

\* Mutant: a new request starts a new audit log.
MutantIntake(t) ==
    LET s == state[t]
    IN  /\ At(t, "intake")
        /\ Settle(t, \/ s.request_id = None
                     \/ s.customer_id = None
                     \/ s.customer_message = None,
                  "InvalidCustomerRequest",
                  [s EXCEPT !.workflow_status = "received",
                            !.audit_log = <<"intake">>],
                  "classify_request")
        /\ OnlyCheckpoint

Intake(t) ==
    LET s == state[t]
    IN  /\ At(t, "intake")
        /\ Settle(t, \/ s.request_id = None
                     \/ s.customer_id = None
                     \/ s.customer_message = None,
                  "InvalidCustomerRequest",
                  Logged(s, "received", "intake"),
                  "classify_request")
        /\ OnlyCheckpoint

ClassifyRequest(t) ==
    /\ At(t, "classify_request")
    /\ \/ \E intent \in Classifications :
             Commit(t, Logged([state[t] EXCEPT !.intent = intent],
                              "classified", "classification"),
                    "load_context")
       \/ Raise(t, "ClassificationError")
    /\ OnlyCheckpoint

\* Mutant: the context holds every customer's orders.
MutantOrdersOfCustomer(c) == IF SharedStore THEN store.orders ELSE catalog

OrdersOfCustomer(c) ==
    LET source == IF SharedStore THEN store.orders ELSE catalog
    IN  [o \in OwnedBy(c) |-> source[o]]

LoadContext(t) ==
    LET s == state[t]
    IN  /\ At(t, "load_context")
        /\ Settle(t, s.customer_id \notin Customers, "CustomerNotFoundError",
                  Logged([s EXCEPT !.order_context = OrdersOfCustomer(s.customer_id)],
                         "context_loaded", "context_loading"),
                  "resolve_order")
        /\ OnlyCheckpoint

ResolveOrderNode(t) ==
    LET s == state[t]
        resolution == ResolveOrder(s.intent, s.customer_message, s.order_context)
    IN  /\ At(t, "resolve_order")
        /\ Settle(t, ResolutionFails(s.intent, s.order_context), "OrderResolutionError",
                  Logged([s EXCEPT !.selected_order_id = resolution.selected_order_id,
                                   !.order_resolution = resolution],
                         "order_resolved", "order_resolution"),
                  "evaluate_policy")
        /\ OnlyCheckpoint

BranchNode ==
    [clarification |-> "clarification", information |-> "information",
     action |-> "propose_action", approval |-> "prepare_approval",
     blocked |-> "blocked"]

\* The conditional edge is evaluated in the same superstep.
EvaluatePolicyNode(t) ==
    LET s == state[t]
        assessment == EvaluatePolicy(s.intent, s.order_resolution, s.order_context)
        policyFails == PolicyFails(s.intent, s.order_resolution, s.order_context)
    IN  /\ At(t, "evaluate_policy")
        /\ Settle(t, \/ policyFails
                     \/ RoutingFails(s.intent, s.order_resolution, assessment),
                  IF policyFails THEN "PolicyEvaluationError" ELSE "RoutingError",
                  Logged([s EXCEPT !.policy_assessment = assessment],
                         "policy_checked", "policy_evaluation"),
                  BranchNode[DetermineCaseRoute(assessment)])
        /\ OnlyCheckpoint

-----------------------------------------------------------------------------
\* The branches that change nothing.

\* Mutant: a case sent here for a missing address keeps its action route.
MutantClarification(t) ==
    /\ At(t, "clarification")
    /\ Commit(t, Logged(state[t], "clarification_required", "clarification"),
              "final_response")
    /\ OnlyCheckpoint

Clarification(t) ==
    /\ At(t, "clarification")
    /\ Commit(t, Logged([state[t] EXCEPT !.route = "clarification"],
                        "clarification_required", "clarification"),
              "final_response")
    /\ OnlyCheckpoint

Information(t) ==
    /\ At(t, "information")
    /\ Commit(t, Logged([state[t] EXCEPT !.route = "information"],
                        "information_ready", "information"),
              "final_response")
    /\ OnlyCheckpoint

\* Mutant: a status outside the vocabulary of state.py.
MutantBlocked(t) ==
    /\ At(t, "blocked")
    /\ Commit(t, Logged([state[t] EXCEPT !.route = "blocked"],
                        "policy_blocked", "blocked"),
              "final_response")
    /\ OnlyCheckpoint

Blocked(t) ==
    /\ At(t, "blocked")
    /\ Commit(t, Logged([state[t] EXCEPT !.route = "blocked"],
                        "blocked", "blocked"),
              "final_response")
    /\ OnlyCheckpoint

-----------------------------------------------------------------------------
\* The safe-action branch.

ProposeActionNode(t) ==
    LET s == state[t]
        action == ProposeAction(s.intent, s.selected_order_id)
    IN  /\ At(t, "propose_action")
        /\ Settle(t, \/ ProposalFails(s.intent, s.selected_order_id)
                     \/ action.requires_human_approval,
                  "ActionProposalError",
                  Logged([s EXCEPT !.route = "action",
                                   !.proposed_action = action],
                         "action_proposed", "action_proposal"),
                  "prepare_action_input")
        /\ OnlyCheckpoint

\* What the extractor may answer; it is asked for change_address only.
Extractions(proposed) ==
    IF NeedsExtractor(proposed) THEN Optional(Addresses) ELSE {None}

\* Mutant: an input prepared earlier on the thread is kept.
MutantPrepareActionInputNode(t) ==
    LET s == state[t]
    IN  /\ At(t, "prepare_action_input")
        /\ \E address \in Extractions(s.proposed_action) :
              LET input == IF s.action_input # None THEN s.action_input
                           ELSE PrepareActionInput(s.proposed_action, address)
              IN  Commit(t, [s EXCEPT !.action_input = input],
                         IF input.ready THEN "execute_safe_action"
                                        ELSE "clarification")
        /\ OnlyCheckpoint

PrepareActionInputNode(t) ==
    LET s == state[t]
    IN  /\ At(t, "prepare_action_input")
        /\ \/ \E address \in Extractions(s.proposed_action) :
                 LET input == PrepareActionInput(s.proposed_action, address)
                 IN  Commit(t, Logged([s EXCEPT !.action_input = input],
                                      "action_input_ready", "action_input"),
                            IF input.ready THEN "execute_safe_action"
                                           ELSE "clarification")
           \/ /\ NeedsExtractor(s.proposed_action)
              /\ Raise(t, "ActionInputError")
        /\ OnlyCheckpoint

\* The case's one store call, the re-read of its order and the update of the
\* checkpoint.
Execute(t, fails, approved) ==
    LET s == state[t]
        result == ExecutionResult(s.proposed_action, s.action_input)
        o == result.order_id
    IN  IF fails \/ ExecutionFails(s.proposed_action, s.action_input, store, approved)
        THEN /\ Raise(t, "ActionExecutionError")
             /\ UNCHANGED <<store, journal>>
        ELSE /\ store' = ExecuteAction(s.proposed_action, s.action_input, store)
             /\ journal' = [journal EXCEPT ![t] = Append(@,
                    [request_id  |-> s.request_id,
                     action_type |-> s.proposed_action.action_type,
                     order_id    |-> s.action_input.order_id,
                     new_shipping_address |-> s.action_input.new_shipping_address])]
             /\ Commit(t, Logged([s EXCEPT !.action_result = result,
                                           !.order_context = WithUpdatedOrder(@, o, store'.orders[o])],
                                 "action_executed", "action_execution"),
                       "final_response")

ExecuteSafeAction(t) ==
    /\ At(t, "execute_safe_action")
    /\ Execute(t, FALSE, FALSE)
    /\ UNCHANGED <<resume, interrupts, catalog, submitted, reviews, replies>>

-----------------------------------------------------------------------------
\* The approval branch.

PrepareApproval(t) ==
    LET s == state[t]
        action == ProposeAction(s.intent, s.selected_order_id)
    IN  /\ At(t, "prepare_approval")
        /\ Settle(t, \/ ProposalFails(s.intent, s.selected_order_id)
                     \/ ~action.requires_human_approval,
                  "ActionProposalError",
                  Logged([s EXCEPT !.route = "approval",
                                   !.proposed_action = action],
                         "awaiting_approval", "approval_required"),
                  "prepare_approval_input")
        /\ OnlyCheckpoint

\* Mutant: an input prepared earlier on the thread is kept.
MutantPrepareApprovalInput(t) ==
    LET s == state[t]
        fresh == PrepareActionInput(s.proposed_action, None)
    IN  /\ At(t, "prepare_approval_input")
        /\ Commit(t, [s EXCEPT !.action_input =
                                   IF s.action_input = None THEN fresh ELSE @],
                  "human_approval")
        /\ OnlyCheckpoint

\* No action type of this branch asks the extractor.
PrepareApprovalInput(t) ==
    LET s == state[t]
    IN  /\ At(t, "prepare_approval_input")
        /\ \E address \in Extractions(s.proposed_action) :
              Commit(t, Logged([s EXCEPT !.action_input =
                                   PrepareActionInput(s.proposed_action, address)],
                               "awaiting_approval", "action_input"),
                     "human_approval")
        /\ OnlyCheckpoint

\* The checks human_approval makes each time it runs, before interrupt().
ApprovalFails(s) ==
    \/ ~s.proposed_action.requires_human_approval
    \/ ~s.action_input.ready
    \/ s.action_result # None
    \/ s.proposed_action.action_type \notin ApprovalTemplates

\* The first run of human_approval: interrupt() pauses the thread.
RequestApproval(t) ==
    LET s == state[t]
    IN  /\ At(t, "human_approval")
        /\ resume[t] = None
        /\ IF ApprovalFails(s)
           THEN Raise(t, "ApprovalError") /\ UNCHANGED interrupts
           ELSE /\ interrupts' = [interrupts EXCEPT ![t] =
                       BuildApprovalRequest(s.request_id, s.proposed_action)]
                /\ run' = [run EXCEPT ![t] = "paused"]
                /\ UNCHANGED <<state, next>>
        /\ UNCHANGED <<resume, store, catalog, history>>

\* The run after a resume: the node starts over, interrupt() returns the value.
ResolveApproval(t) ==
    LET s == state[t]
        decision == ParseHumanApprovalResponse(resume[t])
    IN  /\ At(t, "human_approval")
        /\ resume[t] # None
        /\ resume' = [resume EXCEPT ![t] = None]
        /\ IF ApprovalFails(s) \/ decision = None
           THEN Raise(t, "ApprovalError") /\ UNCHANGED interrupts
           ELSE /\ interrupts' = [interrupts EXCEPT ![t] = None]
                /\ Commit(t, [s EXCEPT !.human_decision = decision,
                                       !.audit_log = Append(@, "human_approval")],
                          IF decision = "approved" THEN "execute_approved_action"
                                                   ELSE "approval_rejected")
        /\ UNCHANGED <<store, catalog, history>>

ExecuteApprovedAction(t) ==
    LET s == state[t]
    IN  /\ At(t, "execute_approved_action")
        /\ Execute(t, \/ s.human_decision # "approved"
                      \/ ~s.proposed_action.requires_human_approval
                      \/ ~s.action_input.ready,
                   TRUE)
        /\ UNCHANGED <<resume, interrupts, catalog, submitted, reviews, replies>>

ApprovalRejected(t) ==
    LET s == state[t]
    IN  /\ At(t, "approval_rejected")
        /\ Settle(t, s.human_decision # "rejected", "ApprovalError",
                  Logged(s, "approval_rejected", "approval_rejected"),
                  "final_response")
        /\ OnlyCheckpoint

-----------------------------------------------------------------------------
\* The reply every branch ends in.

\* Mutant: the reply is generated without the human decision.
MutantResponseContext(s) ==
    LET o == s.selected_order_id
    IN  [route           |-> s.route,
         workflow_status |-> s.workflow_status,
         order_id        |-> o,
         order_status    |-> IF o # None /\ o \in DOMAIN s.order_context
                             THEN s.order_context[o].status ELSE None,
         human_decision  |-> None,
         action_result   |-> s.action_result]

ResponseContext(s) ==
    LET o == s.selected_order_id
    IN  [route           |-> s.route,
         workflow_status |-> s.workflow_status,
         order_id        |-> o,
         order_status    |-> IF o # None /\ o \in DOMAIN s.order_context
                             THEN s.order_context[o].status ELSE None,
         human_decision  |-> s.human_decision,
         action_result   |-> s.action_result]

\* Mutant: a failed reply generation is papered over by a default reply.
MutantDefaultResponse(t) ==
    LET s == state[t]
    IN  /\ At(t, "final_response")
        /\ Commit(t, Logged([s EXCEPT !.final_response = s.request_id],
                            "completed", "final_response"),
                  "END")
        /\ \/ replies' = [replies EXCEPT ![t] = Append(@,
                  [request_id |-> s.request_id, context |-> ResponseContext(s)])]
           \/ UNCHANGED replies
        /\ UNCHANGED <<resume, interrupts, store, catalog, submitted, reviews, journal>>

\* Mutant: a failed reply generation retries the case from its execution.
MutantRetryingResponse(t) ==
    LET s == state[t]
    IN  /\ At(t, "final_response")
        /\ Commit(t, s, IF s.human_decision = "approved"
                        THEN "execute_approved_action" ELSE "END")
        /\ UNCHANGED <<resume, interrupts, store, catalog, history>>

FinalResponse(t) ==
    LET s == state[t]
    IN  /\ At(t, "final_response")
        /\ \/ /\ Commit(t, Logged([s EXCEPT !.final_response = s.request_id],
                                  "completed", "final_response"),
                        "END")
              /\ replies' = [replies EXCEPT ![t] = Append(@,
                     [request_id |-> s.request_id, context |-> ResponseContext(s)])]
           \/ /\ Raise(t, "ResponseGenerationError")
              /\ UNCHANGED replies
        /\ UNCHANGED <<resume, interrupts, store, catalog, submitted, reviews, journal>>

-----------------------------------------------------------------------------
GraphStep(t) ==
    \/ Intake(t)
    \/ ClassifyRequest(t)
    \/ LoadContext(t)
    \/ ResolveOrderNode(t)
    \/ EvaluatePolicyNode(t)
    \/ Clarification(t)
    \/ Information(t)
    \/ Blocked(t)
    \/ ProposeActionNode(t)
    \/ PrepareActionInputNode(t)
    \/ ExecuteSafeAction(t)
    \/ PrepareApproval(t)
    \/ PrepareApprovalInput(t)
    \/ RequestApproval(t)
    \/ ResolveApproval(t)
    \/ ExecuteApprovedAction(t)
    \/ ApprovalRejected(t)
    \/ FinalResponse(t)

Submit(t) ==
    \E r \in Optional(Requests) \cup {Omitted},
       c \in Optional(CustomerIds) \cup {Omitted},
       m \in Optional(Messages) \cup {Omitted} : Invoke(t, r, c, m)

Next ==
    \E t \in Threads :
        \/ Submit(t)
        \/ \E d \in Decisions \cup {"malformed"} : Resume(t, d)
        \/ ResumeUnknownThread(t)
        \/ GraphStep(t)

Spec == Init /\ [][Next]_vars

\* An invoke call runs until it pauses, returns or raises; nobody is obliged
\* to submit a request or to answer an interrupt.
Fairness == \A t \in Threads : WF_vars(GraphStep(t))

FairSpec == Spec /\ Fairness

-----------------------------------------------------------------------------
\* Properties.

\* Every variable keeps to its type: the state fields to the vocabularies of
\* state.py, the store to the record contracts of models.py.
TypeOK ==
    /\ state \in [Threads -> CaseStates]
    /\ next \in [Threads -> Nodes \cup {"START", "END"}]
    /\ run \in [Threads -> {"new", "running", "paused", "returned"} \cup Errors]
    /\ resume \in [Threads -> Optional(Decisions \cup {"malformed"})]
    /\ interrupts \in [Threads -> Optional(ApprovalRequests(Requests))]
    /\ store \in Stores
    /\ catalog \in [Orders -> OrderRecords]
    /\ submitted \in [Requests -> Optional(Submissions)]
    /\ reviews \subseteq Reviews
    /\ journal \in [Threads -> Seq(Effects)]
    /\ replies \in [Threads -> Seq(Replies)]

\* Request r had effect e in thread t's cases.
Acted(t, r) == \E i \in DOMAIN journal[t] : journal[t][i].request_id = r

Reviewed(r, d) == \E v \in reviews : v.request_id = r /\ v.decision = d

Raised(t) == run[t] \in Errors

\* A sensitive operation reaches the store only after a reviewer approved
\* exactly that operation on that order for that request in that thread:
\* what executes is what the interrupt payload showed.
SensitiveEffectsReviewed ==
    \A t \in Threads : \A i \in DOMAIN journal[t] :
        LET e == journal[t][i]
        IN  e.action_type \in ApprovalRequiredActionTypes =>
                [thread |-> t, request_id |-> e.request_id,
                 action_type |-> e.action_type, order_id |-> e.order_id,
                 decision |-> "approved"] \in reviews

\* A request is decided at most once, and a rejected one leaves no trace in
\* the store.
RejectedNeverActs ==
    \A v \in reviews :
        /\ \A w \in reviews : w.request_id = v.request_id => w = v
        /\ v.decision = "rejected" => ~Acted(v.thread, v.request_id)

\* A request mutates the store at most once, whatever happens to its thread
\* afterwards, and only its own thread does it.
OneEffectPerRequest ==
    \A t, u \in Threads : \A i \in DOMAIN journal[t], j \in DOMAIN journal[u] :
        journal[t][i].request_id = journal[u][j].request_id => t = u /\ i = j

\* A request mutates only an order that the customer it was started for owns
\* and that the message it was started with names: the order context, the
\* selection, the proposal and the input an earlier request left on the thread
\* never reach the store.  Started with means merged: a payload that omits the
\* message or the customer id runs with those its thread kept.
OnlyNamedOwnOrders ==
    \A t \in Threads : \A i \in DOMAIN journal[t] :
        LET e == journal[t][i]
            request == submitted[e.request_id]
        IN  /\ request # None
            /\ request.thread = t
            /\ OwnerOf[e.order_id] = request.customer_id
            /\ e.order_id \in request.customer_message

\* Effects that make a later store call refuse: the policy checked before the
\* pause or before another case's step no longer holds.
Disables(earlier, later) ==
    \/ earlier = "cancel_order" /\ later \in {"cancel_order", "change_address"}
    \/ earlier = "issue_refund" /\ later = "issue_refund"

\* The policy engine and the store agree on what is allowed: an execution is
\* refused only because another request changed the same order in between.
RefusedOnlyByRace ==
    \A t \in Threads : run[t] = "ActionExecutionError" =>
        \E u \in Threads : \E i \in DOMAIN journal[u] :
            /\ journal[u][i].request_id # state[t].request_id
            /\ journal[u][i].order_id = state[t].proposed_action.order_id
            /\ Disables(journal[u][i].action_type, state[t].proposed_action.action_type)

\* The exceptions reserved for a state that should never occur are never
\* raised: the tables of policies.py, routing.py and action_proposal.py agree.
NeverCorrupted == \A t \in Threads : run[t] \notin CorruptionErrors

\* A case that raised after mutating the store is stuck at its reply and
\* records its result: nothing is left to be done twice or undone.
FailsAfterEffectOnlyAtReply ==
    \A t \in Threads : \A i \in DOMAIN journal[t] :
        LET e == journal[t][i]
        IN  Raised(t) /\ e.request_id = state[t].request_id =>
                /\ run[t] = "ResponseGenerationError"
                /\ next[t] = "final_response"
                /\ state[t].action_result =
                      [action_type |-> e.action_type, order_id |-> e.order_id]

\* What a finished case did to the store is what its route says: the action
\* route acts, the approval route acts iff approved, the others never.
OutcomeMatchesRoute ==
    \A t \in Threads : run[t] = "returned" =>
        LET s == state[t]
            r == s.request_id
        IN  /\ Acted(t, r) <=> \/ s.route = "action"
                               \/ s.route = "approval" /\ Reviewed(r, "approved")
            /\ s.route = "approval" <=> \E d \in Decisions : Reviewed(r, d)

\* A reply is grounded in what happened to its own request: it carries an
\* action result iff the request had that effect, and a human decision iff a
\* reviewer gave it.  (A reused thread keeps the channels of earlier
\* requests, so this is about callers that use one thread per request.)
GroundedReplies ==
    \A t \in Threads : \A i \in DOMAIN replies[t] :
        LET r == replies[t][i].request_id
            c == replies[t][i].context
        IN  /\ \A d \in Decisions : c.human_decision = d <=> Reviewed(r, d)
            /\ c.action_result # None <=> Acted(t, r)
            /\ \A j \in DOMAIN journal[t] : journal[t][j].request_id = r =>
                   c.action_result = [action_type |-> journal[t][j].action_type,
                                      order_id    |-> journal[t][j].order_id]

\* A request is answered at most once, and an invoke returns without an
\* interrupt exactly when its current request has been answered.
AnsweredOnce ==
    \A t \in Threads :
        /\ \A i, j \in DOMAIN replies[t] :
               replies[t][i].request_id = replies[t][j].request_id => i = j
        /\ run[t] = "returned" <=>
               \E i \in DOMAIN replies[t] :
                   replies[t][i].request_id = state[t].request_id

\* While a case waits for its reviewer nothing was done or decided for its
\* request, and the payload shows a sensitive operation on an order that the
\* customer the request was started for owns and the message it was started
\* with names.
PauseIsQuiet ==
    \A t \in Threads : run[t] = "paused" =>
        LET shown == interrupts[t]
            request == submitted[shown.request_id]
        IN  /\ shown.request_id = state[t].request_id
            /\ shown.action_type = state[t].proposed_action.action_type
            /\ shown.action_type \in ApprovalRequiredActionTypes
            /\ shown.order_id \in request.customer_message
            /\ OwnerOf[shown.order_id] = request.customer_id
            /\ ~Acted(t, shown.request_id)
            /\ \A d \in Decisions : ~Reviewed(shown.request_id, d)

CountSteps(t, step) ==
    Cardinality({i \in DOMAIN state[t].audit_log : state[t].audit_log[i] = step})

\* The audit log tells the truth: one action_execution event per mutation,
\* one human_approval event per consumed decision, one final_response event
\* per reply.
AuditMatchesHistory ==
    \A t \in Threads :
        /\ CountSteps(t, "action_execution") = Len(journal[t])
        /\ CountSteps(t, "final_response") = Len(replies[t])
        /\ CountSteps(t, "human_approval") =
               Cardinality({v \in reviews : v.thread = t})
                   - (IF resume[t] \in Decisions THEN 1 ELSE 0)

EffectOn(o, action) ==
    {e \in UNION {{journal[t][i] : i \in DOMAIN journal[t]} : t \in Threads} :
        e.order_id = o /\ e.action_type = action}

\* The store is its fixture plus exactly the journalled mutations, order by
\* order: nothing is lost, undone or done to another order.
StoreIsFixturePlusJournal ==
    \A o \in Orders :
        LET was == catalog[o]
            is == store.orders[o]
            addresses == {e.new_shipping_address : e \in EffectOn(o, "change_address")}
        IN  /\ is.status = IF EffectOn(o, "cancel_order") = {}
                           THEN was.status ELSE "cancelled"
            /\ is.payment_status = IF EffectOn(o, "issue_refund") = {}
                                   THEN was.payment_status ELSE "refunded"
            /\ IF addresses = {} THEN is.shipping_address = was.shipping_address
                                 ELSE is.shipping_address \in addresses
            /\ o \in store.billing <=> EffectOn(o, "investigate_billing") # {}
            /\ o \in store.product <=> EffectOn(o, "investigate_product_issue") # {}

\* A case's order context differs from the store only where another request
\* has mutated the order: its own mutations are always synchronized back.
ContextStaleOnlyByOthers ==
    \A t \in Threads :
        state[t].workflow_status \notin {None, "received", "classified"} =>
            \A o \in DOMAIN state[t].order_context :
                state[t].order_context[o] # store.orders[o] =>
                    \E u \in Threads : \E i \in DOMAIN journal[u] :
                        /\ journal[u][i].order_id = o
                        /\ journal[u][i].request_id # state[t].request_id

\* What a step may do to the store.
LegalStoreStep ==
    /\ \A o \in Orders :
          LET was == store.orders[o]
              is == store'.orders[o]
          IN  /\ is.status # was.status =>
                     was.status \in {"pending", "processing"} /\ is.status = "cancelled"
              /\ is.shipping_address # was.shipping_address =>
                     was.status \in {"pending", "processing"} /\ is.status = was.status
              /\ was.payment_status = "refunded" => is.payment_status = "refunded"
    /\ store.billing \subseteq store'.billing
    /\ store.product \subseteq store'.product

\* The life of an order, whatever the interleaving: only an open order is
\* cancelled or has its address changed, a refund is final, and an
\* investigation is never withdrawn.
OrderLifecycle == [][LegalStoreStep]_vars

\* An approval is never left hanging: the operation is executed, or the
\* reviewer's resume call raises.
ApprovalSettles ==
    \A t \in Threads, r \in Requests :
        (\E v \in reviews : v.thread = t /\ v.request_id = r /\ v.decision = "approved")
            ~> (Acted(t, r) \/ Raised(t))

-----------------------------------------------------------------------------
\* What the code's own documentation says and the code does not do.

\* graph.py:30-33: a successful mutation is synchronized back into
\* order_context "so graph state never shows stale data".  Stated while a case
\* that mutated the store has not written its reply yet: the context the reply
\* is grounded on is the store's.
GraphStateNeverStale ==
    \A t \in Threads :
        At(t, "final_response") /\ state[t].workflow_status = "action_executed" =>
            \A o \in DOMAIN state[t].order_context :
                state[t].order_context[o] = store.orders[o]

\* graph.py:95-96: intake "Rejects a missing/empty request_id, a
\* missing/empty customer_id, or an empty/whitespace-only customer_message".
\* Stated of what matters most: a request whose payload carried no customer id
\* or no message has no effect and no reply.
IncompleteIsRejected ==
    \A r \in Requests : submitted[r] # None /\ ~submitted[r].complete =>
        \A t \in Threads :
            /\ ~Acted(t, r)
            /\ \A i \in DOMAIN replies[t] : replies[t][i].request_id # r

=============================================================================
