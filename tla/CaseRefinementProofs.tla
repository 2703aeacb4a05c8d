------------------------ MODULE CaseRefinementProofs ------------------------
(***************************************************************************)
(* The graph implements CaseContract, step by step, where every request    *)
(* has a thread of its own.  What is proved is the safety half of          *)
(* ImplementsContract: initial states and steps; that what the contract    *)
(* requires to go on does go on is checked by TLC.                         *)
(*                                                                         *)
(* ShownInv says what the refinement mapping relies on: a pending interrupt*)
(* shows the operation of the checkpoint, every decision on the request and *)
(* every effect of it is about that operation, and a request is the one its *)
(* thread serves.                                                          *)
(***************************************************************************)
EXTENDS CaseRefinement, CaseOutcomeProofs

USE DEF Optional

-----------------------------------------------------------------------------
\* The invariant.

Shown(t) ==
    LET s == state[t]
    IN  /\ interrupts[t] # None =>
               /\ next[t] = "human_approval"
               /\ interrupts[t] = BuildApprovalRequest(s.request_id, s.proposed_action)
        /\ At(t, "human_approval") /\ resume[t] = None => interrupts[t] = None
        /\ \A v \in reviews : v.request_id = s.request_id =>
               OperationOf(v) = OperationOf(s.proposed_action)
        /\ \A i \in DOMAIN journal[t] : journal[t][i].request_id = s.request_id =>
               OperationOf(journal[t][i]) = OperationOf(s.proposed_action)

ServedByOwnThread ==
    \A r \in Requests : submitted[r] # None => state[submitted[r].thread].request_id = r

ShownInv == ServedByOwnThread /\ \A t \in Threads : Shown(t)

ContractInv == CaseInv /\ OutcomeInv /\ GroundedInv /\ ShownInv

\* The request of a thread does not change while it runs, and a thread that
\* was never used serves none.
LEMMA RequestKept ==
    ASSUME TypeInv, NEW t \in Threads,
           \/ GraphStep(t) \/ ResumeUnknownThread(t)
           \/ \E d \in Decisions \cup {"malformed"} : Resume(t, d)
    PROVE  state'[t].request_id = state[t].request_id /\ submitted' = submitted
<1>1. CASE PlainStep(t)
  BY <1>1 DEF PlainStep, SameRequest
<1>2. CASE RequestApproval(t)
  BY <1>2 DEF RequestApproval, Raise, history
<1>3. CASE ResolveApproval(t)
  BY <1>3, ResolveExactly DEF ResolvedAs, ResolveApproval, history
<1>4. CASE ExecuteSafeAction(t) \/ ExecuteApprovedAction(t)
  <2>1. submitted' = submitted
    BY <1>4 DEF ExecuteSafeAction, ExecuteApprovedAction
  <2>2. QED
    BY <1>4, <2>1, ExecuteExactly DEF ExecuteSafeAction, ExecuteApprovedAction, Refused, ExecutedAs
<1>5. CASE ResumeUnknownThread(t) \/ \E d \in Decisions \cup {"malformed"} : Resume(t, d)
  BY <1>5 DEF ResumeUnknownThread, Resume, history
<1>6. QED
  BY <1>1, <1>2, <1>3, <1>4, <1>5, GraphSteps

LEMMA StartSets ==
    ASSUME TypeInv, NEW t \in Threads, NEW r \in Optional(Requests), NEW c, NEW m,
           NEW complete, StartRequest(t, r, c, m, complete)
    PROVE  /\ state'[t].request_id = r
           /\ \A q \in Requests \ {r} : submitted'[q] = submitted[q]
           /\ r # None => submitted[r] = None /\ submitted'[r].thread = t
           /\ run'[t] = "running" /\ next'[t] = "intake" /\ interrupts'[t] = None
<1>1. state'[t] = [state[t] EXCEPT !.request_id = r, !.customer_id = c, !.customer_message = m]
  BY DEF StartRequest, TypeInv, TypeOK
<1>2. state'[t].request_id = r
  BY <1>1 DEF TypeInv, TypeOK, CaseStates
<1>3. \A q \in Requests \ {r} : submitted'[q] = submitted[q]
  BY DEF StartRequest, TypeInv, TypeOK
<1>4. ASSUME r # None PROVE submitted[r] = None /\ submitted'[r].thread = t
  BY <1>4 DEF StartRequest, TypeInv, TypeOK
<1>5. QED
  BY <1>2, <1>3, <1>4 DEF StartRequest, TypeInv, TypeOK

\* A thread serves one request: where threads are not reused, an invoke runs
\* on a new thread only.
LEMMA StepServed ==
    ASSUME ~ReuseThreads, CaseInv, GroundedInv, ServedByOwnThread, NEW t \in Threads,
           ThreadStep(t)
    PROVE  ServedByOwnThread'
<1>1. ASSUME NEW u \in Threads, u # t PROVE state'[u] = state[u]
  BY <1>1, OthersUntouched DEF Untouched
<1>2. \A r \in Requests : submitted[r] # None => submitted[r].thread \in Threads
  BY DEF CaseInv, TypeInv, TypeOK, Submissions
<1>3. CASE ~Submit(t)
  BY <1>1, <1>2, <1>3, RequestKept DEF ServedByOwnThread, CaseInv, ThreadStep
<1>4. ASSUME NEW r \in Optional(Requests), NEW c, NEW m, NEW complete,
             StartRequest(t, r, c, m, complete)
      PROVE  ServedByOwnThread'
  <2>1. run[t] = "new"
    BY <1>4 DEF StartRequest
  <2>2. state[t].request_id = None
    BY <2>1 DEF GroundedInv, ThreadGrounded, EmptyState
  <2>3. \A q \in Requests : submitted[q] # None => submitted[q].thread # t
    BY <2>2, AbsentAssumption, GraphAssumption DEF ServedByOwnThread
  <2>4. /\ state'[t].request_id = r
        /\ \A q \in Requests \ {r} : submitted'[q] = submitted[q]
        /\ r # None => submitted'[r].thread = t
    BY <1>4, StartSets DEF CaseInv
  <2>5. ASSUME NEW q \in Requests, submitted'[q] # None
        PROVE  state'[submitted'[q].thread].request_id = q
    <3>1. CASE q = r
      BY <2>4, <3>1, GraphAssumption
    <3>2. CASE q # r
      BY <1>1, <1>2, <2>3, <2>4, <2>5, <3>2 DEF ServedByOwnThread
    <3>3. QED
      BY <3>1, <3>2
  <2>6. QED
    BY <2>5 DEF ServedByOwnThread
<1>5. QED
  BY <1>3, <1>4, SubmitStarts DEF CaseInv

\* From its execution or human_approval on, the proposal is the one that was shown.
LEMMA LateNodesKeepProposal ==
    ASSUME TypeInv, NEW t \in Threads, GraphStep(t),
           next[t] \in AfterReview \cup {"execute_safe_action"}
    PROVE  state'[t].proposed_action = state[t].proposed_action
<1> DEFINE s == state[t]
<1>1. state \in [Threads -> CaseStates] /\ s \in CaseStates
  BY DEF TypeInv, TypeOK
<1>2. ASSUME NEW z, NEW n, Commit(t, z, n), z.proposed_action = s.proposed_action
      PROVE  state'[t].proposed_action = s.proposed_action
  BY <1>1, <1>2 DEF Commit
<1>3. CASE state' = state
  BY <1>3
<1>4. CASE RequestApproval(t)
  BY <1>3, <1>4 DEF RequestApproval, Raise
<1>5. CASE ResolveApproval(t)
  <2> DEFINE decision == ParseHumanApprovalResponse(resume[t])
             z == [s EXCEPT !.human_decision = decision,
                            !.audit_log = Append(@, "human_approval")]
  <2>1. z.proposed_action = s.proposed_action
    BY <1>1 DEF CaseStates
  <2> HIDE DEF z
  <2>2. QED
    BY <1>2, <1>3, <1>5, <2>1 DEF ResolveApproval, Raise, z
<1>6. CASE ExecuteSafeAction(t) \/ ExecuteApprovedAction(t)
  <2> DEFINE result == ExecutionResult(s.proposed_action, s.action_input)
             context == WithUpdatedOrder(s.order_context, result.order_id,
                                         store'.orders[result.order_id])
             z == Logged([s EXCEPT !.action_result = result, !.order_context = context],
                         "action_executed", "action_execution")
  <2>1. z.proposed_action = s.proposed_action
    BY <1>1 DEF Logged, CaseStates
  <2>2. state' = state \/ Commit(t, z, "final_response")
    BY <1>6 DEF ExecuteSafeAction, ExecuteApprovedAction, Execute, Raise
  <2> HIDE DEF z
  <2>3. QED
    BY <1>2, <1>3, <2>1, <2>2
<1>7. CASE ApprovalRejected(t)
  <2> DEFINE z == Logged(s, "approval_rejected", "approval_rejected")
  <2>1. z.proposed_action = s.proposed_action
    BY <1>1 DEF Logged, CaseStates
  <2>2. state' = state \/ Commit(t, z, "final_response")
    BY <1>7 DEF ApprovalRejected, Settle, Raise
  <2> HIDE DEF z
  <2>3. QED
    BY <1>2, <1>3, <2>1, <2>2
<1>8. CASE FinalResponse(t)
  <2> DEFINE z == Logged([s EXCEPT !.final_response = s.request_id],
                         "completed", "final_response")
  <2>1. z.proposed_action = s.proposed_action
    BY <1>1 DEF Logged, CaseStates
  <2>2. state' = state \/ Commit(t, z, "END")
    BY <1>8 DEF FinalResponse, Raise
  <2> HIDE DEF z
  <2>3. QED
    BY <1>2, <1>3, <2>1, <2>2
<1>9. QED
  BY <1>4, <1>5, <1>6, <1>7, <1>8
     DEF AfterReview, At, GraphStep, Intake, ClassifyRequest, LoadContext, ResolveOrderNode,
         EvaluatePolicyNode, Clarification, Information, Blocked, ProposeActionNode,
         PrepareActionInputNode, PrepareApproval, PrepareApprovalInput

LEMMA ShownFrame ==
    ASSUME NEW u \in Threads, Shown(u), Untouched(u), interrupts'[u] = interrupts[u]
    PROVE  Shown(u)'
  BY DEF Shown, Untouched, At

\* A superstep records no review.
LEMMA ReviewsShown ==
    ASSUME CaseInv, NEW t \in Threads, GraphStep(t), Shown(t),
           NEW v \in reviews', v.request_id = state'[t].request_id
    PROVE  OperationOf(v) = OperationOf(state'[t].proposed_action)
<1>1. reviews' = reviews
  BY GraphSteps DEF PlainStep, RequestApproval, ResolveApproval, ExecuteSafeAction,
                    ExecuteApprovedAction, history, CaseInv
<1>2. state'[t].request_id = state[t].request_id
  BY RequestKept DEF CaseInv
<1>3. next[t] \in AfterReview
  BY <1>1, <1>2 DEF CaseInv, DecidedInv, ThreadDecided
<1>4. state'[t].proposed_action = state[t].proposed_action
  BY <1>3, LateNodesKeepProposal DEF CaseInv
<1>5. QED
  BY <1>1, <1>2, <1>4 DEF Shown

LEMMA EffectsShown ==
    ASSUME CaseInv, NEW t \in Threads, GraphStep(t), Shown(t),
           NEW i \in DOMAIN journal'[t], journal'[t][i].request_id = state'[t].request_id
    PROVE  OperationOf(journal'[t][i]) = OperationOf(state'[t].proposed_action)
<1> DEFINE s == state[t]
<1>1. state'[t].request_id = s.request_id
  BY RequestKept DEF CaseInv
<1>2. CASE i \in DOMAIN journal[t] /\ journal'[t][i] = journal[t][i]
  <2>1. next[t] \in AfterReview
    <3>1. journal[t][i].request_id = state[t].request_id
      BY <1>1, <1>2
    <3>2. next[t] \in {"final_response", "END"}
      BY <1>2, <3>1 DEF CaseInv, EffectInv, ThreadEffects
    <3>3. QED
      BY <3>2 DEF AfterReview
  <2>2. state'[t].proposed_action = s.proposed_action
    BY <2>1, LateNodesKeepProposal DEF CaseInv
  <2>3. QED
    BY <1>1, <1>2, <2>2 DEF Shown
<1>3. CASE (ExecuteSafeAction(t) \/ ExecuteApprovedAction(t)) /\ ~Refused(t)
  <2>1. /\ Executed(t, FALSE) \/ Executed(t, TRUE)
        /\ next[t] \in {"execute_safe_action", "execute_approved_action"}
    BY <1>3, ExecuteEffect DEF ExecuteSafeAction, ExecuteApprovedAction, At, CaseInv
  <2>2. s.action_input.order_id = s.proposed_action.order_id
    BY <2>1 DEF Executed, CaseInv, ReviewInv, ThreadReviewed, NeedInput, InputMatches
  <2>3. state'[t].proposed_action = s.proposed_action
    BY <2>1, LateNodesKeepProposal DEF CaseInv, AfterReview
  <2>4. ASSUME NEW address,
               journal' = [journal EXCEPT ![t] = Append(@, EffectAt(t, address))]
        PROVE  \/ i \in DOMAIN journal[t] /\ journal'[t][i] = journal[t][i]
               \/ journal'[t][i] = EffectAt(t, address)
    BY <2>4 DEF CaseInv, TypeInv, TypeOK
  <2>5. \/ i \in DOMAIN journal[t] /\ journal'[t][i] = journal[t][i]
        \/ \E address : journal'[t][i] = EffectAt(t, address)
    BY <2>1, <2>4 DEF Executed
  <2>6. CASE \E address : journal'[t][i] = EffectAt(t, address)
    BY <2>2, <2>3, <2>6 DEF EffectAt, OperationOf
  <2>7. QED
    BY <1>2, <2>5, <2>6
<1>4. CASE journal' = journal
  BY <1>2, <1>4
<1>5. QED
  BY <1>3, <1>4, GraphSteps
     DEF PlainStep, RequestApproval, ResolveApproval, Refused, history, CaseInv

LEMMA GraphStepShown ==
    ASSUME CaseInv, NEW t \in Threads, GraphStep(t), Shown(t)
    PROVE  Shown(t)'
<1> SUFFICES /\ interrupts'[t] # None =>
                    /\ next'[t] = "human_approval"
                    /\ interrupts'[t] = BuildApprovalRequest(state'[t].request_id,
                                                             state'[t].proposed_action)
             /\ run'[t] = "running" /\ next'[t] = "human_approval" /\ resume'[t] = None =>
                    interrupts'[t] = None
  BY ReviewsShown, EffectsShown DEF Shown, At
<1>1. CASE PlainStep(t)
  BY <1>1 DEF PlainStep, PlainNodes, NeedInput, Shown
<1>2. CASE RequestApproval(t)
  <2>1. UNCHANGED <<state, next>> /\ run'[t] # "running"
    BY <1>2 DEF RequestApproval, Raise, CaseInv, TypeInv, TypeOK
  <2>2. /\ next[t] = "human_approval"
        /\ \/ interrupts'[t] = interrupts[t]
           \/ interrupts'[t] = BuildApprovalRequest(state[t].request_id,
                                                    state[t].proposed_action)
    BY <1>2 DEF RequestApproval, At, CaseInv, TypeInv, TypeOK
  <2>3. QED
    BY <2>1, <2>2 DEF Shown
<1>3. CASE ResolveApproval(t)
  <2>1. \/ run'[t] = "ApprovalError" /\ UNCHANGED <<state, next, interrupts>>
        \/ interrupts'[t] = None
    BY <1>3, ResolveExactly
       DEF ResolveApproval, Raise, Commit, CaseInv, TypeInv, TypeOK
  <2>2. QED
    BY <2>1 DEF Shown
<1>4. CASE ExecuteSafeAction(t) \/ ExecuteApprovedAction(t)
  BY <1>4 DEF ExecuteSafeAction, ExecuteApprovedAction, Execute, Raise, Commit, At, Shown,
              CaseInv, TypeInv, TypeOK
<1>5. QED
  BY <1>1, <1>2, <1>3, <1>4, GraphSteps DEF CaseInv

LEMMA CallerShown ==
    ASSUME CaseInv, GroundedInv, NEW t \in Threads, Shown(t),
           \/ Submit(t) \/ ResumeUnknownThread(t)
           \/ \E d \in Decisions \cup {"malformed"} : Resume(t, d)
    PROVE  Shown(t)'
<1>1. ASSUME NEW r \in Optional(Requests), NEW c, NEW m, NEW complete,
             StartRequest(t, r, c, m, complete)
      PROVE  Shown(t)'
  <2>1. state'[t].request_id = r /\ next'[t] = "intake" /\ interrupts'[t] = None
    BY <1>1, StartSets DEF CaseInv
  <2>2. \A v \in reviews' : v.request_id # r
    <3>1. \A v \in reviews : v.request_id \in Requests /\ submitted[v.request_id] # None
      BY DEF CaseInv, TypeInv, TypeOK, Reviews, DecidedInv, ReviewsRegistered
    <3>2. QED
      BY <1>1, <3>1, GraphAssumption DEF StartRequest
  <2>3. \A i \in DOMAIN journal'[t] : journal'[t][i].request_id # r
    <3>1. \A i \in DOMAIN journal[t] : /\ journal[t][i].request_id \in Requests
                                       /\ submitted[journal[t][i].request_id] # None
      BY JournalledRequest DEF CaseInv, EffectInv, ThreadEffects
    <3>2. QED
      BY <1>1, <3>1, GraphAssumption DEF StartRequest
  <2>4. QED
    BY <2>1, <2>2, <2>3 DEF Shown, At
<1>2. CASE ResumeUnknownThread(t)
  <2>1. state[t] = EmptyState
    BY <1>2 DEF ResumeUnknownThread, GroundedInv, ThreadGrounded
  <2>2. interrupts[t] = None
    <3>1. SUFFICES ASSUME interrupts[t] # None PROVE FALSE
      OBVIOUS
    <3>2. interrupts[t].request_id \in Requests
      BY <3>1 DEF CaseInv, TypeInv, TypeOK, ApprovalRequests
    <3>3. interrupts[t].request_id = None
      BY <2>1, <3>1 DEF Shown, BuildApprovalRequest, EmptyState
    <3>4. QED
      BY <3>2, <3>3, GraphAssumption
  <2>3. UNCHANGED <<state, interrupts, reviews, journal>> /\ next'[t] = "intake"
    BY <1>2 DEF ResumeUnknownThread, history, CaseInv, TypeInv, TypeOK
  <2>4. QED
    BY <2>2, <2>3 DEF Shown, At
<1>3. ASSUME NEW d \in Decisions \cup {"malformed"}, Resume(t, d)
      PROVE  Shown(t)'
  <2>1. /\ UNCHANGED <<state, next, interrupts, journal>> /\ resume'[t] # None
        /\ interrupts[t] = BuildApprovalRequest(state[t].request_id, state[t].proposed_action)
    BY <1>3, AbsentAssumption
       DEF Resume, CaseInv, TypeInv, TypeOK, ReviewInv, ThreadReviewed
  <2>2. ASSUME NEW v \in reviews', v \notin reviews
        PROVE  OperationOf(v) = OperationOf(state[t].proposed_action)
    BY <1>3, <2>1, <2>2 DEF Resume, BuildApprovalRequest, OperationOf
  <2>3. QED
    BY <2>1, <2>2 DEF Shown, At
<1>4. QED
  BY <1>1, <1>2, <1>3, SubmitStarts DEF CaseInv

LEMMA StepShown ==
    ~ReuseThreads /\ CaseInv /\ GroundedInv /\ ShownInv /\ [Next]_vars => ShownInv'
<1> SUFFICES ASSUME ~ReuseThreads, CaseInv, GroundedInv, ShownInv, [Next]_vars
             PROVE  ShownInv'
  OBVIOUS
<1>1. CASE UNCHANGED vars
  BY <1>1 DEF vars, history, ShownInv, Shown, ServedByOwnThread, At
<1>2. ASSUME NEW t \in Threads, ThreadStep(t)
      PROVE  ShownInv'
  <2>1. Shown(t)'
    BY <1>2, GraphStepShown, CallerShown DEF ThreadStep, ShownInv
  <2>2. ASSUME NEW u \in Threads, u # t PROVE Shown(u)'
    BY <1>2, <2>2, OthersUntouched, ShownFrame DEF ShownInv, Untouched
  <2>3. QED
    BY <1>2, <2>1, <2>2, StepServed DEF ShownInv
<1>3. QED
  BY <1>1, <1>2, NextIsThreadStep

LEMMA ContractInvariance ==
    ASSUME ~ReuseThreads
    PROVE  Spec => []ContractInv
<1>1. Init => GroundedInv
  BY DEF Init, GroundedInv, ThreadGrounded, EmptyState, Concluding, Acted
<1>2. Init => ShownInv
  BY DEF Init, ShownInv, Shown, ServedByOwnThread
<1>3. CaseInv /\ GroundedInv /\ ShownInv /\ [Next]_vars => GroundedInv' /\ ShownInv'
  BY StepGrounded, StepShown
<1>4. QED
  BY <1>1, <1>2, <1>3, OutcomeInvariance, PTL DEF Spec, ContractInv

-----------------------------------------------------------------------------
\* The refinement mapping, seen from the thread that serves a request.

PhaseSeen(t) ==
    LET r == state[t].request_id
    IN  CASE run[t] \in Errors -> "failed"
          [] run[t] = "returned" -> "answered"
          [] OTHER -> IF Acted(t, r) THEN "performed"
                      ELSE IF Reviewed(r, "approved") THEN "approved"
                      ELSE IF Reviewed(r, "rejected") THEN "rejected"
                      ELSE IF interrupts[t] # None THEN "review"
                      ELSE "open"

\* An operation was shown, decided or performed for the request.
Settled(t) ==
    LET r == state[t].request_id
    IN  \/ Acted(t, r)
        \/ \E v \in reviews : v.request_id = r
        \/ interrupts[t] # None

OperationSeen(t) == IF Settled(t) THEN OperationOf(state[t].proposed_action) ELSE None

ViewsAgree ==
    \A t \in Threads : state[t].request_id # None =>
        /\ state[t].request_id \in Requests
        /\ submitted[state[t].request_id] # None
        /\ submitted[state[t].request_id].thread = t
        /\ PhaseOf(state[t].request_id) = PhaseSeen(t)
        /\ OperationFor(state[t].request_id) = OperationSeen(t)

LEMMA ServedRequest ==
    ASSUME CaseInv, NEW t \in Threads, state[t].request_id # None
    PROVE  LET r == state[t].request_id
           IN  r \in Requests /\ submitted[r] # None /\ submitted[r].thread = t
<1> DEFINE s == state[t]
<1>1. s \in CaseStates
  BY DEF CaseInv, TypeInv, TypeOK
<1>2. s.request_id \in Requests
  BY <1>1 DEF CaseStates
<1>3. StartedWith(submitted[s.request_id], t, s)
  BY <1>1 DEF CaseInv, EffectInv, ThreadEffects
<1>4. QED
  BY <1>2, <1>3 DEF StartedWith

LEMMA PhaseIsSeen ==
    ASSUME ContractInv, NEW t \in Threads, state[t].request_id # None
    PROVE  PhaseOf(state[t].request_id) = PhaseSeen(t)
<1> DEFINE r == state[t].request_id
<1>1. submitted[r] # None /\ submitted[r].thread = t
  BY ServedRequest DEF ContractInv
<1>2. run[t] = "returned" <=> Answered(t, r)
  BY DEF ContractInv, OutcomeInv, Accounted, ThreadReplied, Answered
<1>3. Raised(t) <=> run[t] \in Errors
  BY DEF Raised
<1>4. "returned" \notin Errors
  BY DEF Errors, ExpectedErrors, CorruptionErrors
<1>5. QED
  BY <1>1, <1>2, <1>3, <1>4 DEF PhaseOf, PhaseSeen

LEMMA OperationIsSeen ==
    ASSUME ContractInv, NEW t \in Threads, state[t].request_id # None
    PROVE  OperationFor(state[t].request_id) = OperationSeen(t)
<1> DEFINE r == state[t].request_id
           op == OperationOf(state[t].proposed_action)
<1>1. submitted[r] # None /\ submitted[r].thread = t
  BY ServedRequest DEF ContractInv
<1>2. ASSUME NEW x \in Performed(t, r) PROVE x = op
  BY DEF Performed, ContractInv, ShownInv, Shown
<1>3. ASSUME NEW x \in Offered(t, r) PROVE x = op
  <2>1. CASE \E v \in reviews : v.request_id = r /\ x = OperationOf(v)
    BY <2>1 DEF ContractInv, ShownInv, Shown
  <2>2. CASE interrupts[t] # None /\ x = OperationOf(interrupts[t])
    <3>1. interrupts[t] = BuildApprovalRequest(r, state[t].proposed_action)
      BY <2>2 DEF ContractInv, ShownInv, Shown
    <3>2. QED
      BY <2>2, <3>1 DEF BuildApprovalRequest, OperationOf
  <2>3. QED
    BY <2>1, <2>2 DEF Offered
<1>4. Performed(t, r) # {} <=> Acted(t, r)
  <2>1. ASSUME NEW i \in DOMAIN journal[t], journal[t][i].request_id = r
        PROVE  OperationOf(journal[t][i]) \in Performed(t, r)
    BY <2>1 DEF Performed
  <2>2. QED
    BY <2>1 DEF Performed, Acted
<1>5. Offered(t, r) # {} <=> interrupts[t] # None \/ \E v \in reviews : v.request_id = r
  <2>1. ASSUME NEW v \in reviews, v.request_id = r
        PROVE  OperationOf(v) \in Offered(t, r)
    BY <2>1 DEF Offered
  <2>2. interrupts[t] # None => OperationOf(interrupts[t]) \in Offered(t, r)
    BY DEF Offered
  <2>3. QED
    BY <2>1, <2>2 DEF Offered
<1>6. \A S : S # {} /\ (\A x \in S : x = op) => (CHOOSE x \in S : TRUE) = op
  OBVIOUS
<1>7. OperationFor(r) = IF Performed(t, r) # {} THEN CHOOSE x \in Performed(t, r) : TRUE
                        ELSE IF Offered(t, r) # {} THEN CHOOSE x \in Offered(t, r) : TRUE
                        ELSE None
  BY <1>1 DEF OperationFor
<1>8. QED
  BY <1>2, <1>3, <1>4, <1>5, <1>6, <1>7 DEF OperationSeen, Settled

LEMMA ViewsAgreeAlways == ContractInv => ViewsAgree
  BY ServedRequest, PhaseIsSeen, OperationIsSeen DEF ContractInv, ViewsAgree

LEMMA ViewsAgreeNext == ContractInv' => ViewsAgree'
  BY ViewsAgreeAlways, PTL

\* What a step of thread t does for another thread's request: nothing.
LEMMA OtherRequests ==
    ASSUME ContractInv, NEW t \in Threads, ThreadStep(t), NEW q \in Requests,
           submitted'[q] = submitted[q],
           submitted[q] # None => submitted[q].thread # t
    PROVE  PhaseOf(q)' = PhaseOf(q) /\ OperationFor(q)' = OperationFor(q)
<1>1. CASE submitted[q] = None
  BY <1>1 DEF PhaseOf, OperationFor
<1>2. CASE submitted[q] # None
  <2> DEFINE u == submitted[q].thread
  <2>1. u \in Threads /\ state[u].request_id = q
    BY <1>2 DEF ContractInv, ShownInv, ServedByOwnThread, CaseInv, TypeInv, TypeOK, Submissions
  <2>2. Untouched(u) /\ reviews \subseteq reviews'
    BY <1>2, <2>1, OthersUntouched, SubmissionsAreKept DEF ContractInv, CaseInv
  <2>3. interrupts'[u] = interrupts[u] /\ run'[u] = run[u]
        /\ journal'[u] = journal[u] /\ replies'[u] = replies[u]
    BY <2>2 DEF Untouched
  <2>4. \A v : v \in reviews' /\ v.request_id = q <=> v \in reviews /\ v.request_id = q
    BY <2>1, <2>2 DEF Untouched
  <2>5. \A d : Reviewed(q, d)' <=> Reviewed(q, d)
    BY <2>4 DEF Reviewed
  <2>6. PhaseOf(q)' = PhaseOf(q)
    BY <1>2, <2>3, <2>5 DEF PhaseOf, Raised, Answered, Acted
  <2>7. {v \in reviews' : v.request_id = q} = {v \in reviews : v.request_id = q}
    BY <2>4
  <2>8. Performed(u, q)' = Performed(u, q) /\ Offered(u, q)' = Offered(u, q)
    BY <2>3, <2>7 DEF Performed, Offered
  <2>9. OperationFor(q)' = OperationFor(q)
    BY <1>2, <2>8 DEF OperationFor
  <2>10. QED
    BY <2>6, <2>9
<1>3. QED
  BY <1>1, <1>2

-----------------------------------------------------------------------------
\* The moves of the contract.

\* What a step does for the request thread t serves, as the contract has it.
Same(t) == PhaseSeen(t)' = PhaseSeen(t) /\ OperationSeen(t)' = OperationSeen(t)

Moved(t, from, to) == PhaseSeen(t) \in from /\ PhaseSeen(t)' = to

ContractMove(t) ==
    \/ Same(t)
    \/ Moved(t, {"open"}, "review") /\ OperationSeen(t)' \in ContractSensitive
    \/ /\ Moved(t, {"review"}, "approved") \/ Moved(t, {"review"}, "rejected")
       /\ OperationSeen(t)' = OperationSeen(t)
    \/ /\ Moved(t, {"open"}, "performed")
       /\ OperationSeen(t)' \in ContractOperations \ ContractSensitive
    \/ /\ Moved(t, {"approved"}, "performed")
       /\ OperationSeen(t)' = OperationSeen(t)
    \/ /\ Moved(t, {"open", "rejected", "performed"}, "answered")
       /\ OperationSeen(t)' = OperationSeen(t)
    \/ /\ Moved(t, {"open", "review", "approved", "rejected", "performed"}, "failed")
       /\ OperationSeen(t)' = OperationSeen(t)

LEMMA SeenMoves ==
    ASSUME ContractInv, ContractInv', NEW t \in Threads, ThreadStep(t),
           state[t].request_id # None, state'[t].request_id = state[t].request_id,
           submitted' = submitted, ContractMove(t)
    PROVE  Contract!Next \/ UNCHANGED Contract!vars
<1> DEFINE r == state[t].request_id
<1>1. /\ r \in Requests /\ submitted[r] # None /\ submitted[r].thread = t
      /\ PhaseOf(r) = PhaseSeen(t) /\ OperationFor(r) = OperationSeen(t)
  BY ViewsAgreeAlways DEF ViewsAgree
<1>2. PhaseOf(r)' = PhaseSeen(t)' /\ OperationFor(r)' = OperationSeen(t)'
  BY ViewsAgreeNext DEF ViewsAgree
<1>3. ASSUME NEW q \in Requests \ {r}
      PROVE  PhaseOf(q)' = PhaseOf(q) /\ OperationFor(q)' = OperationFor(q)
  <2>1. submitted[q] # None => submitted[q].thread # t
    BY DEF ContractInv, ShownInv, ServedByOwnThread
  <2>2. QED
    BY <2>1, OtherRequests
<1>4. ASSUME NEW from, NEW to, Moved(t, from, to)
      PROVE  Contract!Move(r, from, to)
  BY <1>1, <1>2, <1>3, <1>4 DEF Moved, Contract!Move
<1>5. [q \in Requests |-> OperationFor(q)]' =
          [[q \in Requests |-> OperationFor(q)] EXCEPT ![r] = OperationSeen(t)']
  BY <1>1, <1>2, <1>3
<1>6. OperationSeen(t)' = OperationSeen(t) => UNCHANGED [q \in Requests |-> OperationFor(q)]
  BY <1>1, <1>2, <1>3
<1>7. CASE Same(t)
  BY <1>1, <1>2, <1>3, <1>6, <1>7 DEF Same, Contract!vars
<1>8. CASE Moved(t, {"open"}, "review") /\ OperationSeen(t)' \in ContractSensitive
  <2>1. Contract!Offer(r, OperationSeen(t)')
    BY <1>4, <1>5, <1>8 DEF Contract!Offer
  <2>2. Contract!Progress(r)
    BY <1>8, <2>1 DEF Contract!Progress
  <2>3. QED
    BY <1>1, <2>2 DEF Contract!Next
<1>9. CASE /\ Moved(t, {"review"}, "approved") \/ Moved(t, {"review"}, "rejected")
           /\ OperationSeen(t)' = OperationSeen(t)
  BY <1>1, <1>4, <1>6, <1>9 DEF Contract!Next, Contract!Decide
<1>10. CASE /\ Moved(t, {"open"}, "performed")
            /\ OperationSeen(t)' \in ContractOperations \ ContractSensitive
  <2>1. Contract!PerformSafe(r, OperationSeen(t)')
    BY <1>4, <1>5, <1>10 DEF Contract!PerformSafe
  <2>2. Contract!Progress(r)
    BY <1>10, <2>1 DEF Contract!Progress
  <2>3. QED
    BY <1>1, <2>2 DEF Contract!Next
<1>11. CASE /\ Moved(t, {"approved"}, "performed")
            /\ OperationSeen(t)' = OperationSeen(t)
  BY <1>1, <1>4, <1>6, <1>11 DEF Contract!Next, Contract!Progress, Contract!PerformApproved
<1>12. CASE /\ Moved(t, {"open", "rejected", "performed"}, "answered")
            /\ OperationSeen(t)' = OperationSeen(t)
  BY <1>1, <1>4, <1>6, <1>12 DEF Contract!Next, Contract!Progress, Contract!Answer
<1>13. CASE /\ Moved(t, {"open", "review", "approved", "rejected", "performed"}, "failed")
            /\ OperationSeen(t)' = OperationSeen(t)
  BY <1>1, <1>4, <1>6, <1>13 DEF Contract!Next, Contract!Fail
<1>14. QED
  BY <1>7, <1>8, <1>9, <1>10, <1>11, <1>12, <1>13 DEF ContractMove

-----------------------------------------------------------------------------
\* The steps of a thread that serves a request.

LEMMA SettledLate ==
    ASSUME ContractInv, NEW t \in Threads, Settled(t)
    PROVE  next[t] \in AfterReview
<1> DEFINE r == state[t].request_id
<1>1. CASE Acted(t, r)
  BY <1>1 DEF Acted, ContractInv, CaseInv, EffectInv, ThreadEffects, AfterReview
<1>2. CASE \E v \in reviews : v.request_id = r
  BY <1>2 DEF ContractInv, CaseInv, DecidedInv, ThreadDecided
<1>3. CASE interrupts[t] # None
  BY <1>3 DEF ContractInv, ShownInv, Shown, AfterReview
<1>4. QED
  BY <1>1, <1>2, <1>3 DEF Settled

LEMMA OperationKept ==
    ASSUME ContractInv, NEW t \in Threads, GraphStep(t), Settled(t)' <=> Settled(t)
    PROVE  OperationSeen(t)' = OperationSeen(t)
<1>1. Settled(t) => state'[t].proposed_action = state[t].proposed_action
  BY SettledLate, LateNodesKeepProposal DEF ContractInv, CaseInv
<1>2. QED
  BY <1>1 DEF OperationSeen

\* While its thread runs or waits, a request is neither answered nor failed.
LEMMA PhaseWhileRunning ==
    ASSUME NEW t \in Threads, run[t] \in {"running", "paused"}
    PROVE  LET r == state[t].request_id
           IN  PhaseSeen(t) = IF Acted(t, r) THEN "performed"
                              ELSE IF Reviewed(r, "approved") THEN "approved"
                              ELSE IF Reviewed(r, "rejected") THEN "rejected"
                              ELSE IF interrupts[t] # None THEN "review"
                              ELSE "open"
  BY DEF PhaseSeen, Errors, ExpectedErrors, CorruptionErrors

LEMMA RaisingFails ==
    ASSUME NEW t \in Threads, run[t] = "running", run'[t] \in Errors,
           OperationSeen(t)' = OperationSeen(t)
    PROVE  ContractMove(t)
<1>1. PhaseSeen(t) \in {"open", "review", "approved", "rejected", "performed"}
  BY PhaseWhileRunning
<1>2. PhaseSeen(t)' = "failed"
  BY DEF PhaseSeen, Errors, ExpectedErrors, CorruptionErrors
<1>3. QED
  BY <1>1, <1>2 DEF ContractMove, Moved

LEMMA QuietMove ==
    ASSUME ContractInv, NEW t \in Threads, GraphStep(t), PlainStep(t), QuietStep(t)
    PROVE  ContractMove(t)
<1> DEFINE r == state[t].request_id
<1>1. /\ UNCHANGED <<interrupts, reviews, journal>> /\ state'[t].request_id = r
      /\ run[t] = "running"
  BY RequestKept DEF PlainStep, ContractInv, CaseInv
<1>2. Settled(t)' <=> Settled(t)
  BY <1>1 DEF Settled, Acted
<1>3. OperationSeen(t)' = OperationSeen(t)
  BY <1>2, OperationKept
<1>4. CASE run'[t] \in Errors
  BY <1>1, <1>3, <1>4, RaisingFails
<1>5. CASE run'[t] = "running"
  BY <1>1, <1>3, <1>5 DEF ContractMove, Same, PhaseSeen, Acted, Reviewed
<1>6. QED
  BY <1>4, <1>5 DEF QuietStep

LEMMA ReplyMove ==
    ASSUME ContractInv, NEW t \in Threads, FinalResponse(t)
    PROVE  ContractMove(t)
<1> DEFINE s == state[t]
           r == s.request_id
<1>1. /\ UNCHANGED <<interrupts, reviews, journal>> /\ state'[t].request_id = r
      /\ run[t] = "running" /\ next[t] = "final_response"
  BY RequestKept DEF FinalResponse, At, GraphStep, ContractInv, CaseInv
<1>2. Settled(t)' <=> Settled(t)
  BY <1>1 DEF Settled, Acted
<1>3. OperationSeen(t)' = OperationSeen(t)
  BY <1>2, OperationKept DEF GraphStep
<1>4. CASE run'[t] = "ResponseGenerationError"
  BY <1>1, <1>3, <1>4, RaisingFails DEF Errors, ExpectedErrors
<1>5. CASE RepliedAs(t)
  <2>1. interrupts[t] = None
    BY <1>1 DEF ContractInv, ShownInv, Shown
  <2>2. Reviewed(r, "approved") => Acted(t, r)
    BY <1>1 DEF ContractInv, OutcomeInv, Accounted, ThreadOutcome, Decisions
  <2>3. PhaseSeen(t) \in {"open", "rejected", "performed"}
    BY <1>1, <2>1, <2>2, PhaseWhileRunning
  <2>4. PhaseSeen(t)' = "answered"
    BY <1>5 DEF RepliedAs, PhaseSeen, Errors, ExpectedErrors, CorruptionErrors
  <2>5. QED
    BY <1>3, <2>3, <2>4 DEF ContractMove, Moved
<1>6. QED
  BY <1>4, <1>5, ReplyExactly DEF ContractInv, CaseInv

\* An interrupt offers a sensitive operation to a reviewer.
LEMMA RequestMove ==
    ASSUME ContractInv, NEW t \in Threads, RequestApproval(t), state[t].request_id # None
    PROVE  ContractMove(t)
<1> DEFINE s == state[t]
           r == s.request_id
           op == OperationOf(s.proposed_action)
<1>1. /\ UNCHANGED <<state, reviews, journal>>
      /\ At(t, "human_approval") /\ resume[t] = None
  BY DEF RequestApproval, Raise, history
<1>2. interrupts[t] = None
  BY <1>1 DEF ContractInv, ShownInv, Shown
<1>3. ~Acted(t, r) /\ ~\E v \in reviews : v.request_id = r
  <2>1. ~Acted(t, r)
    BY <1>1, NothingHappenedYet DEF At, ContractInv
  <2>2. ASSUME NEW v \in reviews, v.request_id = r PROVE FALSE
    <3>1. resume[t] = v.decision
      BY <1>1, <2>2 DEF ContractInv, CaseInv, DecidedInv, ThreadDecided
    <3>2. v.decision \in Decisions
      BY DEF ContractInv, CaseInv, TypeInv, TypeOK, Reviews
    <3>3. QED
      BY <1>1, <3>1, <3>2, AbsentAssumption
  <2>3. QED
    BY <2>1, <2>2
<1>4. PhaseSeen(t) = "open"
  BY <1>1, <1>2, <1>3, PhaseWhileRunning DEF At, Reviewed
<1>5. CASE run'[t] \in Errors /\ UNCHANGED interrupts
  <2>1. Settled(t)' <=> Settled(t)
    BY <1>1, <1>5 DEF Settled, Acted
  <2>2. QED
    BY <1>1, <1>5, <2>1, OperationKept, RaisingFails DEF At, GraphStep
<1>6. CASE /\ ~ApprovalFails(s) /\ run'[t] = "paused"
           /\ interrupts'[t] = BuildApprovalRequest(r, s.proposed_action)
  <2>1. s.proposed_action \in ProposedActions
    BY <1>1 DEF At, ContractInv, CaseInv, TypeInv, TypeOK, CaseStates, ChannelsReady, Ready,
                NeedProposal, NeedInput
  <2>2. op \in ContractSensitive
    BY <1>6, <2>1 DEF ContractSensitive, ContractOperations, OperationOf, ProposedActions,
                      ApprovalFails, ApprovalTemplates, ApprovalRequiredActionTypes
  <2>3. interrupts'[t] # None
    <3>1. r \in Requests
      BY ServedRequest DEF ContractInv
    <3>2. interrupts'[t] \in ApprovalRequests(Requests)
      BY <1>6, <2>1, <3>1 DEF BuildApprovalRequest, ApprovalRequests, ProposedActions
    <3>3. QED
      BY <3>2, AbsentAssumption
  <2>4. PhaseSeen(t)' = "review"
    BY <1>1, <1>3, <1>6, <2>3
       DEF PhaseSeen, Acted, Reviewed, Errors, ExpectedErrors, CorruptionErrors
  <2>5. OperationSeen(t)' = op
    BY <1>1, <2>3 DEF OperationSeen, Settled
  <2>6. QED
    BY <1>4, <2>2, <2>4, <2>5 DEF ContractMove, Moved
<1>7. QED
  BY <1>5, <1>6
     DEF RequestApproval, Raise, ContractInv, CaseInv, TypeInv, TypeOK, Errors, ExpectedErrors

\* The reviewer decides what was offered.
LEMMA DecisionMove ==
    ASSUME ContractInv, NEW t \in Threads, NEW d \in Decisions \cup {"malformed"}, Resume(t, d)
    PROVE  ContractMove(t)
<1> DEFINE s == state[t]
           r == s.request_id
<1>1. /\ UNCHANGED <<state, interrupts, journal>> /\ run[t] = "paused" /\ run'[t] = "running"
      /\ next[t] = "human_approval" /\ interrupts[t] # None
  BY DEF Resume, ContractInv, CaseInv, TypeInv, TypeOK, ChannelsReady
<1>2. ~Acted(t, r) /\ \A e : ~Reviewed(r, e)
  BY <1>1, NothingHappenedYet
     DEF ContractInv, CaseInv, DecidedInv, ThreadDecided, Reviewed
<1>3. PhaseSeen(t) = "review"
  BY <1>1, <1>2, PhaseWhileRunning
<1>4. OperationSeen(t)' = OperationSeen(t)
  BY <1>1 DEF OperationSeen, Settled
<1>5. interrupts[t].request_id = r
  <2>1. interrupts[t] = BuildApprovalRequest(r, s.proposed_action)
    BY <1>1 DEF ContractInv, ShownInv, Shown
  <2>2. QED
    BY <2>1 DEF BuildApprovalRequest
<1>6. CASE d \in Decisions
  <2> DEFINE review == [thread      |-> t,
                        request_id  |-> interrupts[t].request_id,
                        action_type |-> interrupts[t].action_type,
                        order_id    |-> interrupts[t].order_id,
                        decision    |-> d]
  <2>1. /\ reviews' = reviews \cup {review}
        /\ review.request_id = r /\ review.decision = d
    BY <1>5, <1>6 DEF Resume
  <2>2. \A e : Reviewed(r, e)' <=> e = d
    <3>1. \A v \in reviews : v.request_id # r
      BY <1>2 DEF Reviewed
    <3> HIDE DEF review
    <3>2. QED
      BY <1>1, <2>1, <3>1 DEF Reviewed
  <2>3. PhaseSeen(t)' = IF d = "approved" THEN "approved" ELSE "rejected"
    BY <1>1, <1>2, <1>6, <2>2
       DEF PhaseSeen, Acted, Decisions, Errors, ExpectedErrors, CorruptionErrors
  <2>4. QED
    BY <1>3, <1>4, <2>3 DEF ContractMove, Moved
<1>7. CASE d \notin Decisions
  <2>1. reviews' = reviews
    BY <1>7 DEF Resume
  <2>2. PhaseSeen(t)' = PhaseSeen(t)
    BY <1>1, <2>1 DEF PhaseSeen, Acted, Reviewed, Errors, ExpectedErrors, CorruptionErrors
  <2>3. QED
    BY <1>4, <2>2 DEF ContractMove, Same
<1>8. QED
  BY <1>6, <1>7

\* Reading the decision back changes nothing the contract speaks of.
LEMMA ResolveMove ==
    ASSUME ContractInv, NEW t \in Threads, ResolveApproval(t)
    PROVE  ContractMove(t)
<1> DEFINE s == state[t]
           r == s.request_id
<1>1. /\ UNCHANGED <<reviews, journal>> /\ At(t, "human_approval")
      /\ state'[t].request_id = r
  BY RequestKept DEF ResolveApproval, history, GraphStep, ContractInv, CaseInv
<1>2. CASE run'[t] = "ApprovalError" /\ UNCHANGED <<state, next, interrupts>>
  <2>1. Settled(t)' <=> Settled(t)
    BY <1>1, <1>2 DEF Settled, Acted
  <2>2. QED
    BY <1>1, <1>2, <2>1, OperationKept, RaisingFails
       DEF At, GraphStep, Errors, ExpectedErrors
<1>3. CASE ResolvedAs(t)
  <2>1. Reviewed(r, resume[t]) /\ resume[t] \in Decisions /\ run'[t] = "running"
    BY <1>3 DEF ResolvedAs, Reviewed, ReviewOf, ContractInv, CaseInv, ReviewInv, ThreadReviewed
  <2>2. \E v \in reviews : v.request_id = r
    BY <2>1 DEF Reviewed
  <2>3. Settled(t)' /\ Settled(t)
    BY <1>1, <2>2 DEF Settled
  <2>4. OperationSeen(t)' = OperationSeen(t)
    BY <2>3, OperationKept DEF GraphStep
  <2>5. PhaseSeen(t)' = PhaseSeen(t)
    BY <1>1, <2>1
       DEF At, PhaseSeen, Acted, Reviewed, Decisions, Errors, ExpectedErrors, CorruptionErrors
  <2>6. QED
    BY <2>4, <2>5 DEF ContractMove, Same
<1>4. QED
  <2>1. run'[t] = "ApprovalError" => UNCHANGED interrupts
    BY DEF ResolveApproval, Commit, ContractInv, CaseInv, TypeInv, TypeOK
  <2>2. QED
    BY <1>2, <1>3, <2>1, ResolveExactly DEF ContractInv, CaseInv

\* A store call performs what was approved, or an operation that needs no
\* reviewer.
LEMMA ExecuteMove ==
    ASSUME ContractInv, NEW t \in Threads, state[t].request_id # None,
           ExecuteSafeAction(t) \/ ExecuteApprovedAction(t)
    PROVE  ContractMove(t)
<1> DEFINE s == state[t]
           r == s.request_id
           op == OperationOf(s.proposed_action)
<1>1. /\ UNCHANGED <<reviews, interrupts>> /\ GraphStep(t) /\ run[t] = "running"
      /\ next[t] \in {"execute_safe_action", "execute_approved_action"}
      /\ state'[t].request_id = r
  BY RequestKept
     DEF ExecuteSafeAction, ExecuteApprovedAction, At, GraphStep, ContractInv, CaseInv
<1>2. interrupts[t] = None
  BY <1>1 DEF ContractInv, ShownInv, Shown
<1>3. ~Acted(t, r)
  BY <1>1, NothingHappenedYet DEF ContractInv
<1>4. CASE Refused(t)
  <2>1. Settled(t)' <=> Settled(t)
    BY <1>1, <1>4 DEF Refused, Settled, Acted
  <2>2. QED
    BY <1>1, <1>4, <2>1, OperationKept, RaisingFails DEF Refused
<1>5. ASSUME NEW approved, Executed(t, approved)
      PROVE  ContractMove(t)
  <2>1. run'[t] = "running" /\ Acted(t, r)'
    <3>1. PICK address : journal' = [journal EXCEPT ![t] = Append(@, EffectAt(t, address))]
      BY <1>5 DEF Executed
    <3>2. /\ Len(journal[t]) + 1 \in DOMAIN journal'[t]
          /\ journal'[t][Len(journal[t]) + 1].request_id = r
      BY <3>1 DEF EffectAt, ContractInv, CaseInv, TypeInv, TypeOK
    <3>3. QED
      BY <1>1, <1>5, <3>2 DEF Executed, Acted
  <2>2. PhaseSeen(t)' = "performed"
    BY <1>1, <2>1 DEF PhaseSeen, Acted, Errors, ExpectedErrors, CorruptionErrors
  <2>3. OperationSeen(t)' = op
    <3>1. state'[t].proposed_action = s.proposed_action
      BY <1>1, LateNodesKeepProposal DEF AfterReview, ContractInv, CaseInv
    <3>2. QED
      BY <1>1, <2>1, <3>1 DEF OperationSeen, Settled
  <2>4. CASE next[t] = "execute_approved_action"
    <3>1. Reviewed(r, "approved")
      BY <1>1, <2>4
         DEF At, Reviewed, ReviewOf, ContractInv, CaseInv, ReviewInv, ThreadReviewed
    <3>2. PhaseSeen(t) = "approved"
      BY <1>1, <1>3, <3>1, PhaseWhileRunning
    <3>3. OperationSeen(t) = op
      BY <3>1 DEF OperationSeen, Settled, Reviewed
    <3>4. QED
      BY <2>2, <2>3, <3>2, <3>3 DEF ContractMove, Moved
  <2>5. CASE next[t] = "execute_safe_action"
    <3>1. \A v \in reviews : v.request_id # r
      BY <2>5 DEF ContractInv, CaseInv, DecidedInv, ThreadDecided, AfterReview
    <3>2. PhaseSeen(t) = "open"
      BY <1>1, <1>2, <1>3, <3>1, PhaseWhileRunning DEF Reviewed
    <3>3. s.proposed_action \in ProposedActions
      BY <1>1 DEF ContractInv, CaseInv, TypeInv, TypeOK, CaseStates, ChannelsReady, Ready,
                  NeedProposal, NeedInput
    <3>4. op \in ContractOperations
      BY <3>3 DEF ContractOperations, OperationOf, ProposedActions
    <3>5. s.proposed_action.action_type \notin ApprovalRequiredActionTypes
      <4>1. ExecuteSafeAction(t)
        BY <2>5 DEF ExecuteApprovedAction, At
      <4>2. ~Refused(t)
        BY <2>1 DEF Refused, Errors, ExpectedErrors, CorruptionErrors
      <4>3. Executed(t, FALSE)
        BY <4>1, <4>2, ExecuteEffect DEF ExecuteSafeAction, ContractInv, CaseInv
      <4>4. QED
        BY <4>3 DEF Executed
    <3>6. op \in ContractOperations \ ContractSensitive
      BY <3>4, <3>5 DEF ContractSensitive, OperationOf
    <3>7. QED
      BY <2>2, <2>3, <3>2, <3>6 DEF ContractMove, Moved
  <2>6. QED
    BY <1>1, <2>4, <2>5
<1>6. QED
  BY <1>4, <1>5, ExecuteEffect DEF ExecuteSafeAction, ExecuteApprovedAction, ContractInv, CaseInv

\* A new request on a new thread.
LEMMA SubmitMove ==
    ASSUME ~ReuseThreads, ContractInv, ContractInv', NEW t \in Threads,
           NEW r \in Requests, NEW c, NEW m, NEW complete, Submit(t),
           StartRequest(t, r, c, m, complete)
    PROVE  Contract!Next
<1>1. r # None
  BY GraphAssumption
<1>2. /\ state'[t].request_id = r /\ run'[t] = "running" /\ interrupts'[t] = None
      /\ submitted[r] = None
      /\ \A q \in Requests \ {r} : submitted'[q] = submitted[q]
  BY <1>1, StartSets DEF ContractInv, CaseInv
<1>3. run[t] = "new" /\ UNCHANGED <<reviews, journal, replies>>
  BY DEF StartRequest
<1>4. PhaseOf(r) = "unseen" /\ OperationFor(r) = None
  BY <1>2 DEF PhaseOf, OperationFor
<1>5. ~Acted(t, r)' /\ ~(\E v \in reviews' : v.request_id = r)
  <2>1. ~Acted(t, r)
    <3>1. \A i \in DOMAIN journal[t] : submitted[journal[t][i].request_id] # None
      BY DEF ContractInv, CaseInv, EffectInv, ThreadEffects
    <3>2. QED
      BY <1>2, <3>1 DEF Acted
  <2>2. ~\E v \in reviews : v.request_id = r
    BY <1>2 DEF ContractInv, CaseInv, DecidedInv, ReviewsRegistered
  <2>3. QED
    BY <1>3, <2>1, <2>2 DEF Acted
<1>6. PhaseSeen(t)' = "open"
  BY <1>2, <1>5 DEF PhaseSeen, Acted, Reviewed, Errors, ExpectedErrors, CorruptionErrors
<1>7. OperationSeen(t)' = None
  BY <1>2, <1>5 DEF OperationSeen, Settled, Acted
<1>8. PhaseOf(r)' = "open" /\ OperationFor(r)' = None
  BY <1>1, <1>2, <1>6, <1>7, ViewsAgreeNext DEF ViewsAgree
<1>9. ASSUME NEW q \in Requests \ {r}
      PROVE  PhaseOf(q)' = PhaseOf(q) /\ OperationFor(q)' = OperationFor(q)
  <2>1. submitted'[q] = submitted[q]
    BY <1>2
  <2>2. submitted[q] # None => submitted[q].thread # t
    BY <1>3, GraphAssumption
       DEF ContractInv, ShownInv, ServedByOwnThread, GroundedInv, ThreadGrounded, EmptyState
  <2>3. ThreadStep(t)
    BY DEF ThreadStep
  <2>4. QED
    BY <2>1, <2>2, <2>3, OtherRequests
<1>10. Contract!Submit(r)
  BY <1>4, <1>8, <1>9 DEF Contract!Submit, Contract!Move
<1>11. QED
  BY <1>10 DEF Contract!Next

\* A payload without a request id starts nothing the contract speaks of.
LEMMA BlankMove ==
    ASSUME ~ReuseThreads, ContractInv, NEW t \in Threads, NEW c, NEW m, NEW complete,
           Submit(t), StartRequest(t, None, c, m, complete)
    PROVE  UNCHANGED Contract!vars
<1>1. run[t] = "new" /\ submitted' = submitted /\ ThreadStep(t)
  BY DEF StartRequest, ThreadStep
<1>2. state[t].request_id = None
  BY <1>1 DEF ContractInv, GroundedInv, ThreadGrounded, EmptyState
<1>3. ASSUME NEW q \in Requests
      PROVE  PhaseOf(q)' = PhaseOf(q) /\ OperationFor(q)' = OperationFor(q)
  <2>1. submitted[q] # None => submitted[q].thread # t
    BY <1>2, GraphAssumption DEF ContractInv, ShownInv, ServedByOwnThread
  <2>2. QED
    BY <1>1, <2>1, OtherRequests
<1>4. QED
  BY <1>3 DEF Contract!vars

-----------------------------------------------------------------------------
\* The refinement.

LEMMA ServingStepRefines ==
    ASSUME ContractInv, ContractInv', NEW t \in Threads, state[t].request_id # None,
           \/ GraphStep(t) \/ ResumeUnknownThread(t)
           \/ \E d \in Decisions \cup {"malformed"} : Resume(t, d)
    PROVE  Contract!Next \/ UNCHANGED Contract!vars
<1>1. ContractMove(t)
  <2>1. CASE GraphStep(t)
    BY <2>1, GraphStepKinds, QuietMove, ReplyMove, RequestMove, ResolveMove, ExecuteMove
       DEF ContractInv, CaseInv
  <2>2. ~ResumeUnknownThread(t)
    BY DEF ResumeUnknownThread, ContractInv, GroundedInv, ThreadGrounded, EmptyState
  <2>3. QED
    BY <2>1, <2>2, DecisionMove
<1>2. ThreadStep(t)
  BY DEF ThreadStep
<1>3. QED
  BY <1>1, <1>2, RequestKept, SeenMoves DEF ContractInv, CaseInv

\* A thread that serves no request raises in intake: the contract does not see it.
LEMMA IdleStepRefines ==
    ASSUME ContractInv, NEW t \in Threads, state[t].request_id = None,
           \/ GraphStep(t) \/ ResumeUnknownThread(t)
           \/ \E d \in Decisions \cup {"malformed"} : Resume(t, d)
    PROVE  UNCHANGED Contract!vars
<1>1. submitted' = submitted /\ ThreadStep(t)
  BY RequestKept DEF ThreadStep, ContractInv, CaseInv
<1>2. ASSUME NEW q \in Requests
      PROVE  PhaseOf(q)' = PhaseOf(q) /\ OperationFor(q)' = OperationFor(q)
  <2>1. submitted[q] # None => submitted[q].thread # t
    BY GraphAssumption DEF ContractInv, ShownInv, ServedByOwnThread
  <2>2. QED
    BY <1>1, <2>1, OtherRequests
<1>3. QED
  BY <1>2 DEF Contract!vars

LEMMA StepRefines ==
    ~ReuseThreads /\ ContractInv /\ ContractInv' /\ [Next]_vars => [Contract!Next]_(Contract!vars)
<1> SUFFICES ASSUME ~ReuseThreads, ContractInv, ContractInv', [Next]_vars
             PROVE  Contract!Next \/ UNCHANGED Contract!vars
  OBVIOUS
<1>1. CASE UNCHANGED vars
  <2>1. ASSUME NEW q \in Requests
        PROVE  PhaseOf(q)' = PhaseOf(q) /\ OperationFor(q)' = OperationFor(q)
    BY <1>1 DEF vars, history, PhaseOf, OperationFor, Raised, Answered, Acted, Reviewed,
                Performed, Offered
  <2>2. QED
    BY <2>1 DEF Contract!vars
<1>2. ASSUME NEW t \in Threads, ThreadStep(t)
      PROVE  Contract!Next \/ UNCHANGED Contract!vars
  <2>1. CASE Submit(t)
    <3>1. PICK r \in Optional(Requests), c \in Optional(CustomerIds),
               m \in Optional(Messages), complete \in BOOLEAN :
                   StartRequest(t, r, c, m, complete)
      BY <2>1, SubmitStarts DEF ContractInv, CaseInv
    <3>2. CASE r = None
      BY <2>1, <3>1, <3>2, BlankMove
    <3>3. CASE r # None
      BY <2>1, <3>1, <3>3, SubmitMove
    <3>4. QED
      BY <3>2, <3>3
  <2>2. CASE ~Submit(t)
    BY <1>2, <2>2, ServingStepRefines, IdleStepRefines DEF ThreadStep
  <2>3. QED
    BY <2>1, <2>2
<1>3. QED
  BY <1>1, <1>2, NextIsThreadStep

\* For any number of cases on threads of their own, whatever the interleaving,
\* the reviewers and the failures, the graph does for each request what the
\* contract says: one operation at most, a sensitive one only after exactly
\* that was offered and approved, one answer at most, and nothing after a
\* failure.
THEOREM GraphKeepsContract ==
    ASSUME ~ReuseThreads
    PROVE  Spec => Contract!Spec
<1>1. Init => Contract!Init
  BY DEF Init, Contract!Init, PhaseOf, OperationFor
<1>2. ContractInv /\ ContractInv' /\ [Next]_vars => [Contract!Next]_(Contract!vars)
  BY StepRefines
<1>3. QED
  BY <1>1, <1>2, ContractInvariance, PTL DEF Spec, Contract!Spec

=============================================================================
