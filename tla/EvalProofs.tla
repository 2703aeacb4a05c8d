----------------------------- MODULE EvalProofs -----------------------------
(***************************************************************************)
(* What a verdict of the end-to-end evaluation is worth, for any fixture,  *)
(* any benchmark of well declared cases and any answers of the models.     *)
(*                                                                         *)
(* The runner drives CaseGraph, so the invariants of a case carry over:    *)
(* a new store for the next case is the only step of the runner that no    *)
(* caller of the graph could take, and they do not depend on the store.    *)
(***************************************************************************)
EXTENDS EvalRunner, CaseOutcomeProofs

USE DEF Optional

-----------------------------------------------------------------------------
\* The graph under the runner.

\* A thread that was never invoked has an empty checkpoint.
UnusedAreEmpty ==
    \A t \in Threads : run[t] = "new" => state[t] = EmptyState /\ resume[t] = None

GraphInv == CaseInv /\ ScopeInv /\ UnusedAreEmpty

\* A store of its own for the next case.
NewStore ==
    /\ store' = FreshStore(catalog)
    /\ UNCHANGED <<state, next, run, resume, interrupts, catalog, history>>

LEMMA NewStoreKeepsGraph ==
    ASSUME GraphInv, NewStore
    PROVE  GraphInv'
<1>1. TypeInv'
  <2>1. store' \in Stores
    BY DEF NewStore, FreshStore, Stores, GraphInv, CaseInv, TypeInv, TypeOK
  <2>2. TypeOK'
    BY <2>1 DEF NewStore, history, GraphInv, CaseInv, TypeInv, TypeOK
  <2>3. ChannelsReady'
    BY DEF NewStore, GraphInv, CaseInv, TypeInv, ChannelsReady, Ready
  <2>4. QED
    BY <2>2, <2>3 DEF TypeInv
<1>2. ReviewInv'
  BY DEF NewStore, history, GraphInv, CaseInv, ReviewInv, ThreadReviewed, ReviewOf, At,
         InputMatches, SensitiveEffectsReviewed
<1>3. EffectInv'
  BY DEF NewStore, history, GraphInv, CaseInv, EffectInv, ThreadEffects
<1>4. DecidedInv'
  BY DEF NewStore, history, GraphInv, CaseInv, DecidedInv, ThreadDecided, ReviewsRegistered,
         RejectedNeverActs, Acted, At
<1>5. ScopeInv' /\ UnusedAreEmpty'
  BY DEF NewStore, GraphInv, ScopeInv, Scoped, InScope, UnusedAreEmpty
<1>6. QED
  BY <1>1, <1>2, <1>3, <1>4, <1>5 DEF GraphInv, CaseInv

LEMMA UsedByStep ==
    ASSUME CaseInv, NEW t \in Threads, GraphStep(t)
    PROVE  run[t] = "running" /\ run'[t] # "new"
<1> USE DEF Errors, ExpectedErrors, CorruptionErrors
<1>1. CASE PlainStep(t)
  BY <1>1 DEF PlainStep
<1>2. CASE RequestApproval(t)
  BY <1>2 DEF RequestApproval, At, Raise, CaseInv, TypeInv, TypeOK
<1>3. CASE ResolveApproval(t)
  BY <1>3, ResolveExactly DEF ResolveApproval, At, ResolvedAs, CaseInv
<1>4. CASE ExecuteSafeAction(t) \/ ExecuteApprovedAction(t)
  BY <1>4, ExecuteKinds DEF ExecutedAs, CaseInv
<1>5. QED
  BY <1>1, <1>2, <1>3, <1>4, GraphSteps DEF CaseInv

\* A step of one thread, whether the graph or its caller takes it.
LEMMA ThreadStepKeepsGraph ==
    ASSUME GraphInv, NEW t \in Threads, ThreadStep(t),
           GraphStep(t) \/ run'[t] # "new"
    PROVE  GraphInv'
<1>1. Next
  BY DEF ThreadStep, Next
<1>2. CaseInv' /\ ScopeInv'
  BY <1>1, StepTypes, StepReviews, StepEffects, StepDecided, StepScope DEF GraphInv, CaseInv
<1>3. run'[t] # "new"
  BY UsedByStep DEF GraphInv
<1>4. \A u \in Threads \ {t} :
          run'[u] = run[u] /\ state'[u] = state[u] /\ resume'[u] = resume[u]
  BY OthersUntouched DEF GraphInv, Untouched
<1>5. UnusedAreEmpty'
  BY <1>3, <1>4 DEF GraphInv, UnusedAreEmpty
<1>6. QED
  BY <1>2, <1>5 DEF GraphInv

LEMMA RestKeepsGraph ==
    ASSUME GraphInv, UNCHANGED vars
    PROVE  GraphInv'
<1>1. CaseInv' /\ ScopeInv'
  BY StepTypes, StepReviews, StepEffects, StepDecided, StepScope DEF GraphInv, CaseInv
<1>2. UnusedAreEmpty'
  BY DEF vars, GraphInv, UnusedAreEmpty
<1>3. QED
  BY <1>1, <1>2 DEF GraphInv

LEMMA InitGraph == Init => GraphInv
  BY InitTypes, InitReviews, InitEffects, InitDecided, InitOwn
     DEF GraphInv, CaseInv, OwnInv, Init, UnusedAreEmpty

-----------------------------------------------------------------------------
\* The runner's own variables.

\* The case that runs is set up for its customer, and what the runner holds of
\* it is what the checks will compare.
CaseSetUp ==
    stage \in CaseStages =>
        /\ Position \in DOMAIN benchmark
        /\ Case.customer_id \in Customers
        /\ orders_before = [o \in OwnedBy(Case.customer_id) |-> catalog[o]]
        /\ pre_approval # None => pre_approval \in CaseStates

RunnerTypeInv ==
    /\ RunnerTypeOK
    /\ CaseSetUp
    /\ summary # None => Len(results) = Len(benchmark)

LEMMA CaseOfBenchmark ==
    ASSUME benchmark \in Benchmarks, NEW k \in DOMAIN benchmark
    PROVE  /\ benchmark \in Seq(EvalCases)
           /\ k \in Threads /\ k \in Requests
           /\ benchmark[k] \in EvalCases /\ WellDeclared(benchmark[k])
<1>1. /\ benchmark \in Seq(EvalCases) /\ DOMAIN benchmark \subseteq Threads \cap Requests
      /\ \A i \in DOMAIN benchmark : WellDeclared(benchmark[i])
  BY RunnerAssumption
<1>2. QED
  BY <1>1

\* A case's payload is complete: nothing of it is left to the thread.
LEMMA CaseStarts ==
    ASSUME benchmark \in Benchmarks, InvokeCase
    PROVE  /\ Position \in Threads /\ Position \in Requests /\ Case \in EvalCases
           /\ Submit(Position)
           /\ StartRequest(Position, Position, Case.customer_id, Case.customer_message, TRUE)
<1>1. Position \in Threads /\ Position \in Requests /\ Case \in EvalCases
  BY CaseOfBenchmark DEF InvokeCase, AtStage, Case
<1>2. Case.customer_id \in CustomerIds /\ Case.customer_message \in Messages
  BY <1>1 DEF EvalCases
<1>3. Invoke(Position, Position, Case.customer_id, Case.customer_message)
  BY DEF InvokeCase
<1>4. \A kept : /\ Merged(Position, kept) = Position
                /\ Merged(Case.customer_id, kept) = Case.customer_id
                /\ Merged(Case.customer_message, kept) = Case.customer_message
  BY <1>1, <1>2, GraphAssumption DEF Merged
<1>5. (Case.customer_id \in CustomerIds /\ Case.customer_message \in Messages) = TRUE
  BY <1>2
<1>6. StartRequest(Position, Position, Case.customer_id, Case.customer_message, TRUE)
  BY <1>3, <1>4, <1>5 DEF Invoke
<1>7. Submit(Position)
  BY <1>1, <1>2, <1>3 DEF Submit
<1>8. QED
  BY <1>1, <1>6, <1>7

\* The number of results never passes the number of cases.
LEMMA PositionInBenchmark ==
    ASSUME benchmark \in Seq(EvalCases), results \in Seq(Results)
    PROVE  /\ Position \in DOMAIN benchmark <=> Len(results) < Len(benchmark)
           /\ Len(results) \in Nat /\ Len(benchmark) \in Nat
  BY DEF Position

LEMMA ReportTypes ==
    ASSUME RunnerTypeInv, Position \in DOMAIN benchmark, NEW result \in Results, Report(result)
    PROVE  RunnerTypeInv'
<1>1. benchmark \in Benchmarks /\ benchmark \in Seq(EvalCases) /\ results \in Seq(Results)
  BY CaseOfBenchmark DEF RunnerTypeInv, RunnerTypeOK
<1>2. results' \in Seq(Results) /\ Len(results') = Len(results) + 1
  BY <1>1 DEF Report
<1>3. Len(results) < Len(benchmark) /\ summary = None
  BY <1>1, PositionInBenchmark DEF RunnerTypeInv
<1>4. Len(results') <= Len(benchmark)
  BY <1>1, <1>2, <1>3
<1>5. QED
  BY <1>1, <1>2, <1>3, <1>4 DEF Report, RunnerTypeInv, RunnerTypeOK, CaseSetUp, CaseStages

LEMMA FailedResultType ==
    /\ FailedResult \in Results
    /\ [FailedResult EXCEPT !.infra_error = TRUE] \in Results
    /\ \A intent \in Optional(Intents), urgency \in Urgencies, route \in Optional(CaseRoutes) :
           [FailedResult EXCEPT !.actual_intent = intent, !.actual_urgency = urgency,
                                !.actual_route = route] \in Results
<1>1. FailedResult \in Results
  BY DEF FailedResult, Results
<1>2. QED
  BY <1>1 DEF Results

LEMMA ComponentTypes ==
    ASSUME NEW case, NEW interrupted \in BOOLEAN, NEW result, NEW urgency, NEW reply
    PROVE  ComponentResults(case, interrupted, result, urgency, reply)
               \in [Metrics -> [applicable : BOOLEAN, passed : BOOLEAN]]
<1> DEFINE components == ComponentResults(case, interrupted, result, urgency, reply)
           Checks == [applicable : BOOLEAN, passed : BOOLEAN]
<1>1. \A a \in BOOLEAN, b \in BOOLEAN : Check(a, b) \in Checks
  BY DEF Check
<1>2. \A x, y : CheckEqual(x, y) \in Checks
  BY <1>1 DEF CheckEqual
<1>3. /\ CheckOrderResolution(case, result) \in Checks
      /\ CheckPolicy(case, result) \in Checks
      /\ CheckProposedAction(case, result) \in Checks
      /\ CheckMutation(case, result) \in Checks
      /\ CheckResponse(result, reply) \in Checks
  BY <1>1 DEF CheckOrderResolution, CheckPolicy, CheckProposedAction, CheckMutation,
              CheckResponse
<1>4. CheckApprovalBehavior(case, interrupted, result) \in Checks
  BY <1>1 DEF CheckApprovalBehavior
<1>5. components = [name \in Metrics |-> components[name]]
  BY DEF ComponentResults, Metrics
<1>6. \A name \in Metrics : components[name] \in Checks
  BY <1>2, <1>3, <1>4 DEF ComponentResults, Metrics
<1>7. QED
  BY <1>5, <1>6

\* The result of the case that runs, once the graph paused or returned.
Scorecard(urgency, reply) ==
    ComponentResults(Case, pre_approval # None \/ Paused, state[Position], urgency, reply)

Verdict(urgency, reply) ==
    LET result == state[Position]
        components == Scorecard(urgency, reply)
    IN  [passed                |-> \A name \in DOMAIN components : components[name].passed,
         component_results     |-> components,
         actual_intent         |-> result.intent,
         actual_urgency        |-> urgency,
         actual_route          |-> result.route,
         actual_final_status   |-> result.workflow_status,
         actual_final_response |-> reply,
         infra_error           |-> FALSE]

LEMMA ScoreExactly ==
    ASSUME Score
    PROVE  /\ stage \in {"invoked", "resumed"} /\ Position \in DOMAIN benchmark
           /\ run[Position] \in {"returned", "paused"}
           /\ UNCHANGED vars
           /\ \E urgency \in Urgencies, reply \in Optional(ReplyKinds) :
                 Report(Verdict(urgency, reply))
<1>1. PICK urgency \in Urgencies,
           reply \in IF state[Position].final_response = None THEN {None} ELSE ReplyKinds :
               Report(Verdict(urgency, reply))
  BY DEF Score, Verdict, Scorecard
<1>2. reply \in Optional(ReplyKinds)
  OBVIOUS
<1>3. QED
  BY <1>1, <1>2 DEF Score, AtStage

LEMMA VerdictType ==
    ASSUME TypeOK, Position \in Threads, NEW urgency \in Urgencies,
           NEW reply \in Optional(ReplyKinds)
    PROVE  /\ Scorecard(urgency, reply) \in [Metrics -> [applicable : BOOLEAN, passed : BOOLEAN]]
           /\ Verdict(urgency, reply) \in Results
<1> DEFINE result == state[Position]
           components == Scorecard(urgency, reply)
<1>1. components \in [Metrics -> [applicable : BOOLEAN, passed : BOOLEAN]]
  BY ComponentTypes DEF Scorecard
<1>2. /\ result.intent \in Optional(Intents) /\ result.route \in Optional(CaseRoutes)
      /\ result.workflow_status \in Optional(WorkflowStatuses)
  BY DEF TypeOK, CaseStates
<1>3. (\A name \in DOMAIN components : components[name].passed) \in BOOLEAN
  OBVIOUS
<1>4. QED
  BY <1>1, <1>2, <1>3 DEF Verdict, Results

LEMMA InitRunnerTypes == RunnerInit => RunnerTypeInv
<1> SUFFICES ASSUME RunnerInit
             PROVE  RunnerTypeInv
  OBVIOUS
<1>1. benchmark \in Seq(EvalCases)
  BY RunnerAssumption DEF RunnerInit
<1>2. results \in Seq(Results) /\ Len(results) = 0
  BY DEF RunnerInit
<1>3. QED
  BY <1>1, <1>2 DEF RunnerInit, RunnerTypeInv, RunnerTypeOK, CaseSetUp, CaseStages

LEMMA SetUpTypes ==
    ASSUME GraphInv, RunnerTypeInv, SetUp
    PROVE  NewStore /\ RunnerTypeInv'
<1>1. NewStore
  BY DEF SetUp, NewStore, history
<1>2. catalog \in [Orders -> OrderRecords] /\ store'.orders = catalog
  BY DEF SetUp, FreshStore, GraphInv, CaseInv, TypeInv, TypeOK
<1>3. Position \in DOMAIN benchmark /\ stage = "fresh"
  BY DEF SetUp, AtStage
<1>4. CASE Case.customer_id \in Customers
  <2>1. orders_before' \in OrderContexts
    BY <1>2, <1>4 DEF SetUp, OrderContexts, OwnedBy
  <2>2. orders_before' # None
    BY <2>1, AbsentAssumption
  <2>3. orders_before' = [o \in OwnedBy(Case.customer_id) |-> catalog'[o]]
    BY <1>2, <1>4 DEF SetUp
  <2>4. UNCHANGED <<benchmark, pre_approval, results, summary, Position, Case>>
    BY <1>4 DEF SetUp, Position, Case
  <2>5. /\ stage' = "ready" /\ summary = None
    BY <1>3, <1>4, CaseOfBenchmark, PositionInBenchmark DEF SetUp, RunnerTypeInv, RunnerTypeOK
  <2>6. pre_approval = None
    BY <1>3 DEF RunnerTypeInv, RunnerTypeOK
  <2>7. RunnerTypeOK'
    BY <2>2, <2>4, <2>5, <2>6 DEF RunnerTypeInv, RunnerTypeOK, CaseStages
  <2>8. CaseSetUp'
    BY <1>3, <1>4, <2>3, <2>4, <2>6 DEF CaseSetUp
  <2>9. QED
    BY <1>1, <2>4, <2>5, <2>7, <2>8 DEF RunnerTypeInv
<1>5. CASE Case.customer_id \notin Customers
  <2>1. Report([FailedResult EXCEPT !.infra_error = TRUE])
    BY <1>5 DEF SetUp
  <2>2. [FailedResult EXCEPT !.infra_error = TRUE] \in Results
    BY FailedResultType
  <2>3. QED
    BY <1>1, <1>3, <2>1, <2>2, ReportTypes
<1>6. QED
  BY <1>1, <1>4, <1>5

\* The case goes on: the runner calls the graph, or the graph runs.
LEMMA GoingOnTypes ==
    ASSUME RunnerTypeInv, stage \in CaseStages, stage' \in CaseStages,
           UNCHANGED <<benchmark, orders_before, results, summary, catalog>>,
           pre_approval' # None <=> stage' = "resumed",
           pre_approval' = pre_approval \/ pre_approval' \in CaseStates
    PROVE  RunnerTypeInv'
<1>1. Position' = Position /\ Case' = Case
  BY DEF Position, Case
<1>2. summary = None
  BY DEF RunnerTypeInv, RunnerTypeOK, CaseStages
<1>3. RunnerTypeOK'
  BY <1>2 DEF RunnerTypeInv, RunnerTypeOK, CaseStages
<1>4. CaseSetUp'
  BY <1>1 DEF RunnerTypeInv, CaseSetUp
<1>5. QED
  BY <1>2, <1>3, <1>4 DEF RunnerTypeInv

LEMMA GraphStepKeepsFixture ==
    ASSUME GraphInv, NEW t \in Threads, GraphStep(t)
    PROVE  UNCHANGED catalog
<1>1. CASE ExecuteSafeAction(t) \/ ExecuteApprovedAction(t)
  BY <1>1, ExecuteKinds DEF GraphInv, CaseInv
<1>2. CASE ~ExecuteSafeAction(t) /\ ~ExecuteApprovedAction(t)
  BY <1>2, OnlyExecutionsMutate DEF GraphInv, CaseInv, ThreadStep
<1>3. QED
  BY <1>1, <1>2

\* What the runner does to the graph: a new store, a step of the case's own
\* thread, or nothing.
LEMMA RunnerStepsGraph ==
    ASSUME GraphInv, RunnerTypeInv, RunnerNext
    PROVE  GraphInv' /\ RunnerTypeInv'
<1> DEFINE t == Position
<1>1. benchmark \in Benchmarks
  BY DEF RunnerTypeInv, RunnerTypeOK
<1>2. t \in DOMAIN benchmark => t \in Threads /\ t \in Requests /\ Case \in EvalCases
  BY <1>1, CaseOfBenchmark DEF Case
<1>3. CASE SetUp
  BY <1>3, SetUpTypes, NewStoreKeepsGraph
<1>4. CASE InvokeCase
  <2>1. /\ t \in Threads /\ t \in Requests /\ Case \in EvalCases /\ stage = "ready"
    BY <1>2, <1>4 DEF InvokeCase, AtStage
  <2>2. Submit(t) /\ StartRequest(t, t, Case.customer_id, Case.customer_message, TRUE)
    BY <1>1, <1>4, CaseStarts
  <2>3. ThreadStep(t) /\ run'[t] # "new"
    <3>1. run'[t] = "running"
      BY <2>1, <2>2 DEF StartRequest, GraphInv, CaseInv, TypeInv, TypeOK
    <3>2. QED
      BY <2>2, <3>1 DEF ThreadStep
  <2>4. UNCHANGED catalog
    BY <2>2 DEF StartRequest
  <2>5. RunnerTypeInv'
    BY <1>4, <2>1, <2>4, GoingOnTypes DEF InvokeCase, RunnerTypeInv, RunnerTypeOK, CaseStages
  <2>6. QED
    BY <2>1, <2>3, <2>5, ThreadStepKeepsGraph
<1>5. CASE GraphRuns
  <2>1. t \in Threads /\ GraphStep(t) /\ stage \in {"invoked", "resumed"}
        /\ UNCHANGED runnerVars
    BY <1>2, <1>5 DEF GraphRuns, AtStage
  <2>2. GraphInv'
    BY <2>1, ThreadStepKeepsGraph DEF ThreadStep
  <2>3. UNCHANGED catalog
    BY <2>1, GraphStepKeepsFixture
  <2>4. RunnerTypeInv'
    BY <2>1, <2>3, GoingOnTypes DEF runnerVars, RunnerTypeInv, RunnerTypeOK, CaseStages
  <2>5. QED
    BY <2>2, <2>4
<1>6. CASE InvokeRaised
  BY <1>6, ReportTypes, FailedResultType, RestKeepsGraph DEF InvokeRaised, AtStage
<1>7. CASE ResumeCase
  <2>1. t \in Threads /\ Case \in EvalCases /\ stage = "invoked"
    BY <1>2, <1>7 DEF ResumeCase, AtStage
  <2>2. Resume(t, Case.human_decision) /\ Case.human_decision # None
    BY <1>7 DEF ResumeCase
  <2>3. Case.human_decision \in Decisions
    BY <2>1, <2>2 DEF EvalCases
  <2>4. ThreadStep(t) /\ run'[t] # "new"
    <3>1. run'[t] = "running"
      BY <2>1, <2>2 DEF Resume, GraphInv, CaseInv, TypeInv, TypeOK
    <3>2. QED
      BY <2>2, <2>3, <3>1 DEF ThreadStep
  <2>5. UNCHANGED catalog
    BY <2>2 DEF Resume
  <2>6. pre_approval' \in CaseStates /\ pre_approval' # None
    BY <1>7, <2>1, RunnerAssumption DEF ResumeCase, GraphInv, CaseInv, TypeInv, TypeOK
  <2>7. RunnerTypeInv'
    BY <1>7, <2>1, <2>5, <2>6, GoingOnTypes DEF ResumeCase, CaseStages
  <2>8. QED
    BY <2>1, <2>4, <2>7, ThreadStepKeepsGraph
<1>8. CASE ResumeRaised
  <2>1. t \in DOMAIN benchmark /\ stage = "resumed" /\ UNCHANGED vars
    BY <1>8 DEF ResumeRaised, AtStage
  <2>2. pre_approval \in CaseStates
    BY <2>1 DEF RunnerTypeInv, RunnerTypeOK, CaseSetUp
  <2>3. pre_approval.intent \in Optional(Intents) /\ pre_approval.route \in Optional(CaseRoutes)
    BY <2>2 DEF CaseStates
  <2>4. PICK urgency \in Urgencies :
            Report([FailedResult EXCEPT !.actual_intent = pre_approval.intent,
                                        !.actual_urgency = urgency,
                                        !.actual_route = pre_approval.route])
    BY <1>8 DEF ResumeRaised
  <2>5. RunnerTypeInv'
    BY <2>1, <2>3, <2>4, ReportTypes, FailedResultType
  <2>6. QED
    BY <2>1, <2>5, RestKeepsGraph
<1>9. CASE Score
  <2>1. PICK urgency \in Urgencies, reply \in Optional(ReplyKinds) :
            Report(Verdict(urgency, reply))
    BY <1>9, ScoreExactly
  <2>2. t \in DOMAIN benchmark /\ UNCHANGED vars
    BY <1>9, ScoreExactly
  <2>3. Verdict(urgency, reply) \in Results
    BY <1>2, <2>2, VerdictType DEF GraphInv, CaseInv, TypeInv
  <2>4. QED
    BY <2>1, <2>2, <2>3, ReportTypes, RestKeepsGraph
<1>10. CASE Summarize
  <2>1. UNCHANGED vars
    BY <1>10 DEF Summarize
  <2>2. RunnerTypeInv'
    BY <1>10 DEF Summarize, RunnerTypeInv, RunnerTypeOK, CaseSetUp, CaseStages
  <2>3. QED
    BY <2>1, <2>2, RestKeepsGraph
<1>11. CASE SetUpRaised
  <2>1. UNCHANGED vars /\ stage = "fresh" /\ stage' = "aborted"
    BY <1>11 DEF SetUpRaised, AtStage
  <2>2. RunnerTypeInv'
    <3>1. summary = None
      BY <1>1, <1>11, RunnerAssumption, PositionInBenchmark
         DEF SetUpRaised, AtStage, RunnerTypeInv, RunnerTypeOK
    <3>2. QED
      BY <1>11, <2>1, <3>1
         DEF SetUpRaised, RunnerTypeInv, RunnerTypeOK, CaseSetUp, CaseStages
  <2>3. QED
    BY <2>1, <2>2, RestKeepsGraph
<1>12. QED
  BY <1>3, <1>4, <1>5, <1>6, <1>7, <1>8, <1>9, <1>10, <1>11 DEF RunnerNext

LEMMA RunnerInvariance == RunnerSpec => [](GraphInv /\ RunnerTypeInv)
<1>1. RunnerInit => GraphInv /\ RunnerTypeInv
  BY InitGraph, InitRunnerTypes DEF RunnerInit
<1>2. GraphInv /\ RunnerTypeInv /\ [RunnerNext]_allVars => (GraphInv /\ RunnerTypeInv)'
  <2> SUFFICES ASSUME GraphInv, RunnerTypeInv, [RunnerNext]_allVars
               PROVE  (GraphInv /\ RunnerTypeInv)'
    OBVIOUS
  <2>1. CASE UNCHANGED allVars
    <3>1. UNCHANGED vars /\ UNCHANGED catalog /\ UNCHANGED runnerVars
      BY <2>1 DEF allVars, vars
    <3>2. RunnerTypeInv'
      BY <3>1 DEF runnerVars, RunnerTypeInv, RunnerTypeOK, CaseSetUp, Position, Case
    <3>3. QED
      BY <3>1, <3>2, RestKeepsGraph
  <2>2. QED
    BY <2>1, RunnerStepsGraph
<1>3. QED
  BY <1>1, <1>2, PTL DEF RunnerSpec

\* The runner's variables keep to their types, and its locals to their case:
\* nothing of one case is left when the next one is set up.
THEOREM RunnerTypesKept == RunnerSpec => []RunnerTypeOK
<1>1. RunnerTypeInv => RunnerTypeOK
  BY DEF RunnerTypeInv
<1>2. QED
  BY <1>1, RunnerInvariance, PTL

-----------------------------------------------------------------------------
\* What a passed case shows.

\* The one case that has replied has returned.
RepliedHasReturned ==
    \A t \in Threads : state[t].final_response # None => run[t] = "returned"

\* A passed case ran to its end, and each metric it declares an expectation
\* for was applied to it and met.
PassedCompletely(k) ==
    results[k].passed =>
        /\ run[k] = "returned"
        /\ results[k].component_results # None
        /\ \A name \in Metrics :
              /\ results[k].component_results[name].applicable <=> k \in Declared(name)
              /\ results[k].component_results[name].passed

VerdictInv ==
    /\ RepliedHasReturned
    /\ \A k \in DOMAIN results : PassedCompletely(k)

\* A thread that replied takes no further step of the graph.
LEMMA GraphStepReplies ==
    ASSUME GraphInv, NEW t \in Threads, GraphStep(t), state[t].final_response = None
    PROVE  state'[t].final_response # None => run'[t] = "returned"
<1>1. CASE PlainStep(t) /\ QuietStep(t)
  BY <1>1 DEF QuietStep, QuietUpdate, Recorded
<1>2. CASE FinalResponse(t)
  BY <1>2, ReplyExactly DEF RepliedAs, GraphInv, CaseInv
<1>3. CASE RequestApproval(t)
  BY <1>3 DEF RequestApproval, Raise
<1>4. CASE ResolveApproval(t)
  BY <1>4, ResolveExactly DEF ResolvedAs, GraphInv, CaseInv
<1>5. CASE ExecuteSafeAction(t) \/ ExecuteApprovedAction(t)
  BY <1>5, ExecuteKinds DEF ExecutedAs, Refused, GraphInv, CaseInv
<1>6. QED
  BY <1>1, <1>2, <1>3, <1>4, <1>5, GraphStepKinds DEF GraphInv, CaseInv

LEMMA ChecksApply ==
    ASSUME NEW case, NEW interrupted, NEW result, NEW reply
    PROVE  /\ \A expected, actual : CheckEqual(expected, actual).applicable <=> expected # None
           /\ CheckOrderResolution(case, result).applicable <=>
                  case.expected_order_resolution_status # None
           /\ CheckPolicy(case, result).applicable <=> case.expected_policy_outcome # None
           /\ CheckProposedAction(case, result).applicable <=>
                  case.expected_proposed_action # None
           /\ CheckApprovalBehavior(case, interrupted, result).applicable <=>
                  case.human_decision # None
           /\ CheckMutation(case, result).applicable
           /\ CheckResponse(result, reply).applicable
<1>1. \A a, b : Check(a, b).applicable = a
  BY DEF Check
<1>2. \A expected, actual : CheckEqual(expected, actual).applicable <=> expected # None
  BY <1>1 DEF CheckEqual
<1>3. /\ CheckOrderResolution(case, result).applicable <=>
             case.expected_order_resolution_status # None
      /\ CheckPolicy(case, result).applicable <=> case.expected_policy_outcome # None
      /\ CheckProposedAction(case, result).applicable <=> case.expected_proposed_action # None
      /\ CheckApprovalBehavior(case, interrupted, result).applicable <=>
             case.human_decision # None
  BY <1>1 DEF CheckOrderResolution, CheckPolicy, CheckProposedAction, CheckApprovalBehavior
<1>4. CheckMutation(case, result).applicable = TRUE /\ CheckResponse(result, reply).applicable = TRUE
  BY <1>1 DEF CheckMutation, CheckResponse
<1>5. QED
  BY <1>2, <1>3, <1>4

LEMMA ScorecardApplies ==
    ASSUME Position \in DOMAIN benchmark, NEW urgency, NEW reply, NEW name \in Metrics
    PROVE  Scorecard(urgency, reply)[name].applicable <=> Position \in Declared(name)
<1> DEFINE result == state[Position]
           card == Scorecard(urgency, reply)
<1>1. /\ card["intent"] = CheckEqual(Case.expected_intent, result.intent)
      /\ card["urgency"] = CheckEqual(Case.expected_urgency, urgency)
      /\ card["route"] = CheckEqual(Case.expected_route, result.route)
      /\ card["final_state"] =
             CheckEqual(Case.expected_final_workflow_status, result.workflow_status)
      /\ card["order_resolution"] = CheckOrderResolution(Case, result)
      /\ card["policy"] = CheckPolicy(Case, result)
      /\ card["proposed_action"] = CheckProposedAction(Case, result)
      /\ card["approval_behavior"] =
             CheckApprovalBehavior(Case, pre_approval # None \/ Paused, result)
      /\ card["mutation"] = CheckMutation(Case, result)
      /\ card["response"] = CheckResponse(result, reply)
  BY DEF Scorecard, ComponentResults
<1>2. Position \in Declared(name) <=>
          (name \in DOMAIN DeclaredBy => Case[DeclaredBy[name]] # None)
  BY DEF Declared, Case
<1>3. /\ DeclaredBy["intent"] = "expected_intent"
      /\ DeclaredBy["urgency"] = "expected_urgency"
      /\ DeclaredBy["order_resolution"] = "expected_order_resolution_status"
      /\ DeclaredBy["policy"] = "expected_policy_outcome"
      /\ DeclaredBy["route"] = "expected_route"
      /\ DeclaredBy["proposed_action"] = "expected_proposed_action"
      /\ DeclaredBy["approval_behavior"] = "human_decision"
      /\ DeclaredBy["final_state"] = "expected_final_workflow_status"
      /\ DOMAIN DeclaredBy = Metrics \ {"mutation", "response"}
  BY DEF DeclaredBy, Metrics
<1> SUFFICES card[name].applicable <=> Position \in Declared(name)
  OBVIOUS
<1> HIDE DEF card
<1>4. QED
  BY <1>1, <1>2, <1>3, ChecksApply DEF Metrics

\* What a step of the runner does to the graph's variables.
LEMMA RunnerStepKinds ==
    ASSUME RunnerNext
    PROVE  \/ SetUp
           \/ InvokeCase
           \/ GraphRuns
           \/ ResumeCase
           \/ UNCHANGED vars
  BY DEF RunnerNext, SetUpRaised, InvokeRaised, ResumeRaised, Score, Summarize

\* Only the thread of the case that runs takes steps.
LEMMA OthersRest ==
    ASSUME GraphInv, RunnerTypeInv, RunnerNext, NEW u \in Threads, u # Position
    PROVE  state'[u] = state[u] /\ run'[u] = run[u]
<1>1. Position \in DOMAIN benchmark => Position \in Threads
  BY CaseOfBenchmark DEF RunnerTypeInv, RunnerTypeOK
<1>2. CASE SetUp
  BY <1>2 DEF SetUp
<1>3. CASE InvokeCase
  BY <1>1, <1>3, CaseStarts DEF StartRequest, GraphInv, CaseInv, TypeInv, TypeOK,
     RunnerTypeInv, RunnerTypeOK
<1>4. CASE GraphRuns
  BY <1>1, <1>4, OthersUntouched DEF GraphRuns, AtStage, ThreadStep, Untouched, GraphInv
<1>5. CASE ResumeCase
  BY <1>1, <1>5 DEF ResumeCase, AtStage, Resume, GraphInv, CaseInv, TypeInv, TypeOK
<1>6. CASE UNCHANGED vars
  BY <1>6 DEF vars
<1>7. QED
  BY <1>2, <1>3, <1>4, <1>5, <1>6, RunnerStepKinds

LEMMA RepliedHaveReturned ==
    ASSUME GraphInv, RunnerTypeInv, RepliedHasReturned, RunnerNext
    PROVE  RepliedHasReturned'
<1> DEFINE t == Position
<1>1. ASSUME NEW u \in Threads, u # t
      PROVE  state'[u].final_response # None => run'[u] = "returned"
  BY <1>1, OthersRest DEF RepliedHasReturned
<1>2. ASSUME t \in Threads
      PROVE  state'[t].final_response # None => run'[t] = "returned"
  <2>1. CASE SetUp \/ UNCHANGED vars
    BY <1>2, <2>1 DEF SetUp, vars, RepliedHasReturned
  <2>2. CASE InvokeCase
    <3>1. StartRequest(t, t, Case.customer_id, Case.customer_message, TRUE)
      BY <2>2, CaseStarts DEF RunnerTypeInv, RunnerTypeOK
    <3>2. state[t] = EmptyState
      BY <1>2, <3>1, RunnerAssumption DEF StartRequest, GraphInv, UnusedAreEmpty
    <3>3. state'[t] = [state[t] EXCEPT !.request_id = t, !.customer_id = Case.customer_id,
                                       !.customer_message = Case.customer_message]
      BY <1>2, <3>1 DEF StartRequest, GraphInv, CaseInv, TypeInv, TypeOK
    <3>4. QED
      BY <3>2, <3>3 DEF EmptyState
  <2>3. CASE GraphRuns
    <3>1. GraphStep(t) /\ state[t].final_response = None
      BY <1>2, <2>3, UsedByStep DEF GraphRuns, RepliedHasReturned, GraphInv
    <3>2. QED
      BY <1>2, <3>1, GraphStepReplies
  <2>4. CASE ResumeCase
    BY <1>2, <2>4 DEF ResumeCase, Resume, RepliedHasReturned
  <2>5. QED
    BY <2>1, <2>2, <2>3, <2>4, RunnerStepKinds
<1>3. QED
  BY <1>1, <1>2 DEF RepliedHasReturned

\* A check of the reply passes only on a case that replied.
LEMMA PassedHasReplied ==
    ASSUME NEW urgency, NEW reply, Verdict(urgency, reply).passed
    PROVE  /\ state[Position].final_response # None
           /\ \A name \in Metrics : Scorecard(urgency, reply)[name].passed
<1>1. DOMAIN Scorecard(urgency, reply) = Metrics
  BY DEF Scorecard, ComponentResults, Metrics
<1>2. \A name \in Metrics : Scorecard(urgency, reply)[name].passed
  BY <1>1 DEF Verdict
<1>3. Scorecard(urgency, reply)["response"] = CheckResponse(state[Position], reply)
  BY DEF Scorecard, ComponentResults
<1>4. CheckResponse(state[Position], reply).passed =
          (state[Position].final_response # None /\ reply = "complete")
  BY DEF CheckResponse, Check
<1>5. CheckResponse(state[Position], reply).passed
  BY <1>2, <1>3 DEF Metrics
<1>6. QED
  BY <1>2, <1>4, <1>5

LEMMA BenchmarkStays ==
    ASSUME RunnerNext
    PROVE  UNCHANGED benchmark
  BY DEF RunnerNext, SetUp, SetUpRaised, InvokeCase, GraphRuns, runnerVars, InvokeRaised,
         ResumeCase, ResumeRaised, Score, Summarize, Report

LEMMA OldVerdictStays ==
    ASSUME GraphInv, RunnerTypeInv, VerdictInv, RunnerNext,
           NEW k \in DOMAIN results, results'[k] = results[k]
    PROVE  PassedCompletely(k)'
<1>1. benchmark \in Seq(EvalCases) /\ results \in Seq(Results) /\ Len(results) <= Len(benchmark)
  BY CaseOfBenchmark, RunnerAssumption DEF RunnerTypeInv, RunnerTypeOK
<1>2. k \in DOMAIN benchmark /\ k # Position
  BY <1>1 DEF Position
<1>3. k \in Threads
  BY <1>2, CaseOfBenchmark DEF RunnerTypeInv, RunnerTypeOK
<1>4. run'[k] = run[k]
  BY <1>2, <1>3, OthersRest
<1>5. \A name : Declared(name)' = Declared(name)
  BY BenchmarkStays DEF Declared
<1>6. QED
  BY <1>4, <1>5 DEF VerdictInv, PassedCompletely

\* A reported result is the last one; the earlier ones stay.
LEMMA ReportedVerdict ==
    ASSUME GraphInv, RunnerTypeInv, VerdictInv, RunnerNext, NEW result, Report(result),
           NEW last, last = Position, PassedCompletely(last)'
    PROVE  \A k \in DOMAIN results' : PassedCompletely(k)'
<1>1. results \in Seq(Results) /\ Len(results) \in Nat /\ DOMAIN results = 1 .. Len(results)
  BY DEF RunnerTypeInv, RunnerTypeOK
<1>2. results' = Append(results, result)
  BY DEF Report
<1>3. DOMAIN results' = 1 .. Len(results) + 1
  BY <1>1, <1>2
<1>4. \A k \in 1 .. Len(results) : results'[k] = results[k]
  BY <1>1, <1>2
<1>5. last = Len(results) + 1
  BY DEF Position
<1> SUFFICES ASSUME NEW k \in DOMAIN results'
             PROVE  PassedCompletely(k)'
  OBVIOUS
<1>6. k = last \/ k \in 1 .. Len(results)
  BY <1>1, <1>3, <1>5
<1>7. QED
  BY <1>1, <1>4, <1>6, OldVerdictStays

LEMMA FailedVerdict ==
    ASSUME results \in Seq(Results), NEW result, ~result.passed, Report(result),
           NEW last, last = Position
    PROVE  PassedCompletely(last)'
<1>1. results'[last] = result
  BY DEF Report, Position
<1>2. QED
  BY <1>1 DEF PassedCompletely

LEMMA ScoredVerdict ==
    ASSUME GraphInv, RunnerTypeInv, RepliedHasReturned, Score,
           NEW urgency \in Urgencies, NEW reply \in Optional(ReplyKinds),
           Report(Verdict(urgency, reply)), NEW last, last = Position
    PROVE  PassedCompletely(last)'
<1>1. results \in Seq(Results) /\ Position \in DOMAIN benchmark /\ Position \in Threads
  BY ScoreExactly, CaseOfBenchmark DEF RunnerTypeInv, RunnerTypeOK
<1>2. results'[last] = Verdict(urgency, reply)
  BY <1>1 DEF Report, Position
<1>3. UNCHANGED run
  BY ScoreExactly DEF vars
<1>4. \A name : Declared(name)' = Declared(name)
  BY DEF Report, Declared
<1>5. Verdict(urgency, reply).component_results = Scorecard(urgency, reply)
  BY DEF Verdict
<1>6. Scorecard(urgency, reply) # None
  <2>1. Scorecard(urgency, reply) \in [Metrics -> [applicable : BOOLEAN, passed : BOOLEAN]]
    BY <1>1, VerdictType DEF GraphInv, CaseInv, TypeInv
  <2>2. QED
    BY <2>1, RunnerAssumption
<1>7. ASSUME Verdict(urgency, reply).passed
      PROVE  /\ run[Position] = "returned"
             /\ \A name \in Metrics : Scorecard(urgency, reply)[name].passed
  BY <1>1, <1>7, PassedHasReplied DEF RepliedHasReturned
<1>8. \A name \in Metrics :
          Scorecard(urgency, reply)[name].applicable <=> Position \in Declared(name)
  BY <1>1, ScorecardApplies
<1>9. QED
  BY <1>2, <1>3, <1>4, <1>5, <1>6, <1>7, <1>8 DEF PassedCompletely

LEMMA VerdictsStay ==
    ASSUME GraphInv, RunnerTypeInv, VerdictInv, RunnerNext
    PROVE  VerdictInv'
<1>1. RepliedHasReturned'
  BY RepliedHaveReturned DEF VerdictInv
<1>2. results \in Seq(Results)
  BY DEF RunnerTypeInv, RunnerTypeOK
<1> SUFFICES \A k \in DOMAIN results' : PassedCompletely(k)'
  BY <1>1 DEF VerdictInv
<1> DEFINE last == Position
<1>3. CASE results' = results
  BY <1>3, OldVerdictStays
<1>4. ASSUME NEW result, Report(result), ~result.passed
      PROVE  \A k \in DOMAIN results' : PassedCompletely(k)'
  <2>1. PICK k : k = Position
    OBVIOUS
  <2>2. PassedCompletely(k)'
    BY <1>2, <1>4, <2>1, FailedVerdict
  <2>3. QED
    BY <1>4, <2>1, <2>2, ReportedVerdict
<1>5. CASE Score
  <2>1. PICK urgency \in Urgencies, reply \in Optional(ReplyKinds) :
            Report(Verdict(urgency, reply))
    BY <1>5, ScoreExactly
  <2>2. PICK k : k = Position
    OBVIOUS
  <2>3. PassedCompletely(k)'
    BY <1>5, <2>1, <2>2, ScoredVerdict DEF VerdictInv
  <2>4. QED
    BY <2>1, <2>2, <2>3, ReportedVerdict
<1>6. CASE SetUp \/ InvokeRaised \/ ResumeRaised
  <2>1. /\ ~FailedResult.passed
        /\ ~[FailedResult EXCEPT !.infra_error = TRUE].passed
        /\ \A intent, urgency, route :
              ~[FailedResult EXCEPT !.actual_intent = intent, !.actual_urgency = urgency,
                                    !.actual_route = route].passed
    BY DEF FailedResult
  <2>2. CASE SetUp
    BY <1>3, <1>4, <2>1, <2>2 DEF SetUp
  <2>3. CASE InvokeRaised
    BY <1>4, <2>1, <2>3 DEF InvokeRaised
  <2>4. CASE ResumeRaised
    BY <1>4, <2>1, <2>4 DEF ResumeRaised
  <2>5. QED
    BY <1>6, <2>2, <2>3, <2>4
<1>7. CASE SetUpRaised \/ InvokeCase \/ GraphRuns \/ ResumeCase \/ Summarize
  BY <1>3, <1>7 DEF SetUpRaised, InvokeCase, GraphRuns, runnerVars, ResumeCase, Summarize
<1>8. QED
  BY <1>5, <1>6, <1>7 DEF RunnerNext

\* After its summary the evaluation is over.
LEMMA SummaryIsLast ==
    ASSUME RunnerTypeInv, RunnerNext
    PROVE  summary = None
<1>1. Position \in DOMAIN benchmark => Len(results) < Len(benchmark)
  BY CaseOfBenchmark, PositionInBenchmark, RunnerAssumption DEF RunnerTypeInv, RunnerTypeOK
<1>2. Position \in DOMAIN benchmark \/ summary = None
  BY ScoreExactly DEF RunnerNext, SetUp, SetUpRaised, InvokeCase, GraphRuns, InvokeRaised, ResumeCase,
     ResumeRaised, Summarize, AtStage
<1>3. QED
  BY <1>1, <1>2 DEF RunnerTypeInv

\* As many passed as ran: every case passed.
LEMMA AllPassed ==
    ASSUME results \in Seq(Results), OverallPassCount = Len(results)
    PROVE  \A k \in DOMAIN results : results[k].passed
<1> DEFINE ran == 1 .. Len(results)
           passed == {k \in DOMAIN results : results[k].passed}
<1>1. Len(results) \in Nat /\ DOMAIN results = ran
  OBVIOUS
<1>2. IsFiniteSet(ran) /\ Cardinality(ran) = Len(results)
  <2>1. PICK n \in Nat : n = Len(results)
    BY <1>1
  <2>2. 1 \in Int /\ n \in Int
    OBVIOUS
  <2>3. IsFiniteSet(1 .. n) /\ Cardinality(1 .. n) = IF 1 > n THEN 0 ELSE n - 1 + 1
    BY <2>2, FS_Interval, Zenon
  <2>4. QED
    BY <2>1, <2>3
<1>3. passed \subseteq ran /\ Cardinality(passed) = Cardinality(ran)
  BY <1>1, <1>2 DEF OverallPassCount
<1>4. passed = ran
  BY <1>2, <1>3, FS_Subset
<1>5. QED
  BY <1>1, <1>4

LEMMA SummaryIsTrue ==
    ASSUME RunnerTypeInv, VerdictInv, Summarize
    PROVE  GreenMeansEverythingChecked'
<1>1. results \in Seq(Results) /\ benchmark \in Seq(EvalCases) /\ Len(results) = Len(benchmark)
  BY RunnerAssumption DEF Summarize, RunnerTypeInv, RunnerTypeOK
<1>2. DOMAIN results = DOMAIN benchmark
  BY <1>1
<1>3. UNCHANGED <<run, results, benchmark>>
  BY DEF Summarize, vars
<1>4. CASE OverallPassCount # Len(results)
  BY <1>4 DEF Summarize, GreenMeansEverythingChecked
<1>5. CASE OverallPassCount = Len(results)
  <2>1. \A k \in DOMAIN results : results[k].passed
    BY <1>1, <1>5, AllPassed
  <2>2. \A k \in DOMAIN benchmark : run[k] = "returned"
    BY <1>2, <2>1 DEF VerdictInv, PassedCompletely
  <2>3. ASSUME NEW name \in Metrics
        PROVE  MetricAccuracy(name) =
                   [applicable_count |-> Cardinality(Declared(name)),
                    passed_count     |-> Cardinality(Declared(name))]
    <3>1. \A k \in DOMAIN results :
              /\ results[k].component_results # None
              /\ results[k].component_results[name].applicable <=> k \in Declared(name)
              /\ results[k].component_results[name].passed
      BY <2>1 DEF VerdictInv, PassedCompletely
    <3>2. Declared(name) \subseteq DOMAIN results
      BY <1>2 DEF Declared
    <3>3. Counted(name) = Declared(name)
      BY <3>1, <3>2 DEF Counted
    <3>4. {k \in Counted(name) : results[k].component_results[name].passed} = Declared(name)
      BY <3>1, <3>2, <3>3
    <3>5. QED
      BY <3>3, <3>4 DEF MetricAccuracy
  <2>4. \A name \in Metrics : summary'.metric_accuracies[name] = MetricAccuracy(name)
    BY DEF Summarize
  <2>5. \A name : Declared(name)' = Declared(name)
    BY <1>3 DEF Declared
  <2>6. QED
    BY <1>3, <2>2, <2>3, <2>4, <2>5 DEF GreenMeansEverythingChecked
<1>6. QED
  BY <1>4, <1>5

\* A green exit code means every case ran to its end and every expectation of
\* the benchmark was counted and met, whatever the models answered.
THEOREM GreenIsComplete == RunnerSpec => []GreenMeansEverythingChecked
<1>1. RunnerInit => VerdictInv /\ GreenMeansEverythingChecked
  BY DEF RunnerInit, Init, EmptyState, VerdictInv, RepliedHasReturned,
         GreenMeansEverythingChecked
<1>2. GraphInv /\ RunnerTypeInv /\ VerdictInv /\ GreenMeansEverythingChecked
          /\ [RunnerNext]_allVars
      => VerdictInv' /\ GreenMeansEverythingChecked'
  <2> SUFFICES ASSUME GraphInv, RunnerTypeInv, VerdictInv, GreenMeansEverythingChecked,
                      [RunnerNext]_allVars
               PROVE  VerdictInv' /\ GreenMeansEverythingChecked'
    OBVIOUS
  <2>1. CASE UNCHANGED allVars
    BY <2>1 DEF allVars, vars, runnerVars, VerdictInv, RepliedHasReturned, PassedCompletely,
                Declared, GreenMeansEverythingChecked
  <2>2. CASE Summarize
    BY <2>2, VerdictsStay, SummaryIsTrue DEF RunnerNext
  <2>3. CASE RunnerNext /\ ~Summarize
    <3>1. summary' = None
      BY <2>3, SummaryIsLast DEF RunnerNext, SetUp, SetUpRaised, InvokeCase, GraphRuns, runnerVars,
         InvokeRaised, ResumeCase, ResumeRaised, Score, Report
    <3>2. QED
      BY <2>3, <3>1, VerdictsStay DEF GreenMeansEverythingChecked
  <2>4. QED
    BY <2>1, <2>2, <2>3
<1>3. QED
  BY <1>1, <1>2, RunnerInvariance, PTL DEF RunnerSpec

-----------------------------------------------------------------------------
\* What a passed case left in the store.

\* The store of the case that runs, while it has done e and nothing else: the
\* operation it proposed, on an order of its customer, approved if sensitive.
DoneOnly(s, e) ==
    /\ s.proposed_action # None /\ s.proposed_action.action_type = e.action_type
    /\ e.action_type \in ApprovalRequiredActionTypes => s.human_decision = "approved"
    /\ \A o \in Orders : OwnerOf[o] # s.customer_id => store.orders[o] = catalog[o]
    /\ \A o \in Orders :
          /\ o \in store.billing <=>
                 e.action_type = "investigate_billing" /\ e.order_id = o
          /\ o \in store.product <=>
                 e.action_type = "investigate_product_issue" /\ e.order_id = o

\* The case on thread t, in state s at node n, is the one set up: the store is
\* new until it acts, its order context is the store's, and it is only decided
\* once the runner resumed it.
Follows(s, n) ==
    /\ s.customer_id = Case.customer_id
    /\ s.order_context # None =>
           s.order_context = [o \in OwnedBy(s.customer_id) |-> store.orders[o]]
    /\ s.action_result = None => store = FreshStore(catalog)
    /\ s.action_result # None =>
           n \in {"final_response", "END"} /\ DoneOnly(s, s.action_result)

CaseFollows ==
    /\ stage = "ready" => store = FreshStore(catalog)
    /\ stage \in {"invoked", "resumed"} => Follows(state[Position], next[Position])
    /\ stage = "invoked" =>
           state[Position].human_decision = None /\ resume[Position] = None

\* What is executed is ready, and approved if it is sensitive.
LEMMA ExecutionIsCleared ==
    ASSUME TypeInv, NEW t \in Threads, ExecuteSafeAction(t) \/ ExecuteApprovedAction(t),
           ExecutedAs(t)
    PROVE  /\ state[t].action_input.ready
           /\ state[t].proposed_action.action_type \in ApprovalRequiredActionTypes =>
                  state[t].human_decision = "approved"
<1>1. ~Refused(t)
  BY DEF Refused, ExecutedAs, Errors, ExpectedErrors, CorruptionErrors
<1>2. CASE ExecuteSafeAction(t)
  BY <1>1, <1>2, ExecuteEffect DEF ExecuteSafeAction, Executed
<1>3. CASE ExecuteApprovedAction(t)
  <2>1. Executed(t, TRUE)
    BY <1>1, <1>3, ExecuteEffect DEF ExecuteApprovedAction
  <2>2. run'[t] # "ActionExecutionError"
    BY DEF ExecutedAs
  <2>3. state[t].human_decision = "approved"
    BY <1>3, <2>2, ExecuteExactly DEF ExecuteApprovedAction
  <2>4. QED
    BY <2>1, <2>3 DEF Executed
<1>4. QED
  BY <1>2, <1>3

\* The one store call on a new store.
LEMMA FirstEffect ==
    ASSUME NEW records \in [Orders -> OrderRecords], NEW proposed \in ProposedActions,
           NEW input, input.order_id \in Orders, NEW o \in Orders
    PROVE  LET after == ExecuteAction(proposed, input, FreshStore(records))
               hit(action) == proposed.action_type = action /\ input.order_id = o
           IN  /\ after \in Stores => (o # input.order_id => after.orders[o] = records[o])
               /\ o \in after.billing <=> hit("investigate_billing")
               /\ o \in after.product <=> hit("investigate_product_issue")
<1> DEFINE fresh == FreshStore(records)
           after == ExecuteAction(proposed, input, fresh)
<1>1. fresh \in Stores /\ fresh.orders = records /\ fresh.billing = {} /\ fresh.product = {}
  BY DEF FreshStore, Stores
<1>2. /\ o # input.order_id =>
             /\ after.orders[o].status = records[o].status
             /\ after.orders[o].payment_status = records[o].payment_status
             /\ after.orders[o].shipping_address = records[o].shipping_address
      /\ o \in after.billing <=>
             proposed.action_type = "investigate_billing" /\ input.order_id = o
      /\ o \in after.product <=>
             proposed.action_type = "investigate_product_issue" /\ input.order_id = o
  BY <1>1, ExecutionFields
<1> HIDE DEF after
<1>3. ASSUME after \in Stores, o # input.order_id PROVE after.orders[o] = records[o]
  <2>1. after.orders[o] \in OrderRecords /\ records[o] \in OrderRecords
    BY <1>3 DEF Stores
  <2>2. QED
    BY <1>2, <1>3, <2>1 DEF OrderRecords
<1>4. QED
  BY <1>2, <1>3 DEF after

LEMMA ExecutionFollows ==
    ASSUME GraphInv, TypeInv', NEW t \in Threads,
           ExecuteSafeAction(t) \/ ExecuteApprovedAction(t), ExecutedAs(t),
           Follows(state[t], next[t]), UNCHANGED Case
    PROVE  Follows(state[t], next[t])'
<1> DEFINE s == state[t]
           z == state'[t]
           proposed == s.proposed_action
           x == s.action_input.order_id
<1>1. /\ next[t] \in {"execute_safe_action", "execute_approved_action"}
      /\ proposed \in ProposedActions /\ x \in Orders /\ UNCHANGED catalog
  BY ExecuteKinds DEF GraphInv, CaseInv, ExecutedAs, Refused, Errors, ExpectedErrors,
     CorruptionErrors
<1>2. OwnerOf[x] = s.customer_id
  <2>1. x = proposed.order_id
    BY <1>1, ExecutionIsCleared DEF GraphInv, CaseInv, ReviewInv, ThreadReviewed,
       InputMatches, NeedInput
  <2>2. QED
    BY <1>1, <2>1 DEF GraphInv, ScopeInv, Scoped, InScope, NeedProposal, NeedInput
<1>3. store = FreshStore(catalog) /\ catalog \in [Orders -> OrderRecords]
  BY <1>1 DEF Follows, GraphInv, CaseInv, TypeInv, TypeOK
<1>4. store' = ExecuteAction(proposed, s.action_input, store) /\ store' \in Stores
  BY DEF ExecutedAs, TypeInv, TypeOK
<1>5. ASSUME NEW o \in Orders
      PROVE  /\ o # x => store'.orders[o] = catalog[o]
             /\ o \in store'.billing <=> proposed.action_type = "investigate_billing" /\ x = o
             /\ o \in store'.product <=>
                    proposed.action_type = "investigate_product_issue" /\ x = o
  BY <1>1, <1>3, <1>4, FirstEffect
<1>6. /\ z.customer_id = s.customer_id /\ z.proposed_action = proposed
      /\ z.human_decision = s.human_decision /\ next'[t] = "final_response"
      /\ z.action_result = [action_type |-> proposed.action_type, order_id |-> x]
      /\ z.order_context = WithUpdatedOrder(s.order_context, x, store'.orders[x])
  BY DEF ExecutedAs
<1>7. z.order_context = [o \in OwnedBy(z.customer_id) |-> store'.orders[o]]
  <2>1. s.order_context = [o \in OwnedBy(s.customer_id) |-> catalog[o]]
    <3>1. s.order_context # None
      BY <1>1, ContextPresent DEF GraphInv, CaseInv, BeforeContext
    <3>2. QED
      BY <1>3, <3>1 DEF Follows, FreshStore
  <2>2. \A o \in OwnedBy(s.customer_id) : o \in Orders
    BY DEF OwnedBy
  <2>3. QED
    BY <1>5, <1>6, <2>1, <2>2 DEF WithUpdatedOrder
<1>8. z.action_result # None
  BY <1>1, <1>6, AbsentAssumption DEF ActionResults, ProposedActions
<1>9. DoneOnly(state[t], state[t].action_result)'
  <2>1. proposed # None
    BY <1>1, AbsentAssumption
  <2>2. proposed.action_type \in ApprovalRequiredActionTypes => s.human_decision = "approved"
    BY ExecutionIsCleared DEF GraphInv, CaseInv
  <2>3. QED
    BY <1>1, <1>2, <1>5, <1>6, <2>1, <2>2 DEF DoneOnly
<1>10. QED
  BY <1>6, <1>7, <1>8, <1>9 DEF Follows

LEMMA QuietStepFollows ==
    ASSUME GraphInv, NEW t \in Threads, PlainStep(t), QuietStep(t),
           Follows(state[t], next[t]), UNCHANGED Case
    PROVE  Follows(state[t], next[t])' /\ state'[t].human_decision = state[t].human_decision
<1> DEFINE s == state[t]
           z == state'[t]
<1>1. UNCHANGED <<store, catalog>> /\ next[t] \notin {"final_response", "END"}
  BY DEF PlainStep, PlainNodes, Nodes, QuietStep
<1>2. s.action_result = None /\ store = FreshStore(catalog)
  BY <1>1 DEF Follows
<1>3. CASE z = s
  BY <1>1, <1>2, <1>3 DEF Follows, FreshStore
<1>4. CASE run'[t] = "running" /\ QuietUpdate(s, next[t], z, next'[t])
  <2>1. /\ z.action_result = None /\ z.human_decision = s.human_decision
        /\ z.order_context = IF next[t] = "load_context" THEN OrdersOfCustomer(s.customer_id)
                                                         ELSE s.order_context
    BY <1>2, <1>4 DEF QuietUpdate, Recorded
  <2>2. z.customer_id = s.customer_id
    BY <1>4 DEF PlainStep, SameRequest, Errors, ExpectedErrors, CorruptionErrors
  <2>3. OrdersOfCustomer(s.customer_id) = [o \in OwnedBy(s.customer_id) |-> store.orders[o]]
    BY RunnerAssumption DEF OrdersOfCustomer
  <2>4. z.order_context # None =>
            z.order_context = [o \in OwnedBy(z.customer_id) |-> store'.orders[o]]
    BY <1>1, <2>1, <2>2, <2>3 DEF Follows
  <2>5. QED
    BY <1>1, <1>2, <2>1, <2>2, <2>4 DEF Follows, FreshStore
<1>5. QED
  BY <1>3, <1>4 DEF QuietStep

LEMMA ReplyStepFollows ==
    ASSUME GraphInv, NEW t \in Threads, FinalResponse(t),
           Follows(state[t], next[t]), UNCHANGED Case
    PROVE  Follows(state[t], next[t])' /\ state'[t].human_decision = state[t].human_decision
<1>1. UNCHANGED <<store, catalog>>
  BY DEF FinalResponse
<1>2. CASE UNCHANGED <<state, next>>
  BY <1>1, <1>2 DEF Follows, DoneOnly, FreshStore
<1>3. CASE RepliedAs(t)
  BY <1>1, <1>3 DEF RepliedAs, Follows, DoneOnly, FreshStore
<1>4. QED
  BY <1>2, <1>3, ReplyExactly DEF GraphInv, CaseInv

LEMMA ApprovalStepFollows ==
    ASSUME GraphInv, NEW t \in Threads, RequestApproval(t) \/ ResolveApproval(t),
           Follows(state[t], next[t]), UNCHANGED Case
    PROVE  /\ Follows(state[t], next[t])'
           /\ resume[t] = None => state'[t].human_decision = state[t].human_decision
<1>1. UNCHANGED <<store, catalog>> /\ next[t] = "human_approval"
  BY DEF RequestApproval, ResolveApproval, At
<1>2. CASE UNCHANGED <<state, next>>
  BY <1>1, <1>2 DEF Follows, DoneOnly, FreshStore
<1>3. CASE ResolvedAs(t)
  <2>1. state[t].action_result = None
    BY <1>1 DEF Follows
  <2>2. resume[t] # None
    BY <1>3, AbsentAssumption DEF ResolvedAs
  <2>3. QED
    BY <1>1, <1>3, <2>1, <2>2 DEF ResolvedAs, Follows, FreshStore
<1>4. QED
  BY <1>2, <1>3, ResolveExactly DEF RequestApproval, Raise, GraphInv, CaseInv

LEMMA RefusedStepFollows ==
    ASSUME GraphInv, NEW t \in Threads, Refused(t), UNCHANGED catalog,
           Follows(state[t], next[t]), UNCHANGED Case
    PROVE  Follows(state[t], next[t])'
  BY DEF Refused, Follows, DoneOnly, FreshStore

\* A superstep of the case that runs; without a resume value it is not decided.
LEMMA GraphStepFollows ==
    ASSUME GraphInv, TypeInv', NEW t \in Threads, GraphStep(t),
           Follows(state[t], next[t]), UNCHANGED Case
    PROVE  /\ Follows(state[t], next[t])'
           /\ resume[t] = None => /\ resume'[t] = None
                                  /\ state'[t].human_decision = state[t].human_decision
<1>1. CASE PlainStep(t) /\ QuietStep(t)
  BY <1>1, QuietStepFollows DEF PlainStep
<1>2. CASE FinalResponse(t)
  BY <1>2, ReplyStepFollows DEF FinalResponse
<1>3. CASE RequestApproval(t) \/ ResolveApproval(t)
  <2>1. resume[t] = None => resume'[t] = None
    BY <1>3 DEF RequestApproval, ResolveApproval
  <2>2. QED
    BY <1>3, <2>1, ApprovalStepFollows
<1>4. CASE ExecuteSafeAction(t) \/ ExecuteApprovedAction(t)
  <2>1. resume'[t] = resume[t]
    BY <1>4 DEF ExecuteSafeAction, ExecuteApprovedAction
  <2>2. CASE Refused(t)
    BY <1>4, <2>1, <2>2, ExecuteKinds, RefusedStepFollows DEF Refused, GraphInv, CaseInv
  <2>3. CASE ExecutedAs(t)
    BY <1>4, <2>1, <2>3, ExecutionFollows DEF ExecutedAs
  <2>4. QED
    BY <1>4, <2>2, <2>3, ExecuteKinds DEF GraphInv, CaseInv
<1>5. QED
  BY <1>1, <1>2, <1>3, <1>4, GraphStepKinds DEF GraphInv, CaseInv

\* What a passed scorecard says of the case that runs.
LEMMA PassedChecks ==
    ASSUME RunnerTypeInv, stage \in {"invoked", "resumed"}, NEW urgency, NEW reply,
           Verdict(urgency, reply).passed
    PROVE  LET s == state[Position]
               expected == Case.expected_mutation
               Expected(field, before) == IF field = None THEN before ELSE field
           IN  /\ s.proposed_action = Case.expected_proposed_action
               /\ Case.human_decision = None => stage = "invoked"
               /\ Case.human_decision # None => s.human_decision = Case.human_decision
               /\ s.order_context # None
               /\ \A o \in DOMAIN orders_before :
                     IF expected = None \/ expected.order_id # o
                     THEN s.order_context[o] = orders_before[o]
                     ELSE s.order_context[o] =
                            [status |-> Expected(expected.status, orders_before[o].status),
                             payment_status |-> Expected(expected.payment_status,
                                                         orders_before[o].payment_status),
                             shipping_address |-> Expected(expected.shipping_address_contains,
                                                           orders_before[o].shipping_address)]
               /\ expected # None /\ expected.reference_id # None =>
                     ReferenceId(s.action_result) = expected.reference_id
<1> DEFINE s == state[Position]
           interrupted == pre_approval # None \/ Paused
           card == Scorecard(urgency, reply)
<1>1. /\ card["proposed_action"] = CheckProposedAction(Case, s)
      /\ card["approval_behavior"] = CheckApprovalBehavior(Case, interrupted, s)
      /\ card["mutation"] = CheckMutation(Case, s)
  BY DEF Scorecard, ComponentResults
<1>2. /\ CheckProposedAction(Case, s).passed
      /\ CheckApprovalBehavior(Case, interrupted, s).passed
      /\ CheckMutation(Case, s).passed
  <2>1. \A name \in Metrics : card[name].passed
    BY PassedHasReplied
  <2> HIDE DEF card
  <2>2. QED
    BY <1>1, <2>1 DEF Metrics
<1>3. \A a, b : Check(a, b).passed = b
  BY DEF Check
<1>4. s.proposed_action = Case.expected_proposed_action
  BY <1>2, <1>3 DEF CheckProposedAction
<1>5. /\ Case.human_decision = None => ~interrupted
      /\ Case.human_decision # None => s.human_decision = Case.human_decision
  BY <1>2, <1>3 DEF CheckApprovalBehavior
<1>6. Case.human_decision = None => stage = "invoked"
  BY <1>5 DEF RunnerTypeInv, RunnerTypeOK
<1>7. QED
  BY <1>2, <1>3, <1>4, <1>5, <1>6 DEF CheckMutation

\* The orders: its customer's were compared, nobody touched the others.
LEMMA PassedOrders ==
    ASSUME GraphInv, RunnerTypeInv, CaseFollows, stage \in {"invoked", "resumed"},
           NEW urgency, NEW reply, Verdict(urgency, reply).passed
    PROVE  store.orders = ExpectedStore(Case).orders
<1> DEFINE s == state[Position]
           expected == Case.expected_mutation
           Value(field, before) == IF field = None THEN before ELSE field
           Mutated(o) == [status |-> Value(expected.status, catalog[o].status),
                          payment_status |-> Value(expected.payment_status,
                                                   catalog[o].payment_status),
                          shipping_address |-> Value(expected.shipping_address_contains,
                                                     catalog[o].shipping_address)]
           Due(o) == IF expected = None \/ expected.order_id # o THEN catalog[o] ELSE Mutated(o)
<1>1. store.orders \in [Orders -> OrderRecords]
  BY DEF Stores, GraphInv, CaseInv, TypeInv, TypeOK
<1>2. orders_before = [o \in OwnedBy(Case.customer_id) |-> catalog[o]]
  BY DEF RunnerTypeInv, CaseSetUp, CaseStages
<1>3. WellDeclared(Case)
  BY CaseOfBenchmark DEF RunnerTypeInv, RunnerTypeOK, CaseSetUp, CaseStages, Case
<1>4. Follows(s, next[Position])
  BY DEF CaseFollows
<1>5. ASSUME NEW o \in Orders, OwnerOf[o] = Case.customer_id PROVE store.orders[o] = Due(o)
  <2>1. o \in DOMAIN orders_before /\ orders_before[o] = catalog[o]
    BY <1>2, <1>5 DEF OwnedBy
  <2>2. s.order_context[o] = Due(o)
    BY <2>1, PassedChecks
  <2>3. s.order_context[o] = store.orders[o]
    BY <1>4, <1>5, PassedChecks DEF Follows, OwnedBy
  <2>4. QED
    BY <2>2, <2>3
<1>6. ASSUME NEW o \in Orders, OwnerOf[o] # Case.customer_id PROVE store.orders[o] = Due(o)
  <2>1. expected = None \/ expected.order_id # o
    BY <1>3, <1>6 DEF WellDeclared
  <2>2. store.orders[o] = catalog[o]
    BY <1>4, <1>6 DEF Follows, DoneOnly, FreshStore
  <2>3. QED
    BY <2>1, <2>2
<1>7. store.orders = [o \in Orders |-> Due(o)]
  BY <1>1, <1>5, <1>6
<1>8. ExpectedStore(Case).orders = [o \in Orders |-> Due(o)]
  BY DEF ExpectedStore
<1>9. QED
  BY <1>7, <1>8

\* The investigations: one is sensitive, so it was approved, so its reference
\* id is expected and was compared.
LEMMA PassedInvestigations ==
    ASSUME GraphInv, RunnerTypeInv, CaseFollows, stage \in {"invoked", "resumed"},
           NEW urgency, NEW reply, Verdict(urgency, reply).passed,
           NEW o \in Orders, NEW action \in InvestigationTypes
    PROVE  (/\ state[Position].action_result # None
            /\ state[Position].action_result.action_type = action
            /\ state[Position].action_result.order_id = o)
           <=> (/\ Case.expected_mutation # None
                /\ Case.expected_mutation.reference_id = <<action, o>>)
<1> DEFINE s == state[Position]
           effect == s.action_result
           expected == Case.expected_mutation
<1>1. WellDeclared(Case)
  BY CaseOfBenchmark DEF RunnerTypeInv, RunnerTypeOK, CaseSetUp, Case
<1>2. <<action, o>> # None
  BY RunnerAssumption DEF ReferenceIds
<1>3. ASSUME effect # None, effect.action_type = action, effect.order_id = o
      PROVE  expected # None /\ expected.reference_id = <<action, o>>
  <2>1. DoneOnly(s, effect)
    BY <1>3 DEF CaseFollows, Follows
  <2>2. s.human_decision = "approved"
    BY <1>3, <2>1 DEF DoneOnly, InvestigationTypes, ApprovalRequiredActionTypes
  <2>3. Case.human_decision = "approved"
    <3>1. CASE Case.human_decision = None
      <4>1. s.human_decision = None
        BY <3>1, PassedChecks DEF CaseFollows
      <4>2. QED
        BY <2>2, <4>1, AbsentAssumption DEF Decisions
    <3>2. CASE Case.human_decision # None
      BY <2>2, <3>2, PassedChecks
    <3>3. QED
      BY <3>1, <3>2
  <2>4. /\ Case.expected_proposed_action # None
        /\ Case.expected_proposed_action.action_type = action
    BY <1>3, <2>1, PassedChecks DEF DoneOnly
  <2>5. expected # None /\ expected.reference_id # None
    BY <1>1, <2>3, <2>4 DEF WellDeclared
  <2>6. ReferenceId(effect) = expected.reference_id
    BY <2>5, PassedChecks
  <2>7. QED
    BY <1>3, <2>5, <2>6 DEF ReferenceId
<1>4. ASSUME expected # None, expected.reference_id = <<action, o>>
      PROVE  effect # None /\ effect.action_type = action /\ effect.order_id = o
  <2>1. ReferenceId(effect) = <<action, o>>
    BY <1>2, <1>4, PassedChecks
  <2>2. QED
    BY <1>2, <2>1 DEF ReferenceId
<1>5. QED
  BY <1>3, <1>4

LEMMA PassedStore ==
    ASSUME GraphInv, RunnerTypeInv, CaseFollows, stage \in {"invoked", "resumed"},
           NEW urgency, NEW reply, Verdict(urgency, reply).passed
    PROVE  store = ExpectedStore(Case)
<1> DEFINE s == state[Position]
           expected == Case.expected_mutation
           Done(action, o) == /\ s.action_result # None
                              /\ s.action_result.action_type = action
                              /\ s.action_result.order_id = o
           Due(action) ==
               {o \in Orders : expected # None /\ expected.reference_id = <<action, o>>}
<1>1. store \in Stores
  BY DEF GraphInv, CaseInv, TypeInv, TypeOK
<1>2. \A o \in Orders : /\ o \in store.billing <=> Done("investigate_billing", o)
                        /\ o \in store.product <=> Done("investigate_product_issue", o)
  <2>1. Follows(s, next[Position])
    BY DEF CaseFollows
  <2>2. CASE s.action_result = None
    BY <2>1, <2>2 DEF Follows, FreshStore
  <2>3. CASE s.action_result # None
    <3>1. DoneOnly(s, s.action_result)
      BY <2>1, <2>3 DEF Follows
    <3>2. QED
      BY <2>3, <3>1 DEF DoneOnly
  <2>4. QED
    BY <2>2, <2>3
<1>3. \A o \in Orders, action \in InvestigationTypes : Done(action, o) <=> o \in Due(action)
  BY PassedInvestigations
<1> HIDE DEF Done, Due
<1>4. \A o \in Orders : /\ o \in store.billing <=> o \in Due("investigate_billing")
                        /\ o \in store.product <=> o \in Due("investigate_product_issue")
  BY <1>2, <1>3 DEF InvestigationTypes
<1>5. store.billing = Due("investigate_billing") /\ store.product = Due("investigate_product_issue")
  BY <1>1, <1>4 DEF Stores, Due
<1>6. store.orders = ExpectedStore(Case).orders
  BY PassedOrders
<1>7. store = [orders |-> store.orders, billing |-> store.billing, product |-> store.product]
  BY <1>1 DEF Stores
<1>8. ExpectedStore(Case) = [orders |-> ExpectedStore(Case).orders,
                             billing |-> Due("investigate_billing"),
                             product |-> Due("investigate_product_issue")]
  BY DEF ExpectedStore, Due
<1>9. QED
  BY <1>5, <1>6, <1>7, <1>8

StoreInv == CaseFollows /\ PassMeansStore

\* The steps of the case that runs.
LEMMA RunningFollows ==
    ASSUME GraphInv, TypeInv', RunnerTypeInv, CaseFollows,
           SetUp \/ InvokeCase \/ GraphRuns \/ ResumeCase, stage' # "fresh",
           NEW t, t = Position
    PROVE  /\ stage' = "ready" => store' = FreshStore(catalog')
           /\ stage' \in {"invoked", "resumed"} => Follows(state[t], next[t])'
           /\ stage' = "invoked" => state'[t].human_decision = None /\ resume'[t] = None
<1>1. Position \in DOMAIN benchmark => t \in Threads /\ t \in Requests
  BY CaseOfBenchmark DEF RunnerTypeInv, RunnerTypeOK
<1>2. CASE SetUp
  BY <1>2 DEF SetUp, Report
<1>3. CASE InvokeCase
  <2>1. /\ t \in Threads /\ stage = "ready" /\ stage' = "invoked" /\ Case' = Case
        /\ StartRequest(t, t, Case.customer_id, Case.customer_message, TRUE)
    BY <1>1, <1>3, CaseStarts
       DEF InvokeCase, AtStage, Case, Position, RunnerTypeInv, RunnerTypeOK
  <2>2. state[t] = EmptyState
    BY <2>1, RunnerAssumption DEF StartRequest, GraphInv, UnusedAreEmpty
  <2>3. /\ state'[t] = [state[t] EXCEPT !.request_id = t, !.customer_id = Case.customer_id,
                                        !.customer_message = Case.customer_message]
        /\ resume'[t] = None /\ UNCHANGED <<store, catalog>>
    BY <2>1 DEF StartRequest, GraphInv, CaseInv, TypeInv, TypeOK
  <2>4. /\ state'[t].customer_id = Case.customer_id /\ state'[t].order_context = None
        /\ state'[t].action_result = None /\ state'[t].human_decision = None
    BY <2>2, <2>3 DEF EmptyState
  <2>5. store = FreshStore(catalog)
    BY <2>1 DEF CaseFollows
  <2>6. QED
    BY <2>1, <2>3, <2>4, <2>5 DEF Follows, FreshStore
<1>4. CASE GraphRuns
  <2>1. /\ t \in Threads /\ GraphStep(t) /\ stage \in {"invoked", "resumed"} /\ stage' = stage
        /\ UNCHANGED Case
    BY <1>1, <1>4 DEF GraphRuns, AtStage, runnerVars, Case, Position
  <2>2. Follows(state[t], next[t])
    BY <2>1 DEF CaseFollows
  <2>3. QED
    BY <2>1, <2>2, GraphStepFollows DEF CaseFollows
<1>5. CASE ResumeCase
  <2>1. /\ t \in Threads /\ stage = "invoked" /\ stage' = "resumed" /\ UNCHANGED Case
        /\ UNCHANGED <<state, next, store, catalog>>
    BY <1>1, <1>5 DEF ResumeCase, AtStage, Resume, Case, Position
  <2>2. Follows(state[t], next[t])
    BY <2>1 DEF CaseFollows
  <2>3. QED
    BY <2>1, <2>2 DEF Follows, DoneOnly, FreshStore
<1>6. QED
  BY <1>2, <1>3, <1>4, <1>5

\* A case that ends: it was set up for an unknown customer, it raised, or it
\* is scored.
LEMMA LastStore ==
    ASSUME GraphInv, RunnerTypeInv, CaseFollows, NEW result, Report(result),
           Position \in DOMAIN benchmark, UNCHANGED catalog,
           result.passed => UNCHANGED store /\ store = ExpectedStore(Case)
    PROVE  PassMeansStore'
<1>1. results \in Seq(Results)
  BY DEF RunnerTypeInv, RunnerTypeOK
<1>2. /\ results' = Append(results, result) /\ benchmark' = benchmark
      /\ Len(results') = Position /\ results'[Position] = result
  BY <1>1 DEF Report, Position
<1>3. QED
  BY <1>2 DEF PassMeansStore, ExpectedStore, Case

LEMMA StepStore ==
    ASSUME GraphInv, TypeInv', RunnerTypeInv, StoreInv, RunnerNext
    PROVE  StoreInv'
<1> USE DEF StoreInv
<1>1. CASE /\ SetUp \/ InvokeCase \/ GraphRuns \/ ResumeCase
           /\ stage' # "fresh"
  <2>1. Position' = Position
    BY <1>1 DEF SetUp, InvokeCase, GraphRuns, ResumeCase, runnerVars, Report, Position
  <2>2. CaseFollows'
    BY <1>1, <2>1, RunningFollows DEF CaseFollows
  <2>3. PassMeansStore'
    BY <1>1 DEF PassMeansStore
  <2>4. QED
    BY <2>2, <2>3
<1>2. CASE SetUp /\ stage' = "fresh"
  <2>1. Position \in DOMAIN benchmark /\ UNCHANGED catalog
        /\ Report([FailedResult EXCEPT !.infra_error = TRUE])
    BY <1>2 DEF SetUp, AtStage
  <2>2. ~[FailedResult EXCEPT !.infra_error = TRUE].passed
    BY DEF FailedResult
  <2>3. QED
    BY <1>2, <2>1, <2>2, LastStore DEF CaseFollows
<1>3. CASE InvokeRaised
  <2>1. Position \in DOMAIN benchmark /\ UNCHANGED catalog /\ Report(FailedResult)
    BY <1>3 DEF InvokeRaised, AtStage, vars
  <2>2. QED
    BY <2>1, LastStore DEF CaseFollows, Report, FailedResult
<1>4. CASE ResumeRaised
  <2>1. PICK urgency \in Urgencies :
            Report([FailedResult EXCEPT !.actual_intent = pre_approval.intent,
                                        !.actual_urgency = urgency,
                                        !.actual_route = pre_approval.route])
    BY <1>4 DEF ResumeRaised
  <2>2. Position \in DOMAIN benchmark /\ UNCHANGED catalog
    BY <1>4 DEF ResumeRaised, AtStage, vars
  <2>3. ~[FailedResult EXCEPT !.actual_intent = pre_approval.intent,
                              !.actual_urgency = urgency,
                              !.actual_route = pre_approval.route].passed
    BY DEF FailedResult
  <2>4. QED
    BY <2>1, <2>2, <2>3, LastStore DEF CaseFollows, Report
<1>5. CASE Score
  <2>1. PICK urgency \in Urgencies, reply \in Optional(ReplyKinds) :
            Report(Verdict(urgency, reply))
    BY <1>5, ScoreExactly
  <2>2. /\ Position \in DOMAIN benchmark /\ stage \in {"invoked", "resumed"}
        /\ UNCHANGED <<store, catalog>>
    BY <1>5, ScoreExactly DEF vars
  <2>3. Verdict(urgency, reply).passed => store = ExpectedStore(Case)
    BY <2>2, PassedStore
  <2>4. QED
    BY <2>1, <2>2, <2>3, LastStore DEF CaseFollows, Report
<1>6. CASE Summarize
  BY <1>6 DEF Summarize, vars, CaseFollows, PassMeansStore, ExpectedStore
<1>7. CASE SetUpRaised
  BY <1>7 DEF SetUpRaised, CaseFollows, PassMeansStore
<1>8. stage' # "fresh" \/ stage' = "fresh"
  OBVIOUS
<1>9. QED
  BY <1>1, <1>2, <1>3, <1>4, <1>5, <1>6, <1>7, <1>8 DEF RunnerNext, InvokeCase, GraphRuns, ResumeCase,
     runnerVars, AtStage

\* A case that passed left the whole store as the benchmark expects, although
\* the checks only read the graph's final state: the order context is what
\* load_context and the execution read of the store, and the operation was the
\* expected one, approved if it is sensitive, on an order of the customer.
THEOREM PassIsAboutTheStore == RunnerSpec => []PassMeansStore
<1>1. RunnerInit => StoreInv
  BY DEF RunnerInit, StoreInv, CaseFollows, PassMeansStore
<1>2. /\ GraphInv /\ RunnerTypeInv /\ StoreInv /\ [RunnerNext]_allVars
      /\ (GraphInv /\ RunnerTypeInv)'
      => StoreInv'
  <2> SUFFICES ASSUME GraphInv, RunnerTypeInv, StoreInv, [RunnerNext]_allVars, GraphInv'
               PROVE  StoreInv'
    OBVIOUS
  <2>1. CASE UNCHANGED allVars
    <3>1. /\ UNCHANGED <<state, next, resume, store, catalog, benchmark, stage, results>>
          /\ UNCHANGED Case /\ UNCHANGED Position
      BY <2>1 DEF allVars, vars, runnerVars, Case, Position
    <3>2. QED
      BY <3>1 DEF StoreInv, CaseFollows, Follows, DoneOnly, FreshStore, PassMeansStore,
         ExpectedStore
  <2>2. QED
    BY <2>1, StepStore DEF GraphInv, CaseInv
<1>3. StoreInv => PassMeansStore
  BY DEF StoreInv
<1>4. QED
  BY <1>1, <1>2, <1>3, RunnerInvariance, PTL DEF RunnerSpec

=============================================================================
