# A TLA+ model of the customer operations agent

The repository is a workflow that takes a customer's request (a message, a
customer id, a request id), classifies it, resolves the order it is about,
decides by policy what may be done and then answers, performs an operation on
the order, or asks a human reviewer first. It is a LangGraph graph over an
in-memory store; OpenAI classifies, extracts addresses and phrases replies.

A Streamlit page lets one user run cases and review them; an evaluation runs a
curated benchmark through the real graph.

This directory holds a model of the workflow, its store, the demo and the
evaluation, the TLC runs that check it on small instances and TLAPS proofs of
the main safety properties for every instance.

To run it: `tlc -config one_case.cfg MCCaseGraph`, and likewise for each other
`.cfg` with the module the table of runs names; `tlapm M.tla` for the modules
`RuleProofs`, `CaseSafetyProofs`, `CaseRuleProofs`, `CaseOutcomeProofs`,
`CaseRefinementProofs`, `StoreRaceProofs`, `DemoProofs` and `EvalProofs`.

## The system

| Part | State it keeps | Operations | Modelled in |
| --- | --- | --- | --- |
| Action store, `tools/action_store.py` (and the read-only store and records of `tools/customer_data.py`, `customer_ops/models.py`) | order records, billing and product investigations, all in process memory | `get_customer`, `list_orders_for_customer`, `get_order`; `cancel_order`, `change_shipping_address`, `issue_full_refund`, `create_billing_investigation`, `create_product_investigation` | `ActionStore`; its concurrent calls in `StoreRace` |
| Case rules, `customer_ops/{order_resolution, policies, routing, action_proposal, action_inputs, approval, action_executor}.py` | none | one pure function each; the executor makes one store call | `CaseRules` |
| Workflow graph, `customer_ops/graph.py`, `customer_ops/state.py` | per thread: a checkpoint (`CustomerOpsState` and the next node), a pending interrupt | invoke, resume; one superstep per node | `CaseGraph` |
| OpenAI classifier, extractor, response generator | none | one call each, which may answer anything its schema allows or raise | inside `CaseGraph`, as nondeterminism |
| Demo runtime and Streamlit page, `customer_ops/demo_runtime.py`, `streamlit_app.py` | per browser session: a graph, a store, a thread id, a phase, the last state and interrupt payload | create, start, resume, mark error, new case | `DemoSession` |
| End-to-end evaluation, `evals/` | per case: orders before and after, the interrupt payload | run a case, compare with its expectations | `EvalRunner`, `E2ECases` |
| `app.py` | none | prints two lines | no |

How they interact. A caller (the demo, the evaluation runner, a test) owns a
thread id and calls `graph.invoke` with a payload. LangGraph runs node after
node; each node reads the checkpoint, may call a rule, the store or OpenAI, and
returns an update that is committed with the choice of the next node. A node
that raises makes the invoke raise, and commits nothing. `human_approval` calls
`interrupt()`: the invoke returns with a payload for the reviewer, and the
caller resumes the same thread with `Command(resume={"decision": ...})`, which
runs `human_approval` again *from its start*. The graph shares its store
between all its threads, and by default reads and mutates the same store.

The demo gives each case a `DemoRuntime` of its own (graph, store, thread) and
keeps the current one in the browser session. The page is a script that runs
from the top on each click; Streamlit asks the run under way to stop, honours
that at its next call into `st`, and by default starts the next run on another
thread without waiting. The evaluation is one thread that builds a graph and a
store per case, invokes, resumes once if the case has a decision, and compares
the final state with the case's expectations.

What is hard here:

- **Stale decisions.** Eligibility is decided on the order context loaded at the
  start of the case. The store call comes later, after an extractor call or
  after a reviewer took an hour; another case may have changed the order.
- **Resumption.** What executes must be what the reviewer was shown, once, and
  only after an approval, whatever is sent as a resume value and to whichever
  thread.
- **Used threads.** Nothing clears the channels of a thread between requests, and a
  payload is merged into them: a key it omits keeps its value.
- **Partial failure.** A case can raise after its store call, with the reply
  still to be written.
- **Threads in the store.** A store call reads a record, checks the copy and
  writes it back changed; there is no lock.
- **Overlapping script runs.** `start_demo_case` and `resume_demo_case` make no
  call into `st`, so they cannot be stopped: a second click can resume the same
  runtime, or replace it, while the first is inside its invoke.
- **Judging a case.** The evaluation sees the graph's state, not the store; a
  case that raises must neither abort the benchmark nor vanish from its result.
- **Agreement of tables.** The intents, outcomes, routes, action types and
  sensitive actions are listed in several files and must agree; the eligible
  statuses are listed twice.

What makes each part correct, and where it is stated:

- The store: only legal operations, whatever the caller decided
  (`OrderLifecycle`); it is its fixture plus what cases did
  (`StoreIsFixturePlusJournal`).
- The rules: they agree with each other and with the store
  (`NeverCorrupted`, `RefusedOnlyByRace`).
- The graph: no sensitive operation without its approval
  (`SensitiveEffectsReviewed`, `RejectedNeverActs`, `PauseIsQuiet`), on the
  right order (`OnlyNamedOwnOrders`), at most once (`OneEffectPerRequest`), told
  truthfully to the customer and in the audit log (`GroundedReplies`,
  `OutcomeMatchesRoute`, `AnsweredOnce`, `AuditMatchesHistory`), with failures
  that leave nothing ambiguous (`FailsAfterEffectOnlyAtReply`), and an approval
  gets there (`ApprovalSettles`).
- The store under threads: nothing appears that nobody was told of
  (`NothingInvented`), what is lost is lost to an overlap on the same order
  (`LostOnlyToOverlap`), and a call no other one on its order overlaps is a call
  of the atomic store (`AtomicUnlessRaced`).
- The demo: nothing sensitive is executed that was not approved on that very
  card (`OnlyWhatWasApproved`), a pending approval stays as it is and leaves
  only for a new case (`QuietWhileAwaiting`, `PendingDroppedOnlyByNewCase`),
  an abandoned case stays away (`AbandonedStaysAbandoned`); unless two script
  runs answered its card, a completed case tells the truth and stays so, and the
  contract of a request is kept (`CompletedTellsTheTruth`, `SettledIsFinal`,
  `KeepsContractUnlessAnsweredTwice`); without overlaps the card goes away and the
  contract gets done (`ResumeSettles`, `ImplementsContract`).
- The evaluation: a pass means the whole store is as expected (`PassMeansStore`),
  a model that does what the case expects passes (`FaithfulModelPasses`), a
  green exit code hides nothing (`GreenMeansEverythingChecked`), and the benchmark
  ends, with an exit code unless something outside a case's `try` raised
  (`BenchmarkEnds`).

## The modules

`ActionStore` (constants only: orders, addresses, the absent value `None`). A
store is a value, each mutation an operator from store to store, each
precondition a predicate. An order has the three fields a mutation can change.
The two investigation dictionaries are kept as their key sets, because a
reference id is a function of the order id.

`CaseRules` extends it with one operator per rule of the code. What makes a rule
raise is a predicate of its own (`ResolutionFails`, `PolicyFails`,
`RoutingFails`, `ProposalFails`, `ExecutionFails`), so that the order of checks
and results stays visible. A message is the set of order ids it names, which is
all the text match in `order_resolution.py` extracts from it; policy codes,
reasons, amounts and wording are left out.

`CaseGraph` is the state machine. Its variables and the code:

| Variable | Code |
| --- | --- |
| `state[t]` | the `CustomerOpsState` in the checkpointer; an absent key is `None` |
| `next[t]` | the node the checkpoint schedules, `"START"` before and `"END"` after |
| `run[t]` | the last invoke: never made, running, paused in an interrupt, returned, or the exception it raised |
| `resume[t]` | the value of a `Command(resume=...)` until `interrupt()` returns it |
| `interrupts[t]` | the `__interrupt__` payload of a paused thread |
| `store` | `action_store` of `build_customer_ops_graph` |
| `catalog` | the fixture; with `SharedStore = FALSE`, what a separate read-only `store` keeps serving |
| `submitted`, `reviews`, `journal`, `replies` | history, read by no action: what was submitted under a request id, the decisions with what the reviewer saw, the store mutations, what replies were grounded on |

There is one action per node, named for the node's factory in `graph.py`, and
one per thing a caller can do: `Invoke` (a payload, on a fresh thread or, with
`ReuseThreads`, on one that already ran; a blank field is `None`, a key that is
left out is `Omitted`), `Resume` (a decision or anything
else, on a paused thread), `ResumeUnknownThread`. An action is one superstep:
every state change of the node with the conditional edge behind it. Two
shapes recur: `Settle` commits an update or raises, `Logged` is the workflow
status and audit event nearly every node adds. `human_approval` is two actions,
`RequestApproval` up to the interrupt and `ResolveApproval` after it, and both
make all the checks that come before `interrupt()`. The store call, the re-read
of the order and the commit of the checkpoint are one action because they are
one node.

A payload is merged into the thread: `Merged` keeps the value of a channel whose
key is `Omitted`, and `StartRequest` schedules `intake` on the result. `intake`
validates the merged channels, as the code does with `state.get`, so on a used
thread an incomplete payload runs with the customer or the message of the request before
it. `submitted[r]` records what the request was started with, that is after merging, and
whether the payload was `complete`; for a complete one the two are the same.

LangGraph itself is outside the repository. `At`, `Commit`, `Raise`, `Settle`,
`Merged`, `StartRequest`, `Invoke`, `Resume`, `ResumeUnknownThread` and `Submit` model it from how the
graph, the demo, the evaluation and `tests/test_graph.py` use it: a superstep
commits atomically, a raising node commits nothing, an interrupted node starts
over, a new payload on a used thread replaces the channels it has a key for, keeps
the others and drops a pending interrupt.

`CaseContract` is the abstract specification: what one request is owed, with no
graph in it. A request is open, under review with one operation, approved,
rejected, performed, answered or failed; a sensitive operation can be performed
only through a review that offered it; progress is fair except while a
reviewer thinks.

`CaseRefinement` maps the graph to the contract: a request's phase and operation
are computed from the history of its thread, and `ImplementsContract` is the
contract's specification, fairness included, under that mapping. It is stated
for callers that use one thread per request, as the demo and the evaluation do.

`StoreRace` takes the five mutating calls of the store apart: `GetOrder` reads the
record, `Reject` and `Write` check the copy and raise or assign. A call is a
record in the form of the executor's prepared input, made by any of a set of
Python threads; reading or assigning one dict entry is atomic, as in CPython.
The history variable `overlaps` records which calls on one order were under way at
once. `AtomicStore` is the abstract specification: a call takes effect at one
moment, through the same `ExecutionFails` and `ExecuteAction` the graph model uses, so
the refinement also ties the two forms of the store's rules to each other.

`DemoSession` is one browser session.

| Variable | Code |
| --- | --- |
| `session` | `st.session_state["demo_runtime"]` |
| `runtimes[n]` | the fields `phase`, `latest_state`, `interrupt_payload`, `error_message` of a `DemoRuntime`; `None` before `create_demo_runtime` |
| `threads[n]` | the latest checkpoint in the runtime's `InMemorySaver`, reduced to the channels the demo can tell apart |
| `stores[n]` | the runtime's action store |
| `runs[x]` | a script run: where it is, the click that started it, the runtime it works on, the checkpoint its invoke holds, whether it was asked to stop |
| `clicks`, `reviews`, `journal`, `raised` | bound and history: clicks, decisions with the payload shown and the script run (`run`) of the click, operations executed, invokes that raised |

A run is at a place of the script: `top` (the callback of "Nuevo caso" and the
script down to the form), `submit`, `render` (the result area), `publish` (the
assignment to the session and `st.rerun()`), or inside the demo runtime:
`starting`, `resume` (before the phase check), `loading`, `resuming`. The first
four call into `st` and there a run that was asked to stop ends (`Stop`); an
invoke goes on to its end. A run's invoke works on its own copy of the
checkpoint it loaded and saves every superstep to the thread, so two of them on
one thread overwrite each other's checkpoints but not the store. The nodes
before the pause are one step, `FirstNodes`, with every outcome they can have:
nobody else knows the runtime before it is published. The rules, the store and
the executor are those of `CaseRules`. Three abstractions: the assignments at
the end of `start_demo_case` and of `resume_demo_case` are one step each; a superstep
is atomic (`StoreRace` is about the store calls themselves); and a click on a card
that is no longer shown is dropped by the page rather than modelled.

`E2ECases` is the benchmark of `evals/e2e_cases.py` and the fixture it is written
against, as data. `EvalRunner` extends `CaseGraph`, so the real graph model is what the
runner drives, and is generic in the benchmark and the fixture: `EvalCases` is the
type of a case, and `RunnerAssumption` says that the runner's graph reads the store
it mutates and that each case has a thread and a request of its own. It adds the
runner: `stage` says where `run_single_case` is, `orders_before`, `pre_approval` and `results` are its
variables of those names, `summary` what `main` reports. `SetUp` is the setup of a case, with the
recorded failure to list its customer's orders; `SetUpRaised` stands for everything around it that
is in no `try` (`from_json`, `build_customer_ops_graph`, the clients of `run_e2e_evals`, which the model meets at the setup
of the first case): it aborts the benchmark without a summary (`stage = "aborted"`). Each check of
`e2e_checks.py` is an operator that returns whether its metric applies and
whether the case passes. The wording of a reply and the urgency are read by
checks only, so they are chosen when a case is scored. That an address
"contains" the expected one is modelled as equality. `MCEvalRunner` gives it the data of
`E2ECases` and chooses the sequences of cases.

The modules `MC...` give the constants values for TLC, the modules `...Proofs` hold
the proofs. The operators named `Mutant...` are plausible bugs in the definition they precede, and no specification uses them:
with such a bug in place of the definition, TLC reports a violation, so each
property is known to be able to fail.

## The runs

All states are explored in every run that passes. A system whose requests, calls
or clicks are used up, or whose benchmark is reported, stops, so deadlock is
not checked.

| Run | Instance | Distinct states | Question |
| --- | --- | --- | --- |
| | **`MCCaseGraph`** | | |
| `one_case` | 1 thread, 1 request, 3 orders, 2 customers and a stranger, 5 messages, 7 intents, 20 fixtures | 16 408 | does every branch do what its route says, on the right order, and do the tables agree |
| `two_cases` | 2 threads, 2 requests, 2 orders of one customer, all intents, with fairness | 111 529 | what can two cases on one store do to each other, to a review, to a reply; is every approval carried out, is the contract implemented |
| `reused_thread` | 1 thread, 3 requests in a row up to symmetry, 2 orders, 1 address, 4 intents | 2 519 261 | what can the channels of earlier requests do to a later one |
| `split_store` | 2 threads, 1 order, the context read from a separate store | 13 606 | are orders safe when every policy decision may be stale |
| `stale_reply` | 2 threads, 1 order | violation | is the graph state really never stale |
| `stale_payload` | 1 thread, 2 requests in a row | violation | is an incomplete payload really rejected |
| | **`MCStoreRace`** | | |
| `race` | 3 calls on 2 orders and an unknown id, in every interleaving | 71 547 | what can concurrent calls do to each other, and when is the store atomic |
| | **`MCDemoSession`** | | |
| `demo_serial` | 1 script run at a time, 2 runtimes, 4 clicks, an open order, with fairness | 48 769 | is the contract implemented, does the card go away |
| `demo_overlap` | 3 script runs at once, 3 runtimes, 4 clicks, a delivered order | 1 493 244 | what can overlapping clicks do to an approval, when is the page truthful and the contract kept |
| `demo_twice` | 2 script runs, 1 runtime | violation | is an approved action really executed once |
| | **`MCEvalRunner`** | | |
| `evals` | 20 single cases, 14 ordered pairs about one order, 1 case after an unknown customer; every answer of the models | 224 412 | can the verdicts be trusted |
| `broken_setup` | 1 case after one whose customer does not exist | violation | does a broken setup really stop the benchmark |

What the properties say is written above each of them in `CaseGraph`. Some
remarks on why they are not obvious:

- `RefusedOnlyByRace` says that when the store refuses an operation, another
  request did something to that very order that explains it. It ties the
  policy's table of statuses to the store's; with one case alone no refusal is
  possible at all.
- `GroundedReplies` holds for one thread per request only. A reused thread
  carries `action_result` and `human_decision` over, and they show up in the
  context of a later reply. That is why `reused_thread` checks the properties
  that do hold there: authority and target of each mutation, and the audit log.
- `OutcomeMatchesRoute` speaks of the journal and the decisions, not of the channels
  that tell of them, and holds on used threads too (`RouteTellsOutcome`).
- `AuditMatchesHistory` is checked on a reused thread, where the audit log spans
  requests, and `OrderLifecycle` with separate stores, where every policy decision
  may be stale: both are the harder case, and both are proved for every case.
- `ContextStaleOnlyByOthers` is what remains true of the documented freshness of
  the graph state.
- `LostOnlyToOverlap` is false without its condition: two overlapping calls on
  one order lose an update, or refund twice. It is what a caller may still rely on.
- `OnlyWhatWasApproved` does not say "once": `demo_twice` shows that two clicks on
  one card can execute an investigation twice.
- `CompletedTellsTheTruth`, `SettledIsFinal` and `KeepsContractUnlessAnsweredTwice` are
  checked with overlapping script runs. Their condition, `~AnsweredTwice`, is about one runtime: the
  decisions on record for its card come from one script run. A click on a card that is still shown while
  an earlier answer is being executed breaks it (`demo_twice`); stops, new cases,
  late publishes and runs on other runtimes do not.
- `ImplementsContract` and `ResumeSettles` are liveness and are checked in `demo_serial`, where script runs
  wait for each other (Streamlit with `runner.fastReruns` off, or a patient user).
- `PassMeansStore` compares the whole store, `check_mutation` the customer's orders
  in the final graph state: the property is that the difference never matters.
  Its mutant, one store for all cases, needs two cases in a row to show.
- `FaithfulModelPasses` checks all twenty expectations against the rules, the
  fixture and each other. Each of the 34 benchmarks without a broken setup
  reaches exit code 0, so the property is not empty for any case.

The bounds. Threads touch each other only through the store, order by order, so
an interference needs two cases on one order; two cases of one customer and two
orders let them meet and miss each other. A third case can only repeat what the
second did, as each operation is possible once per order apart from
investigations and address changes, which are idempotent or overwrite. Three
requests in a row on one thread let a channel survive an intervening request
that does not set it. `reused_thread` keeps four of the seven intents, one that only
reads, two safe operations that block each other, one of them with an input, and a sensitive one: each way in which a
request can leave channels behind, and one address, as a leftover input is told apart by its order. Two addresses tell a change from no change. The
`one_case` fixtures hold every combination of status and payment status of the
order that is acted on. Each request id is submitted once
(`submitted[r] = None` in `StartRequest`), which bounds every run; a request that is
submitted again under the same id is, for the code, a new request.

Calls on the store meet on one order only, and a lost update needs one call
between the read and the write of another; a third call lets the loss be seen by
somebody, and the second order lets a call that nobody overlaps run between the
steps of two that race. In the demo an
interference needs two runs on one runtime, a third run that starts another
case, and four clicks (submit, two decisions, new case); a run that was stopped is idle and
can be used by the next click. One order is enough, as each runtime has its own
store. In the evaluation a case could only be disturbed through what the one before it left,
so pairs about one order are the pairs that matter.

Fairness. In `CaseGraph`, `FairSpec` assumes weak fairness of each thread's supersteps: an
`invoke` is a synchronous call that runs node after node until it pauses,
returns or raises, and the OpenAI clients time out. Nothing is assumed of
callers: a request need not be submitted, an interrupt need not be answered. So
`ApprovalSettles` starts from a given approval, not from a pause. `DemoSession`
assumes the same of each script run, a thread that runs until it ends or is
stopped; no click is assumed. `StoreRace` states no fairness: its properties are safety. The evaluation is a single thread, so weak fairness of
its next step is that it is not suspended forever and that model calls return or raise.

## The proofs

The theorems hold for any sets of threads, requests, orders, customers, messages
and fixtures, shared or split stores, threads reused or not, except where a
hypothesis is named below. They use assumptions on the constants, all checked by
TLC on every run: `StoreAssumption` and `AbsentAssumption` keep `None` apart from
the values of a channel (and from the malformed resume value),
`GraphAssumption` types the constants. The theorems about the evaluation add
`RunnerAssumption`. Beside the types it holds `WellDeclared`, which is an assumption about
benchmarks and not about code: a case expects a mutation of an order of its own
customer, and one that expects an approved investigation declares its reference id.
The curated cases do. Without it a pass says less: `check_mutation` looks at no other
customer's order, and at no investigation whose reference id the case leaves out.

| Module | What is proved in it |
| --- | --- |
| `RuleProofs` | lemmas about the rules and the store, used everywhere: types, which operations are possible, `PolicyMatchesStore` |
| `CaseSafetyProofs` | types, reviews, effects, rejections, legal orders |
| `CaseRuleProofs` | no corrupted state, own orders only |
| `CaseOutcomeProofs` | routes, failures, answers, pauses, replies, audit log; the store and the contexts read from it, refusals |
| `CaseRefinementProofs` | the graph implements the contract, as far as safety goes |
| `StoreRaceProofs` | concurrent store calls, the refinement to the atomic store |
| `DemoProofs` | the browser session, the demo implements the contract, as far as safety goes |
| `EvalProofs` | what a passed case and a green exit code of the evaluation are worth |

`TypeCorrect` (`Spec => []TypeOK`). `TypeOK` is not inductive: a node reads the
channels an earlier node set, and in a state where `proposed_action` is absent
the executor's result would have no type. `TypeInv` adds `ChannelsReady`, the
channels each node may rely on, which is also the reason why no node of the code
meets a missing key. The proof has a lemma per node.

`SensitiveEffectsAreReviewed` (`Spec => []SensitiveEffectsReviewed`). The inductive
`ReviewInv` says of every thread (`ThreadReviewed`) that a paused thread's payload shows its own
pending operation, that a consumed-to-be or committed approval has its entry in `reviews` for exactly
that operation, and that the input to be executed is for the order that was
proposed. The approval path is a chain of four supersteps with other threads
and resumes in between, which is what the strengthening carries along.

`OneEffectForEachRequest` (`Spec => []OneEffectPerRequest`). The inductive `EffectInv`
(`ThreadEffects`) ties a checkpoint to the submission it came from and a
journal to its own thread, and says that a thread whose current request is
already journalled is at its reply or past it.

`OrdersLiveLegally` (`Spec => OrderLifecycle`). Only the two execution nodes touch
the store, and `ExecutionIsLegal` shows that the store's own preconditions
suffice, whatever the policy decided.

The safety proofs factor the graph: `GraphSteps` shows that a superstep is one of
the four that ask, resolve or execute, or a `PlainStep` that leaves store,
journal, reviews, submissions and the request's identity alone. Each invariant
then has one lemma for plain steps, one for each remaining action, and a frame
lemma for the threads that do not move.

`RejectionIsFinal` (`Spec => []RejectedNeverActs`). A decision is on record before the
node that obeys it runs, so `DecidedInv` (`ThreadDecided`) says where a thread is once the
request it serves is decided: not paused, on the branch of its decision, and never
at the execution node after a rejection. That a second decision cannot reach an
old request on another thread comes from `EffectInv`, that the reviewer decides
about the request in the checkpoint from `ReviewInv`.

`CasesStayInScope` (`Spec => []OnlyNamedOwnOrders`). The customer and the message of a
request are those it was started with, the merged ones: where a payload omits one, the
theorem says that the case acts within the customer and message the thread kept, and `stale_payload` shows that it
does act. On a used thread the context, the
selection and the proposal of an earlier request stay in the checkpoint.
`ScopeInv` says from which node on each of them belongs to the current request:
the context at the resolver, the selection up to the proposal, the proposal up to
the store call. No claim about the policy is needed.

`RulesAgree` (`Spec => []NeverCorrupted`). `RuleInv` (`RuleReady`) says what the rule of the
next node takes for granted. `PolicyIsRoutable` shows that the router accepts each
outcome of the policy engine and that its branch fits the intent,
`ProposalMatchesBranch` that the approval table of the proposals says the same as
the branch. These lemmas range over intents, resolutions and contexts, not over
the cases TLC enumerates.

`PolicyMatchesStore`. `policies.py` and `action_store.py` each have a table of
what an order's state allows. On an order the context shows as it is, a complete
operation is refused by the store exactly when the policy blocks it, and sent to
a reviewer exactly when the executor insists on an approval.

`RouteTellsOutcome`, `EffectsOutliveFailures` and `AnswersAreUnique` (`Spec =>`
`[]OutcomeMatchesRoute`, `[]FailsAfterEffectOnlyAtReply`, `[]AnsweredOnce`). They say
where a thread must be once something was done, decided or answered, so they share one
inductive `OutcomeInv` (`Accounted`): on each branch which effects and decisions of the
current request exist, at the reply the full account of them, after an effect a result
that is that effect, and one reply exactly if the invoke returned. A request id
is used once, which ties what is known of a request to the one thread that serves it.

`PausesAreQuiet` (`Spec => []PauseIsQuiet`). The payload is that of the checkpoint by
`ReviewInv`, the named order by `ScopeInv`. What is new in `PausedAsOffered` is that a
paused thread passed the checks of `human_approval`, so nothing can be decided yet.
The customer and the message are again the merged ones.

`RepliesAreGrounded` (`Spec => []GroundedReplies`), where requests have a thread of their own
(`~ReuseThreads`, as in the demo and the evaluation; on used threads it is false).
`GroundedInv` says that the channels agree with history before the reply is written:
a result exactly if there was an effect, from the decision on the decision that is on record.

`AuditLogTellsTheTruth` (`Spec => []AuditMatchesHistory`). `AuditInv` counts: the
decisions on record are those in the log and the one that `human_approval` has yet to consume.
The count of decisions is the cardinality of a growing set, so it needs that a
resume adds a new element.

`StoreHoldsEveryEffect` (`Spec => []StoreIsFixturePlusJournal`) is inductive together
with the types: each store operation changes the fields its journal entry accounts for.

`ContextsFollowTheStore` (`Spec => []ContextStaleOnlyByOthers`), where `load_context`
reads the store that is mutated (`SharedStore`, the default of
`build_customer_ops_graph`). `FollowInv` drops the restriction to later nodes:
from the moment it is loaded, every order of a context is the store's, or another request, on whichever thread, mutated it.

`RefusalsAreRaces` (`Spec => []RefusedOnlyByRace`). `CheckedInv` carries the policy's
permission from the decision to the store call: the order as the case holds it
permits the operation, it comes from the fixture by legal changes only, and the
prepared input is complete. With the fixture invariant, a store that refuses must
hold an effect on that order that the case did not see.

`GraphKeepsContract` (`Spec => Contract!Spec` of `CaseRefinement`, for `~ReuseThreads`).
This is the safety half of `ImplementsContract`: each superstep is a step of
`CaseContract` for the one request the thread serves, or a stutter. The phase of a request is computed
from history, so `ShownInv` has to tie history to the checkpoint: the reviews and effects of
the request in a thread are about the operation the thread proposes. That no other request moves is a frame lemma.

`StoreTypeCorrect` (`Spec => []TypeOK` of `StoreRace`). The strengthening is that a
call that read has a copy, which is a record, and that its order exists.

`StoreInventsNothing` (`Spec => []NothingInvented`). A write puts back a whole
record, also fields other calls changed or reset, so the invariant has to say of every
copy that is held what it says of the store: each field that differs from the
fixture was put there by an accepted call on that order. Investigations are
kept because they are never part of a copy.

`StoreIsAtomic` (`Spec => AtomicUnlessRaced`). `OverlapInv` says that calls under way
together on one order are on record, so that the copy a call holds is still the
record in the store as long as it overlapped no other. Then a write is the atomic
`Perform` and a raise the atomic `Refuse`; that the step is the step of one call
(`OneCaller`) makes this a statement about each call, whatever the others did. Its
corollary `StoreIsAtomicForOrderlyCallers` (`Spec /\ [](overlaps = {}) => Atomic!Spec`) is
the refinement for callers that keep calls on one order apart.

`StoreLosesOnlyToOverlap` (`Spec => []LostOnlyToOverlap`). `KeptInv` says it of each
accepted call: its effect is still in the store unless it raced. A later write of the
order keeps it, because that call's copy is the current record (`OverlapInv`), or
was read while the first call was under way, which makes them overlap.

`DemoExecutesOnlyWhatWasApproved` (`Spec => []OnlyWhatWasApproved` of `DemoSession`).
What is executed is the operation of the checkpoint a resume loaded, what is
decided is the resume's own click, and other resumes save their checkpoints to
the same thread meanwhile. `SafeInv` says why this is safe: while a runtime starts,
nobody else works on it; from then on the proposed action of its thread never
changes, whichever run saves; a decision in any checkpoint was given for that
action; and the payload of a runtime that awaits approval is built from it.
The proof has one frame lemma each for steps that move runs, change a phase or
save a checkpoint, and a lemma per action. It assumes `AbsentAssumption` of
`DemoSession` (checked by TLC) to keep `None` apart from the values.

`PendingIsKept` (`Spec => PendingDroppedOnlyByNewCase`) and `AbandonedIsGone`
(`Spec => AbandonedStaysAbandoned`). The page reads the session when it handles a click
and assigns it much later. `FocusInv` says why that is safe: a click stops every
other run, so at most one run is still live, and what it remembers of the session
is what the session holds. `OpenedInv` adds that a decision and the session are
only ever about a runtime that has been started.

`DemoTypeCorrect` (`Spec => []TypeOK`) adds to `SafeInv` that stores and the rest of
a checkpoint keep their types.

`CardShowsThePause` (`Spec => []QuietWhileAwaiting`). A start is a long stretch in which
nobody knows the runtime; `QuietInv` says of it that nothing was executed before it
pauses, and of a pending card that it stays so until a resume begins. It holds however script runs overlap.

The remaining theorems about the demo hold under overlapping script runs too, and say
nothing of a runtime whose card was answered twice (`AnsweredTwice`, a predicate of the decisions on
record for it). Without that condition they are false, and the default setting of Streamlit lets it
happen: `demo_twice`.

- `CompletionIsTruthful` (`Spec => []CompletedTellsTheTruth`) and `SettledStaysSettled`
  (`Spec => SettledIsFinal`) rest on `AloneInv`. For each runtime that was not answered twice,
  `AloneRuntime` says that the checkpoint the run at work holds accounts for the journal, that
  this run's click is the only decision, and that a runtime no run works on is unreviewed or its
  `latest_state` is the whole account. The lemma `NobodyElse` says why overlaps do not matter: a run is
  at work on a runtime because it started it or because its decision is on record, so a second
  one would be a second answer.
- `DemoKeepsContract` (`Spec => KeepsContractUnlessAnsweredTwice`) is the safety half of
  the contract. `ProgressInv` adds that the checkpoint of the run at work, which by `OnlyWorkerKnows` is
  the thread's, is in step with the decision it took, and that a runtime whose invoke raised is done
  with. A step changes what the contract sees of one runtime at most, by a step of the contract.

The evaluation runs any benchmark of well declared cases on any fixture. `GraphInv`
carries the inductive invariants of the case proofs over to the runner: a new store
for the next case (`NewStore`) is the only step it takes that no caller of the graph
could take, and those invariants do not mention what the store holds. It adds that a
thread that was never invoked has an empty checkpoint.

- `RunnerTypesKept` (`RunnerSpec => []RunnerTypeOK`) needs `CaseSetUp`: the runner's locals
  are those of the case that runs, and `orders_before` is the fixture's, restricted
  to its customer.
- `GreenIsComplete` (`RunnerSpec => []GreenMeansEverythingChecked`). `VerdictInv` says of
  each recorded result that a pass means a returned thread and every metric applied
  exactly as the case declares and met; a thread whose case is over does not move
  again. A summary without a failed case then counts what is declared: the passed
  cases are all of them, as a subset of equal cardinality.
- `PassIsAboutTheStore` (`RunnerSpec => []PassMeansStore`). The checks read the final
  `order_context`, the property speaks of the store, so `CaseFollows` ties them
  together at every superstep: until the case acts the store is the fixture's; its
  context is exactly the store's orders of its customer; once it acted, it did its one
  proposed operation on its customer's order, approved if sensitive, and nothing
  else (`DoneOnly`); a case without a decision is never resumed. `ScopeInv` is what
  makes the order its customer's. `PassedOrders` and `PassedInvestigations` then compare the
  store with the scorecard, field by field: an investigation nobody expected would have needed an
  approval, so the case had a decision and a reference id that was compared.

Only model-checked:

- All liveness: `ApprovalSettles`, `ResumeSettles`, `BenchmarkEnds` and the fairness half of both `ImplementsContract`. Liveness
  under fairness needs `ENABLED`, which is out of the reach of the provers used here.
- `FaithfulModelPasses`. It is a statement about the twenty curated cases, not about any
  benchmark: a computation over their expectations, which TLC does in full.

No module has a recursive definition.

## Where the documentation and the code differ

- `customer_ops/graph.py:31-33` says that a mutation is synchronized into
  `order_context` "so graph state never shows stale data". Only the case's own order is re-read,
  once. `stale_reply` shows a case that executed its
  action and replies from a context another case has changed.
- `customer_ops/graph.py:95-96` says that intake rejects "a missing/empty request_id, a missing/empty
  customer_id, or an empty/whitespace-only customer_message". It reads the merged state
  (`:99-101`). `stale_payload` shows a second request on a thread, sent without a message or without a
  customer id, that is accepted, acts and is answered with those of the first.
- `README.md:205-206` says of the approval card "execution happens exactly once, only after an
  explicit "approved" decision", and so does `demo_runtime.py:153-154`. The phase is checked
  before the invoke and set after it. `demo_twice` shows two overlapping approvals
  that both execute the investigation. The second half of the sentence does hold
  (`OnlyWhatWasApproved`).
- `customer_ops/demo_runtime.py:126-127` says that on an interrupt `start_demo_case` "stores
  ONLY the public interrupt payload (never the raw interrupted state)". It assigns the
  interrupted result to `latest_state` first (`:135`). No run of its own:
  `QuietWhileAwaiting` includes that a paused runtime's `latest_state` is the thread's checkpoint.
- `customer_ops/state.py:178-179` says that `action_result` "stays absent when
  rejected or when awaiting approval". No node clears it; on a used thread it survives
  into a later request, which then awaits approval with the result present, and `human_approval` raises
  `ApprovalError` instead of asking the reviewer. No run of its own.
- `evals/e2e_runner.py:10-16` says that a malformed case or a broken setup is "allowed to raise and
  fail fast". Reading the baseline orders is caught and recorded (`:119`), and `broken_setup` shows the
  next case run. What raises at `:112`, `:129` or `:262-264` does abort the
  benchmark (`SetUpRaised`).

## Not modelled, and why

- Resuming a thread whose invoke raised, or invoking it with no payload. What
  LangGraph does then depends on its version, and no caller in the repository
  does it: the demo offers a new case, the evaluation records a failure.
- A payload without a request id on a used thread: the merged state has the id of the
  earlier request, which would run a second time under it. Each request id starts one run
  (`StartRequest`), because the history variables and most properties speak of a request by its id.
- A process restart or a reload of the browser. Store, checkpointer and session
  are in memory, so it is `Init`.
- Loading and validating fixtures, prompts and OpenAI models, the text of
  replies and the text matching of `check_response`, order totals, reviewer-facing wording.
- The page's example buttons, secrets, sidebar and detail tables: they fill in or
  display data and decide nothing. Printing in `run_e2e_evals.py`, and `app.py`.
- Streamlit and LangGraph themselves. `DemoSession` assumes of Streamlit (1.63 and
  later, its default `runner.fastReruns`, which `.streamlit/config.toml` leaves alone)
  that a stop is an exception that `except Exception` does not catch, raised at the
  next call into `st`; and of LangGraph that an invoke loads the latest
  checkpoint of its thread once, uses its own resume value and saves each
  superstep.
- The urgency of a request in the graph: no rule reads it.

## Plan

Done: the rules, the store with atomic and with racing calls, the graph, the contract and its
refinements, the demo session, the evaluation, their runs, and the theorems above.
Every safety property a passing run checks is also a theorem, except
`FaithfulModelPasses`. What is left:

1. A positive counterpart of `FaithfulModelPasses` for any benchmark: say which
   expectations agree with the rules, and prove that such a case passes when the models do what it expects.
2. Liveness, when the prover has `ENABLED`.
3. Durable checkpoints and restarts, should the repository replace `InMemorySaver`.
