---------------------------- MODULE DemoSession ----------------------------
(***************************************************************************)
(* One browser session of the demo: the page of streamlit_app.py, which is *)
(* a script that runs from the top on each click, and the DemoRuntime      *)
(* objects of customer_ops/demo_runtime.py it creates, starts and resumes. *)
(*                                                                         *)
(* A click during a script run asks that run to stop.  Streamlit honours   *)
(* this at the run's next call into st, and with its default setting       *)
(* (FastReruns) it starts the next run on another thread without waiting.  *)
(* start_demo_case and resume_demo_case never call into st: an invoke goes *)
(* on to its end whatever the user does, and may meet another one on the   *)
(* same runtime.                                                           *)
(*                                                                         *)
(* A runtime has its own graph, thread and store, so a case is reduced to  *)
(* its checkpoint from the first pause on; the nodes before the pause,     *)
(* which nobody can meet, are one step with every outcome they can have.   *)
(* An invoke works on its own copy of the checkpoint it loaded and saves   *)
(* each superstep.                                                         *)
(***************************************************************************)
EXTENDS CaseRules, Naturals, Sequences, FiniteSets

CONSTANTS
    Runtimes,    \* DemoRuntime objects the session may create
    Runs,        \* script runs that can be alive at the same time
    MaxClicks,   \* bound on the clicks of the user
    Fixture,     \* the order records every fresh store is loaded with
    FastReruns   \* runner.fastReruns: a new run does not wait for the old

ASSUME SessionAssumption ==
    /\ None \notin Runtimes
    /\ MaxClicks \in Nat
    /\ Fixture \in [Orders -> OrderRecords]
    /\ FastReruns \in BOOLEAN

VARIABLES
    session,    \* st.session_state["demo_runtime"]
    runtimes,   \* the DemoRuntime objects, None before they are created
    threads,    \* runtime -> the latest checkpoint of its thread
    stores,     \* runtime -> its action store
    runs,       \* the script runs
    clicks,     \* how often the user clicked
    reviews,    \* history: decisions passed to a resume, by which run, and the payload shown
    journal,    \* history: runtime -> the operations its store executed
    raised      \* history: runtimes whose invoke raised

vars == <<session, runtimes, threads, stores, runs, clicks, reviews, journal, raised>>

-----------------------------------------------------------------------------
DemoPhases == {"idle", "awaiting_approval", "completed", "error"}

SafeMessages == {"missing_config", "ai_service_failure", "runtime_state", "generic_failure"}

Stages == {"START", "human_approval", "execute_approved_action",
           "approval_rejected", "final_response", "END"}

Optional(S) == S \cup {None}

Checkpoints == [next            : Stages,
                proposed_action : Optional(ProposedActions),
                human_decision  : Optional(Decisions),
                action_result   : Optional(ActionResults),
                final_response  : BOOLEAN]

EmptyCheckpoint == [next |-> "START", proposed_action |-> None,
                    human_decision |-> None, action_result |-> None,
                    final_response |-> FALSE]

DemoRuntimes == [phase             : DemoPhases,
                 latest_state      : Optional(Checkpoints),
                 interrupt_payload : Optional(ApprovalRequests(Runtimes)),
                 error_message     : Optional(SafeMessages)]

Events == {"submit", "approve", "reject", "new_case", "none"}

Places == {"idle", "top", "submit", "starting", "render", "resume", "loading",
           "resuming", "publish"}

ScriptRuns == [at : Places, event : Events, runtime : Optional(Runtimes),
               checkpoint : Checkpoints, stopped : BOOLEAN]

IdleRun == [at |-> "idle", event |-> "none", runtime |-> None,
            checkpoint |-> EmptyCheckpoint, stopped |-> FALSE]

Reviews == [runtime  : Runtimes,
            shown    : ApprovalRequests(Runtimes),
            decision : Decisions,
            run      : Runs]

Operations == [action_type : ActionTypes, order_id : Orders]

\* An absent value is never mistaken for one that is there.
ASSUME AbsentAssumption ==
    /\ None \notin Decisions \cup ProposedActions \cup ActionResults
    /\ None \notin DemoRuntimes \cup ApprovalRequests(Runtimes) \cup SafeMessages

Init ==
    /\ session = None
    /\ runtimes = [n \in Runtimes |-> None]
    /\ threads = [n \in Runtimes |-> EmptyCheckpoint]
    /\ stores = [n \in Runtimes |-> FreshStore(Fixture)]
    /\ runs = [x \in Runs |-> IdleRun]
    /\ clicks = 0
    /\ reviews = {}
    /\ journal = [n \in Runtimes |-> <<>>]
    /\ raised = {}

-----------------------------------------------------------------------------
\* The user and Streamlit.

Alive(x) == runs[x].at # "idle"

\* A click ends the patience with every run that is still alive.
Click(x, event) ==
    /\ clicks < MaxClicks
    /\ ~Alive(x)
    /\ FastReruns \/ \A y \in Runs : ~Alive(y)
    /\ clicks' = clicks + 1
    /\ runs' = [y \in Runs |->
           IF y = x THEN [IdleRun EXCEPT !.at = "top", !.event = event]
           ELSE IF Alive(y) THEN [runs[y] EXCEPT !.stopped = TRUE]
           ELSE runs[y]]
    /\ UNCHANGED <<session, runtimes, threads, stores, reviews, journal, raised>>

\* The toolbar's stop, or a click that is queued behind the run.
Interrupt(x) ==
    /\ Alive(x)
    /\ ~runs[x].stopped
    /\ runs' = [runs EXCEPT ![x].stopped = TRUE]
    /\ UNCHANGED <<session, runtimes, threads, stores, clicks, reviews, journal, raised>>

\* Places whose next statement calls into st.
YieldPlaces == {"top", "submit", "render", "publish"}

\* The script is at p and goes on if nobody asked it to stop.
At(x, p) == runs[x].at = p /\ (p \in YieldPlaces => ~runs[x].stopped)

\* The stop is honoured: StopException, which no handler of the page catches.
Stop(x) ==
    /\ runs[x].at \in YieldPlaces
    /\ runs[x].stopped
    /\ runs' = [runs EXCEPT ![x] = IdleRun]
    /\ UNCHANGED <<session, runtimes, threads, stores, clicks, reviews, journal, raised>>

-----------------------------------------------------------------------------
\* The page.

Phase(n) == IF n = None \/ runtimes[n] = None THEN "idle" ELSE runtimes[n].phase

\* Mutant: the disabled submit button is trusted, the phase is not checked.
MutantTop(x) ==
    /\ At(x, "top")
    /\ session' = IF runs[x].event = "new_case" THEN None ELSE session
    /\ runs' = [runs EXCEPT ![x].at =
           IF runs[x].event = "submit" THEN "submit" ELSE "render"]
    /\ UNCHANGED <<runtimes, threads, stores, clicks, reviews, journal, raised>>

\* The callback of "Nuevo caso", then the script down to the submitted form.
Top(x) ==
    /\ At(x, "top")
    /\ session' = IF runs[x].event = "new_case" THEN None ELSE session
    /\ runs' = [runs EXCEPT ![x].at =
           IF runs[x].event = "submit" /\ Phase(session) # "awaiting_approval"
           THEN "submit" ELSE "render"]
    /\ UNCHANGED <<runtimes, threads, stores, clicks, reviews, journal, raised>>

\* What a button of the approval card sends as Command(resume={"decision": ...}).
DecisionOf == [approve |-> "approved", reject |-> "rejected"]

\* A blank message is refused, or create_demo_runtime raises: no runtime.
SubmitBlank(x) ==
    /\ At(x, "submit")
    /\ runs' = [runs EXCEPT ![x].at = "render"]
    /\ UNCHANGED <<session, runtimes, threads, stores, clicks, reviews, journal, raised>>

\* create_demo_runtime, then start_demo_case up to its invoke.
SubmitCase(x, n) ==
    /\ At(x, "submit")
    /\ runtimes[n] = None
    /\ runtimes' = [runtimes EXCEPT ![n] =
           [phase |-> "idle", latest_state |-> None,
            interrupt_payload |-> None, error_message |-> None]]
    /\ runs' = [runs EXCEPT ![x].at = "starting", ![x].runtime = n,
                            ![x].checkpoint = threads[n]]
    /\ UNCHANGED <<session, threads, stores, clicks, reviews, journal, raised>>

\* Mutant: the card is shown whenever there is a payload to show.
MutantRender(x) ==
    LET event == runs[x].event
    IN  /\ At(x, "render")
        /\ IF /\ session # None
              /\ runtimes[session].interrupt_payload # None
              /\ event \in DOMAIN DecisionOf
           THEN /\ runs' = [runs EXCEPT ![x].at = "resume", ![x].runtime = session]
                /\ reviews' = reviews \cup
                       {[runtime  |-> session,
                         shown    |-> runtimes[session].interrupt_payload,
                         decision |-> DecisionOf[event],
                         run      |-> x]}
           ELSE /\ runs' = [runs EXCEPT ![x] = IdleRun]
                /\ UNCHANGED reviews
        /\ UNCHANGED <<session, runtimes, threads, stores, clicks, journal, raised>>

\* The result area.  The approval card shows the payload and has the two
\* buttons; any other phase has none, and a click on a button that is gone is
\* dropped.
Render(x) ==
    LET event == runs[x].event
    IN  /\ At(x, "render")
        /\ IF Phase(session) = "awaiting_approval" /\ event \in DOMAIN DecisionOf
           THEN /\ runs' = [runs EXCEPT ![x].at = "resume", ![x].runtime = session]
                /\ reviews' = reviews \cup
                       {[runtime  |-> session,
                         shown    |-> runtimes[session].interrupt_payload,
                         decision |-> DecisionOf[event],
                         run      |-> x]}
           ELSE /\ runs' = [runs EXCEPT ![x] = IdleRun]
                /\ UNCHANGED reviews
        /\ UNCHANGED <<session, runtimes, threads, stores, clicks, journal, raised>>

\* Mutant: the runtime lives in a module-level global, not in session_state.
MutantPublish(x) ==
    /\ runs[x].at = "publish"
    /\ session' = runs[x].runtime
    /\ runs' = [runs EXCEPT ![x] = [IdleRun EXCEPT !.at = "top"]]
    /\ UNCHANGED <<runtimes, threads, stores, clicks, reviews, journal, raised>>

\* st.session_state["demo_runtime"] = runtime; st.rerun()
Publish(x) ==
    /\ At(x, "publish")
    /\ session' = runs[x].runtime
    /\ runs' = [runs EXCEPT ![x] = [IdleRun EXCEPT !.at = "top"]]
    /\ UNCHANGED <<runtimes, threads, stores, clicks, reviews, journal, raised>>

-----------------------------------------------------------------------------
\* Errors.

\* _safe_error_message: by the exception's type only.
SafeErrorMessage(exception) ==
    CASE exception = "DemoRuntimeError" -> "runtime_state"
      [] exception \in {"ClassificationError", "ActionInputError",
                        "ResponseGenerationError"} -> "ai_service_failure"
      [] exception = "OpenAIError" -> "missing_config"
      [] OTHER -> "generic_failure"

\* Mutant: a phase outside the vocabulary of DemoPhase.
MutantMarkError(runtime, exception) ==
    [runtime EXCEPT !.phase = "failed", !.error_message = SafeErrorMessage(exception)]

MarkError(runtime, exception) ==
    [runtime EXCEPT !.phase = "error", !.error_message = SafeErrorMessage(exception)]

\* A start that raises leaves its runtime behind; a resume marks its own.
Fail(x, exception) ==
    LET n == runs[x].runtime
    IN  /\ raised' = raised \cup {n}
        /\ IF runs[x].at = "starting"
           THEN /\ runs' = [runs EXCEPT ![x].at = "render"]
                /\ UNCHANGED runtimes
           ELSE /\ runs' = [runs EXCEPT ![x].at = "publish"]
                /\ runtimes' = [runtimes EXCEPT ![n] = MarkError(@, exception)]
        /\ UNCHANGED <<session, threads, stores, clicks, reviews, journal>>

-----------------------------------------------------------------------------
\* The graph, as far as one case of one runtime can tell.

\* The superstep's update is the run's checkpoint and is saved for the thread.
Save(x, checkpoint) ==
    /\ threads' = [threads EXCEPT ![runs[x].runtime] = checkpoint]
    /\ runs' = [runs EXCEPT ![x].checkpoint = checkpoint]

\* A superstep that touches the checkpoint only.
SaveOnly(x, checkpoint) ==
    /\ Save(x, checkpoint)
    /\ UNCHANGED <<session, runtimes, stores, clicks, reviews, journal, raised>>

\* One store call and the checkpoint with its result.
Execute(x, proposed, address, checkpoint) ==
    LET n == runs[x].runtime
        input == PrepareActionInput(proposed, address)
    IN  /\ stores' = [stores EXCEPT ![n] = ExecuteAction(proposed, input, @)]
        /\ journal' = [journal EXCEPT ![n] = Append(@,
               [action_type |-> proposed.action_type, order_id |-> proposed.order_id])]
        /\ Save(x, [checkpoint EXCEPT
               !.next = "final_response",
               !.proposed_action = proposed,
               !.action_result = ExecutionResult(proposed, input)])
        /\ UNCHANGED <<session, runtimes, clicks, reviews, raised>>

Proposals == {ProposeAction(i, o) : i \in DOMAIN ActionTypeByIntent, o \in Orders}

\* Whether the policy lets an operation through on store s.
Allowed(s, proposed, address) ==
    ~ExecutionFails(proposed, PrepareActionInput(proposed, address), s,
                    proposed.requires_human_approval)

\* Everything up to the pause, the execution of a safe action or the reply.
FirstNodes(x) ==
    LET n == runs[x].runtime
        c == runs[x].checkpoint
    IN  /\ At(x, "starting")
        /\ c.next = "START"
        /\ \/ Fail(x, "ClassificationError")
           \/ SaveOnly(x, [c EXCEPT !.next = "final_response"])
           \/ \E proposed \in Proposals, address \in Optional(Addresses) :
                 /\ Allowed(stores[n], proposed, address)
                 /\ IF proposed.requires_human_approval
                    THEN SaveOnly(x, [c EXCEPT !.next = "human_approval",
                                               !.proposed_action = proposed])
                    ELSE Execute(x, proposed, address, c)

HumanApproval(x) ==
    LET c == runs[x].checkpoint
        decision == ParseHumanApprovalResponse(DecisionOf[runs[x].event])
    IN  /\ At(x, "resuming")
        /\ c.next = "human_approval"
        /\ SaveOnly(x, [c EXCEPT
               !.human_decision = decision,
               !.next = IF decision = "approved" THEN "execute_approved_action"
                                                 ELSE "approval_rejected"])

ExecuteApprovedAction(x) ==
    LET n == runs[x].runtime
        c == runs[x].checkpoint
        input == PrepareActionInput(c.proposed_action, None)
    IN  /\ At(x, "resuming")
        /\ c.next = "execute_approved_action"
        /\ IF ExecutionFails(c.proposed_action, input, stores[n], c.human_decision = "approved")
           THEN Fail(x, "ActionExecutionError")
           ELSE Execute(x, c.proposed_action, None, c)

ApprovalRejected(x) ==
    /\ At(x, "resuming")
    /\ runs[x].checkpoint.next = "approval_rejected"
    /\ SaveOnly(x, [runs[x].checkpoint EXCEPT !.next = "final_response"])

\* Mutant: a failed reply is tried again from the execution of its action.
MutantFinalResponse(x) ==
    LET c == runs[x].checkpoint
    IN  /\ runs[x].at \in {"starting", "resuming"}
        /\ c.next = "final_response"
        /\ \/ SaveOnly(x, [c EXCEPT !.next = "END", !.final_response = TRUE])
           \/ SaveOnly(x, [c EXCEPT !.next = IF c.human_decision = "approved"
                                             THEN "execute_approved_action" ELSE @])

FinalResponse(x) ==
    LET c == runs[x].checkpoint
    IN  /\ runs[x].at \in {"starting", "resuming"}
        /\ c.next = "final_response"
        /\ \/ SaveOnly(x, [c EXCEPT !.next = "END", !.final_response = TRUE])
           \/ Fail(x, "ResponseGenerationError")

-----------------------------------------------------------------------------
\* The rest of demo_runtime.py.

\* Mutant: the case counts as completed when its graph paused.
MutantStartReturns(x) ==
    LET n == runs[x].runtime
        c == runs[x].checkpoint
    IN  /\ At(x, "starting")
        /\ c.next \in {"human_approval", "END"}
        /\ runtimes' = [runtimes EXCEPT ![n] =
               [phase |-> "completed", latest_state |-> c,
                interrupt_payload |-> None, error_message |-> None]]
        /\ runs' = [runs EXCEPT ![x].at = "publish"]
        /\ UNCHANGED <<session, threads, stores, clicks, reviews, journal, raised>>

\* start_demo_case after its invoke came back with or without an interrupt.
StartReturns(x) ==
    LET n == runs[x].runtime
        c == runs[x].checkpoint
        paused == c.next = "human_approval"
    IN  /\ At(x, "starting")
        /\ c.next \in {"human_approval", "END"}
        /\ runtimes' = [runtimes EXCEPT ![n] =
               [phase |-> IF paused THEN "awaiting_approval" ELSE "completed",
                latest_state |-> c,
                interrupt_payload |-> IF paused
                    THEN BuildApprovalRequest(n, c.proposed_action) ELSE None,
                error_message |-> None]]
        /\ runs' = [runs EXCEPT ![x].at = "publish"]
        /\ UNCHANGED <<session, threads, stores, clicks, reviews, journal, raised>>

\* resume_demo_case: the phase check, whose failure the page marks like any
\* other exception.
ResumeCheck(x) ==
    LET n == runs[x].runtime
    IN  /\ At(x, "resume")
        /\ IF Phase(n) = "awaiting_approval"
           THEN /\ runs' = [runs EXCEPT ![x].at = "loading"]
                /\ UNCHANGED runtimes
           ELSE /\ runs' = [runs EXCEPT ![x].at = "publish"]
                /\ runtimes' = [runtimes EXCEPT ![n] = MarkError(@, "DemoRuntimeError")]
        /\ UNCHANGED <<session, threads, stores, clicks, reviews, journal, raised>>

\* Its invoke begins: the thread's latest checkpoint is loaded.
ResumeLoad(x) ==
    LET n == runs[x].runtime
    IN  /\ At(x, "loading")
        /\ runs' = [runs EXCEPT ![x].at = "resuming", ![x].checkpoint = threads[n]]
        /\ UNCHANGED <<session, runtimes, threads, stores, clicks, reviews, journal, raised>>

\* Mutant: the phase is left as it was.
MutantResumeReturns(x) ==
    LET n == runs[x].runtime
    IN  /\ At(x, "resuming")
        /\ runs[x].checkpoint.next = "END"
        /\ runtimes' = [runtimes EXCEPT ![n].latest_state = runs[x].checkpoint,
                                        ![n].interrupt_payload = None]
        /\ runs' = [runs EXCEPT ![x].at = "publish"]
        /\ UNCHANGED <<session, threads, stores, clicks, reviews, journal, raised>>

\* resume_demo_case after its invoke returned.
ResumeReturns(x) ==
    LET n == runs[x].runtime
    IN  /\ At(x, "resuming")
        /\ runs[x].checkpoint.next = "END"
        /\ runtimes' = [runtimes EXCEPT ![n] =
               [phase |-> "completed", latest_state |-> runs[x].checkpoint,
                interrupt_payload |-> None, error_message |-> None]]
        /\ runs' = [runs EXCEPT ![x].at = "publish"]
        /\ UNCHANGED <<session, threads, stores, clicks, reviews, journal, raised>>

-----------------------------------------------------------------------------
InvokeStep(x) ==
    \/ FirstNodes(x)
    \/ HumanApproval(x)
    \/ ExecuteApprovedAction(x)
    \/ ApprovalRejected(x)
    \/ FinalResponse(x)

RuntimeStep(x) ==
    \/ StartReturns(x)
    \/ ResumeCheck(x)
    \/ ResumeLoad(x)
    \/ ResumeReturns(x)

PageStep(x) ==
    \/ Stop(x)
    \/ Top(x)
    \/ SubmitBlank(x)
    \/ \E n \in Runtimes : SubmitCase(x, n)
    \/ Render(x)
    \/ Publish(x)

ScriptStep(x) == InvokeStep(x) \/ RuntimeStep(x) \/ PageStep(x)

Next ==
    \E x \in Runs :
        \/ \E event \in Events : Click(x, event)
        \/ Interrupt(x)
        \/ ScriptStep(x)

Spec == Init /\ [][Next]_vars

\* A script run is a thread that runs to its end; nobody has to click.
FairSpec == Spec /\ \A x \in Runs : WF_vars(ScriptStep(x))

-----------------------------------------------------------------------------
\* Properties.

\* Every variable keeps to its type; latest_state and the interrupt payload
\* are what demo_runtime.py declares them to be.
TypeOK ==
    /\ session \in Optional(Runtimes)
    /\ runtimes \in [Runtimes -> Optional(DemoRuntimes)]
    /\ threads \in [Runtimes -> Checkpoints]
    /\ stores \in [Runtimes -> Stores]
    /\ runs \in [Runs -> ScriptRuns]
    /\ clicks \in 0..MaxClicks
    /\ reviews \subseteq Reviews
    /\ journal \in [Runtimes -> Seq(Operations)]
    /\ raised \subseteq Runtimes

IsSensitive(op) == op.action_type \in ApprovalRequiredActionTypes

Resuming(n) == \E x \in Runs : runs[x].at = "resuming" /\ runs[x].runtime = n

\* However script runs overlap, a runtime's store executes a sensitive
\* operation only after "Aprobar" was clicked on the card of that runtime
\* while it showed that very operation.
OnlyWhatWasApproved ==
    \A n \in Runtimes : \A i \in DOMAIN journal[n] :
        IsSensitive(journal[n][i]) =>
            \E v \in reviews :
                /\ v.runtime = n /\ v.decision = "approved"
                /\ v.shown = [request_id  |-> n,
                              action_type |-> journal[n][i].action_type,
                              order_id    |-> journal[n][i].order_id]

\* A runtime that awaits approval and that no invoke works on is exactly as
\* its case left it: paused, undecided, nothing executed, its payload shows the
\* operation the thread would execute, and its latest_state, whose details and
\* audit trail the page shows, is still the thread's checkpoint.
QuietWhileAwaiting ==
    \A n \in Runtimes : Phase(n) = "awaiting_approval" /\ ~Resuming(n) =>
        /\ journal[n] = <<>> /\ stores[n] = FreshStore(Fixture)
        /\ threads[n].next = "human_approval" /\ threads[n].human_decision = None
        /\ runtimes[n].interrupt_payload = BuildApprovalRequest(n, threads[n].proposed_action)
        /\ runtimes[n].latest_state = threads[n]

\* A pending approval leaves the session only when the user asks for a new
\* case: no late submit and no late resume replaces it.
PendingDroppedOnlyByNewCase ==
    [][Phase(session) = "awaiting_approval" /\ session' # session =>
           \E x \in Runs : runs[x].at = "top" /\ runs[x].event = "new_case" /\ session' = None
      ]_vars

\* A runtime the session turned away from does not come back: what enters
\* the session is a runtime no decision was ever given for.
AbandonedStaysAbandoned ==
    [][session' \notin {session, None} => \A v \in reviews : v.runtime # session']_vars

\* A resume that began leaves the phase "awaiting_approval", whether the user
\* clicks on or the script is stopped: the card does not stay forever.
ResumeSettles ==
    \A x \in Runs, n \in Runtimes :
        runs[x].at = "resuming" /\ runs[x].runtime = n ~> Phase(n) # "awaiting_approval"

\* The card of n was answered again while the resume of its first answer still
\* ran: the one thing that overlapping script runs can do to a runtime.
AnsweredTwice(n) ==
    \E v, w \in reviews : v.runtime = n /\ w.runtime = n /\ v.run # w.run

\* A case that completed tells what its store executed, and what the reviewer
\* decided; one that failed tells nothing and does not try again.  Script runs
\* may overlap as they like, unless two of them answer the same card.
CompletedTellsTheTruth ==
    \A n \in Runtimes : ~AnsweredTwice(n) =>
        /\ Len(journal[n]) <= 1
        /\ Phase(n) = "completed" =>
              LET told == runtimes[n].latest_state
                  result == told.action_result
              IN  /\ journal[n] = IF result = None THEN <<>>
                      ELSE <<[action_type |-> result.action_type,
                              order_id    |-> result.order_id]>>
                  /\ \A v \in reviews : v.runtime = n => v.decision = told.human_decision
                  /\ told.final_response

\* A settled runtime is never touched again, and an error that is shown is
\* one of the graph, never a resume out of order: a run that was stopped, came
\* late or serves another case does nothing to it.
SettledIsFinal ==
    [][\A n \in Runtimes :
           Phase(n) \in {"completed", "error"} /\ ~AnsweredTwice(n) =>
               /\ runtimes'[n] = runtimes[n]
               /\ stores'[n] = stores[n] /\ journal'[n] = journal[n]
               /\ runtimes[n].error_message # "runtime_state"]_vars

-----------------------------------------------------------------------------
\* The contract of a request (CaseContract): a runtime serves exactly one.

ContractPhase(n) ==
    LET c == threads[n]
    IN  IF runtimes[n] = None THEN "unseen"
        ELSE IF n \in raised THEN "failed"
        ELSE IF c.final_response THEN "answered"
        ELSE IF Len(journal[n]) > 1 THEN "performed twice"
        ELSE IF journal[n] # <<>> THEN "performed"
        ELSE IF c.human_decision # None THEN c.human_decision
        ELSE IF c.next = "human_approval" THEN "review"
        ELSE "open"

ContractOperation(n) ==
    IF threads[n].proposed_action = None THEN None
    ELSE [action_type |-> threads[n].proposed_action.action_type,
          order_id    |-> threads[n].proposed_action.order_id]

Contract == INSTANCE CaseContract
    WITH Requests <- Runtimes,
         Sensitive <- {op \in Operations : IsSensitive(op)},
         NoOperation <- None,
         phase <- [n \in Runtimes |-> ContractPhase(n)],
         operation <- [n \in Runtimes |-> ContractOperation(n)]

\* With script runs that do not overlap the page implements the contract of a
\* request: an operation at most once, a sensitive one only after its review,
\* one answer, and progress except while the reviewer thinks.
ImplementsContract == Contract!FairSpec

\* However script runs overlap, a step that is not one of the contract changes
\* nothing the contract sees, except of runtimes whose card was answered twice.
KeepsContractUnlessAnsweredTwice ==
    /\ Contract!Init
    /\ [][\/ Contract!Next
          \/ \A n \in Runtimes : ~AnsweredTwice(n) =>
                UNCHANGED <<ContractPhase(n), ContractOperation(n)>>]_vars

-----------------------------------------------------------------------------
\* What the documentation says and the code does not do.

\* README.md:205: with the approval card "execution happens exactly once".
ExecutedAtMostOnce == \A n \in Runtimes : Len(journal[n]) <= 1

=============================================================================
