----------------------------- MODULE DemoProofs -----------------------------
(***************************************************************************)
(* Safety of DemoSession for any number of runtimes, overlapping script    *)
(* runs and clicks.                                                        *)
(*                                                                         *)
(* What a runtime's store executes is what "Aprobar" was clicked for:      *)
(* OnlyWhatWasApproved is not inductive.  A resume executes the operation  *)
(* of the checkpoint it loaded, on the decision of its own click, while    *)
(* other runs save their checkpoints to the same thread.  It is safe       *)
(* because the proposed action of a thread no longer changes once the      *)
(* runtime left phase "idle", which is when its payload can be shown.      *)
(*                                                                         *)
(* What may happen to the runtime a session shows: a pending approval is   *)
(* not replaced behind the user's back, and an abandoned case does not     *)
(* come back.  The session is read when a click is handled and assigned    *)
(* much later.  That is safe because a click stops every other run: the    *)
(* one run that may still assign the session is the one whose view of it   *)
(* is current.                                                             *)
(*                                                                         *)
(* How runs may overlap without harm: as long as no two of them answered   *)
(* the card of a runtime, one run at most works on it, so that a completed *)
(* case tells the truth, a settled one is left alone, and each step is one *)
(* of the contract of a request.  Nothing is assumed of FastReruns.        *)
(***************************************************************************)
EXTENDS DemoSession, RuleProofs

-----------------------------------------------------------------------------
\* Run x answers the card of n.
Review(x, n, proposed, decision) ==
    [runtime |-> n, shown |-> BuildApprovalRequest(n, proposed), decision |-> decision,
     run |-> x]

\* The types the argument needs; the stores have no part in it.
TypesUsed ==
    /\ session \in Optional(Runtimes)
    /\ runtimes \in [Runtimes -> Optional(DemoRuntimes)]
    /\ threads \in [Runtimes -> Checkpoints]
    /\ runs \in [Runs -> ScriptRuns]
    /\ journal \in [Runtimes -> Seq(Operations)]

\* A checkpoint that records an approval was approved as it is.
ApprovedAsIs(n, checkpoint) ==
    checkpoint.human_decision = "approved" =>
        /\ checkpoint.proposed_action # None
        /\ \E x \in Runs : Review(x, n, checkpoint.proposed_action, "approved") \in reviews

\* The state of a run that is inside start_demo_case, alone with its runtime.
StartingRun(x) ==
    LET n == runs[x].runtime
        c == runs[x].checkpoint
    IN  /\ n \in Runtimes /\ runtimes[n] # None /\ runtimes[n].phase = "idle"
        /\ c = threads[n]
        /\ c.human_decision = None
        /\ c.next = "human_approval" => c.proposed_action # None
        /\ \A y \in Runs : runs[y].at = "starting" /\ runs[y].runtime = n => y = x

\* The state of a run that resumes, from the click on.
ResumingRun(x) ==
    LET n == runs[x].runtime
    IN  /\ n \in Runtimes /\ runtimes[n] # None /\ runtimes[n].phase # "idle"
        /\ threads[n].proposed_action # None
        /\ runs[x].event \in DOMAIN DecisionOf
        /\ Review(x, n, threads[n].proposed_action, DecisionOf[runs[x].event]) \in reviews
        /\ runs[x].at = "resuming" =>
              /\ runs[x].checkpoint.proposed_action = threads[n].proposed_action
              /\ ApprovedAsIs(n, runs[x].checkpoint)

RunsInv ==
    \A x \in Runs :
        /\ runs[x].at = "starting" => StartingRun(x)
        /\ runs[x].at \in {"resume", "loading", "resuming"} => ResumingRun(x)
        /\ runs[x].at = "publish" => runs[x].runtime \in Runtimes

RuntimesInv ==
    \A n \in Runtimes :
        /\ runtimes[n] = None => threads[n] = EmptyCheckpoint
        /\ runtimes[n] # None /\ runtimes[n].phase = "awaiting_approval" =>
              /\ threads[n].proposed_action # None
              /\ runtimes[n].interrupt_payload =
                    BuildApprovalRequest(n, threads[n].proposed_action)
        /\ ApprovedAsIs(n, threads[n])

SafeInv == TypesUsed /\ RunsInv /\ RuntimesInv /\ OnlyWhatWasApproved

-----------------------------------------------------------------------------
\* Steps by what they change.

\* Reviews are only added, so an approval on record stays on record.
LEMMA StaysApproved ==
    ASSUME NEW n, NEW c, ApprovedAsIs(n, c), reviews \subseteq reviews'
    PROVE  ApprovedAsIs(n, c)'
  BY DEF ApprovedAsIs

\* Script runs move about; no runtime, thread or store changes.
LEMMA CalmStep ==
    ASSUME SafeInv, runs' \in [Runs -> ScriptRuns], UNCHANGED <<runtimes, threads, journal>>,
           session' \in Optional(Runtimes), reviews \subseteq reviews',
           \A y \in Runs :
               \/ runs'[y].at \in {"idle", "top", "submit", "render"}
               \/ /\ runs'[y].at = runs[y].at
                  /\ runs'[y].event = runs[y].event
                  /\ runs'[y].runtime = runs[y].runtime
                  /\ runs'[y].checkpoint = runs[y].checkpoint
               \/ runs'[y].at \in {"resume", "loading", "resuming"} /\ ResumingRun(y)'
               \/ runs'[y].at = "publish" /\ runs'[y].runtime \in Runtimes
    PROVE  SafeInv'
<1>1. TypesUsed'
  BY DEF SafeInv, TypesUsed
<1>2. RuntimesInv'
  BY DEF SafeInv, RuntimesInv, ApprovedAsIs
<1>3. OnlyWhatWasApproved'
  BY DEF SafeInv, OnlyWhatWasApproved
<1>4. ASSUME NEW y \in Runs, runs'[y].at = "starting" PROVE StartingRun(y)'
  BY <1>4 DEF SafeInv, RunsInv, StartingRun
<1>5. ASSUME NEW y \in Runs, runs'[y].at \in {"resume", "loading", "resuming"}
      PROVE  ResumingRun(y)'
  BY <1>5 DEF SafeInv, RunsInv, ResumingRun, ApprovedAsIs
<1>6. ASSUME NEW y \in Runs, runs'[y].at = "publish" PROVE runs'[y].runtime \in Runtimes
  BY <1>6 DEF SafeInv, RunsInv
<1>7. RunsInv'
  BY <1>4, <1>5, <1>6 DEF RunsInv
<1>8. QED
  BY <1>1, <1>2, <1>3, <1>7 DEF SafeInv

\* A run settles or opens its runtime and is about to publish it.
LEMMA PhaseStep ==
    ASSUME SafeInv, NEW x \in Runs, runs[x].at \in {"starting", "resume", "resuming"},
           NEW r \in DemoRuntimes, r.phase # "idle",
           r.phase = "awaiting_approval" =>
               /\ threads[runs[x].runtime].proposed_action # None
               /\ r.interrupt_payload =
                     BuildApprovalRequest(runs[x].runtime,
                                          threads[runs[x].runtime].proposed_action),
           runtimes' = [runtimes EXCEPT ![runs[x].runtime] = r],
           runs' = [runs EXCEPT ![x].at = "publish"],
           UNCHANGED <<session, threads, reviews, journal>>
    PROVE  SafeInv'
<1> DEFINE n == runs[x].runtime
<1>1. /\ n \in Runtimes
      /\ \A y \in Runs \ {x} : runs[y].at = "starting" => runs[y].runtime # n
  BY DEF SafeInv, RunsInv, StartingRun, ResumingRun
<1>2. /\ runs' \in [Runs -> ScriptRuns]
      /\ \A y \in Runs \ {x} : runs'[y] = runs[y]
      /\ runs'[x].at = "publish" /\ runs'[x].runtime = n
  BY DEF SafeInv, TypesUsed, ScriptRuns, Places
<1>3. /\ runtimes' \in [Runtimes -> Optional(DemoRuntimes)]
      /\ \A m \in Runtimes : runtimes'[m] = IF m = n THEN r ELSE runtimes[m]
      /\ r # None
  BY <1>1, AbsentAssumption DEF SafeInv, TypesUsed, Optional
<1>4. TypesUsed'
  BY <1>2, <1>3 DEF SafeInv, TypesUsed
<1>5. RuntimesInv'
  BY <1>3 DEF SafeInv, RuntimesInv, ApprovedAsIs
<1>6. OnlyWhatWasApproved'
  BY DEF SafeInv, OnlyWhatWasApproved
<1>7. ASSUME NEW y \in Runs, runs'[y].at = "starting" PROVE StartingRun(y)'
  BY <1>1, <1>2, <1>3, <1>7 DEF SafeInv, RunsInv, StartingRun
<1>8. ASSUME NEW y \in Runs, runs'[y].at \in {"resume", "loading", "resuming"}
      PROVE  ResumingRun(y)'
  BY <1>1, <1>2, <1>3, <1>8 DEF SafeInv, RunsInv, ResumingRun, ApprovedAsIs
<1>9. RunsInv'
  BY <1>1, <1>2, <1>7, <1>8 DEF SafeInv, RunsInv
<1>10. QED
  BY <1>4, <1>5, <1>6, <1>9 DEF SafeInv

\* A run saves a checkpoint that keeps what its resume or start relies on.
LEMMA SaveStep ==
    ASSUME SafeInv, NEW x \in Runs, runs[x].at \in {"starting", "resuming"},
           NEW c \in Checkpoints, Save(x, c),
           UNCHANGED <<session, runtimes, reviews>>,
           ApprovedAsIs(runs[x].runtime, c),
           runs[x].at = "starting" =>
               /\ c.human_decision = None
               /\ c.next = "human_approval" => c.proposed_action # None,
           runs[x].at = "resuming" =>
               c.proposed_action = runs[x].checkpoint.proposed_action,
           journal' \in [Runtimes -> Seq(Operations)],
           OnlyWhatWasApproved'
    PROVE  SafeInv'
<1> DEFINE n == runs[x].runtime
<1>1. /\ n \in Runtimes /\ runtimes[n] # None
      /\ runs[x].at = "starting" => StartingRun(x)
      /\ runs[x].at = "resuming" => ResumingRun(x)
  BY DEF SafeInv, RunsInv, StartingRun, ResumingRun
<1>2. /\ runs' \in [Runs -> ScriptRuns]
      /\ \A y \in Runs \ {x} : runs'[y] = runs[y]
      /\ runs'[x].at = runs[x].at /\ runs'[x].runtime = n
      /\ runs'[x].event = runs[x].event /\ runs'[x].checkpoint = c
  BY DEF SafeInv, TypesUsed, ScriptRuns, Save
<1>3. /\ threads' \in [Runtimes -> Checkpoints]
      /\ \A m \in Runtimes : threads'[m] = IF m = n THEN c ELSE threads[m]
  BY <1>1 DEF SafeInv, TypesUsed, Save
<1>4. TypesUsed'
  BY <1>2, <1>3 DEF SafeInv, TypesUsed
<1>5. RuntimesInv'
  BY <1>1, <1>3 DEF SafeInv, RuntimesInv, ApprovedAsIs, StartingRun, ResumingRun
<1>6. ASSUME NEW y \in Runs, runs'[y].at = "starting" PROVE StartingRun(y)'
  <2>1. CASE y = x
    BY <1>1, <1>2, <1>3, <1>6, <2>1 DEF StartingRun
  <2>2. CASE y # x
    <3>1. StartingRun(y) /\ runs[y].runtime # n
      BY <1>1, <1>2, <1>6, <2>2 DEF SafeInv, RunsInv, StartingRun, ResumingRun
    <3>2. QED
      BY <1>2, <1>3, <2>2, <3>1 DEF StartingRun
  <2>3. QED
    BY <2>1, <2>2
<1>7. ASSUME NEW y \in Runs, runs'[y].at \in {"resume", "loading", "resuming"}
      PROVE  ResumingRun(y)'
  <2>1. CASE y = x
    BY <1>1, <1>2, <1>3, <1>7, <2>1 DEF ResumingRun, ApprovedAsIs
  <2>2. CASE y # x
    <3>1. ResumingRun(y)
      BY <1>2, <1>7, <2>2 DEF SafeInv, RunsInv
    <3>2. threads'[runs[y].runtime].proposed_action = threads[runs[y].runtime].proposed_action
      BY <1>1, <1>3, <3>1 DEF StartingRun, ResumingRun
    <3>3. QED
      BY <1>2, <2>2, <3>1, <3>2 DEF ResumingRun, ApprovedAsIs
  <2>3. QED
    BY <2>1, <2>2
<1>8. RunsInv'
  BY <1>2, <1>6, <1>7 DEF SafeInv, RunsInv
<1>9. QED
  BY <1>4, <1>5, <1>8 DEF SafeInv

-----------------------------------------------------------------------------
\* The steps of the user, of Streamlit and of the page.

LEMMA UserSteps ==
    ASSUME SafeInv, NEW x \in Runs,
           (\E event \in Events : Click(x, event)) \/ Interrupt(x)
    PROVE  SafeInv'
<1>1. runs' \in [Runs -> ScriptRuns]
  <2>1. \A y \in Runs : [runs[y] EXCEPT !.stopped = TRUE] \in ScriptRuns
    BY DEF SafeInv, TypesUsed, ScriptRuns
  <2>2. \A event \in Events : [IdleRun EXCEPT !.at = "top", !.event = event] \in ScriptRuns
    BY DEF IdleRun, ScriptRuns, Places, EmptyCheckpoint, Checkpoints, Stages, Optional
  <2>3. QED
    BY <2>1, <2>2 DEF Click, Interrupt, SafeInv, TypesUsed
<1>2. ASSUME NEW y \in Runs
      PROVE  \/ runs'[y].at = "top"
             \/ /\ runs'[y].at = runs[y].at
                /\ runs'[y].event = runs[y].event
                /\ runs'[y].runtime = runs[y].runtime
                /\ runs'[y].checkpoint = runs[y].checkpoint
  <2>1. \/ runs'[y] = runs[y]
        \/ runs'[y] = [runs[y] EXCEPT !.stopped = TRUE]
        \/ \E event \in Events : runs'[y] = [IdleRun EXCEPT !.at = "top", !.event = event]
    BY DEF Click, Interrupt, SafeInv, TypesUsed
  <2>2. runs[y] \in ScriptRuns
    BY DEF SafeInv, TypesUsed
  <2>3. CASE runs'[y] = [runs[y] EXCEPT !.stopped = TRUE]
    BY <2>2, <2>3 DEF ScriptRuns
  <2>4. CASE \E event \in Events : runs'[y] = [IdleRun EXCEPT !.at = "top", !.event = event]
    BY <2>4 DEF IdleRun
  <2>5. QED
    BY <2>1, <2>3, <2>4
<1>3. /\ UNCHANGED <<runtimes, threads, journal, session, reviews>>
      /\ session' \in Optional(Runtimes)
  BY DEF Click, Interrupt, SafeInv, TypesUsed
<1>4. QED
  BY <1>1, <1>2, <1>3, CalmStep

\* A script run that moves on outside the runtimes, or ends.
LEMMA MovedRun ==
    ASSUME SafeInv, NEW x \in Runs, NEW place \in {"idle", "top", "submit", "render"},
           \/ runs' = [runs EXCEPT ![x].at = place]
           \/ runs' = [runs EXCEPT ![x] = [IdleRun EXCEPT !.at = place]],
           UNCHANGED <<runtimes, threads, journal>>,
           session' \in Optional(Runtimes), reviews \subseteq reviews'
    PROVE  SafeInv'
<1>1. runs' \in [Runs -> ScriptRuns]
  <2>1. [runs[x] EXCEPT !.at = place] \in ScriptRuns
    BY DEF SafeInv, TypesUsed, ScriptRuns, Places
  <2>2. EmptyCheckpoint \in Checkpoints
    BY DEF EmptyCheckpoint, Checkpoints, Stages, Optional
  <2>3. [IdleRun EXCEPT !.at = place] \in ScriptRuns
    BY <2>2 DEF ScriptRuns, Places, IdleRun, Optional, Events
  <2>4. QED
    BY <2>1, <2>3 DEF SafeInv, TypesUsed
<1>2. /\ \A y \in Runs \ {x} : runs'[y] = runs[y]
      /\ runs'[x].at = place
  BY DEF SafeInv, TypesUsed, ScriptRuns, IdleRun
<1>3. QED
  BY <1>1, <1>2, CalmStep

\* The click on the card: the payload it shows is that of the thread.
LEMMA RenderSafe ==
    ASSUME SafeInv, NEW x \in Runs, Render(x)
    PROVE  SafeInv'
<1>1. CASE ~(Phase(session) = "awaiting_approval" /\ runs[x].event \in DOMAIN DecisionOf)
  <2>1. runs' = [runs EXCEPT ![x] = [IdleRun EXCEPT !.at = "idle"]]
    BY <1>1 DEF Render, IdleRun
  <2>2. UNCHANGED <<runtimes, threads, journal, session, reviews>>
    BY <1>1 DEF Render
  <2>3. QED
    BY <2>1, <2>2, MovedRun DEF SafeInv, TypesUsed
<1>2. CASE Phase(session) = "awaiting_approval" /\ runs[x].event \in DOMAIN DecisionOf
  <2>1. /\ session \in Runtimes /\ runtimes[session] # None
        /\ runtimes[session].phase = "awaiting_approval"
    BY <1>2 DEF Phase, SafeInv, TypesUsed, Optional
  <2>2. /\ runs' = [runs EXCEPT ![x].at = "resume", ![x].runtime = session]
        /\ UNCHANGED <<runtimes, threads, journal, session>>
        /\ reviews' = reviews \cup
               {[runtime |-> session, shown |-> runtimes[session].interrupt_payload,
                 decision |-> DecisionOf[runs[x].event], run |-> x]}
    BY <1>2 DEF Render
  <2>3. /\ runs' \in [Runs -> ScriptRuns]
        /\ \A y \in Runs \ {x} : runs'[y] = runs[y]
        /\ runs'[x].at = "resume" /\ runs'[x].runtime = session
        /\ runs'[x].event = runs[x].event
    BY <2>1, <2>2 DEF SafeInv, TypesUsed, ScriptRuns, Places, Optional
  <2>4. Review(x, session, threads[session].proposed_action, DecisionOf[runs[x].event])
            \in reviews'
    BY <2>1, <2>2 DEF SafeInv, RuntimesInv, Review
  <2>5. ResumingRun(x)'
    BY <1>2, <2>1, <2>2, <2>3, <2>4 DEF ResumingRun, SafeInv, RuntimesInv
  <2>6. session' \in Optional(Runtimes)
    BY <2>2 DEF SafeInv, TypesUsed
  <2>7. QED
    BY <2>2, <2>3, <2>5, <2>6, CalmStep
<1>3. QED
  BY <1>1, <1>2

\* A new runtime has a thread of its own, which nobody else works on.
LEMMA SubmitCaseSafe ==
    ASSUME SafeInv, NEW x \in Runs, NEW n \in Runtimes, SubmitCase(x, n)
    PROVE  SafeInv'
<1> DEFINE fresh == [phase |-> "idle", latest_state |-> None,
                     interrupt_payload |-> None, error_message |-> None]
<1>1. /\ runtimes[n] = None /\ threads[n] = EmptyCheckpoint
      /\ runs[x].at = "submit"
      /\ UNCHANGED <<session, threads, stores, reviews, journal>>
  BY DEF SubmitCase, At, SafeInv, RuntimesInv
<1>2. /\ runs' \in [Runs -> ScriptRuns]
      /\ \A y \in Runs \ {x} : runs'[y] = runs[y]
      /\ runs'[x].at = "starting" /\ runs'[x].runtime = n
      /\ runs'[x].checkpoint = threads[n]
  <2> DEFINE begun == [runs[x] EXCEPT !.at = "starting", !.runtime = n,
                                      !.checkpoint = threads[n]]
  <2>1. threads[n] \in Checkpoints /\ runs[x] \in ScriptRuns
    BY DEF SafeInv, TypesUsed
  <2>2. begun \in ScriptRuns
    BY <2>1 DEF ScriptRuns, Places, Optional
  <2>3. /\ begun.at = "starting" /\ begun.runtime = n
        /\ begun.checkpoint = threads[n]
    BY <2>1 DEF ScriptRuns
  <2>4. runs \in [Runs -> ScriptRuns] /\ runs' = [runs EXCEPT ![x] = begun]
    BY DEF SubmitCase, SafeInv, TypesUsed
  <2> HIDE DEF begun
  <2>5. QED
    BY <2>2, <2>3, <2>4
<1>3. fresh \in DemoRuntimes /\ fresh # None /\ fresh.phase = "idle"
  <2>1. fresh \in DemoRuntimes
    BY DEF DemoRuntimes, DemoPhases, Optional
  <2>2. QED
    BY <2>1, AbsentAssumption
<1>4. /\ runtimes' \in [Runtimes -> Optional(DemoRuntimes)]
      /\ \A m \in Runtimes : runtimes'[m] = IF m = n THEN fresh ELSE runtimes[m]
  BY <1>3 DEF SubmitCase, SafeInv, TypesUsed, Optional
<1>5. TypesUsed'
  BY <1>1, <1>2, <1>4 DEF SafeInv, TypesUsed
<1>6. RuntimesInv'
  BY <1>1, <1>3, <1>4 DEF SafeInv, RuntimesInv, ApprovedAsIs
<1>7. OnlyWhatWasApproved'
  BY <1>1 DEF SafeInv, OnlyWhatWasApproved
<1>8. \A y \in Runs : runs[y].at \in {"starting", "resume", "loading", "resuming"} =>
                          runs[y].runtime # n
  BY <1>1 DEF SafeInv, RunsInv, StartingRun, ResumingRun
<1>9. ASSUME NEW y \in Runs, runs'[y].at = "starting" PROVE StartingRun(y)'
  <2>1. CASE y = x
    <3>1. threads[n].human_decision = None /\ threads[n].next = "START"
      BY <1>1 DEF EmptyCheckpoint
    <3>2. QED
      BY <1>1, <1>2, <1>3, <1>4, <1>8, <2>1, <3>1 DEF StartingRun
  <2>2. CASE y # x
    BY <1>1, <1>2, <1>4, <1>8, <1>9, <2>2 DEF SafeInv, RunsInv, StartingRun
  <2>3. QED
    BY <2>1, <2>2
<1>10. ASSUME NEW y \in Runs, runs'[y].at \in {"resume", "loading", "resuming"}
       PROVE  ResumingRun(y)'
  BY <1>1, <1>2, <1>4, <1>8, <1>10 DEF SafeInv, RunsInv, ResumingRun, ApprovedAsIs
<1>11. RunsInv'
  BY <1>2, <1>9, <1>10 DEF SafeInv, RunsInv
<1>12. QED
  BY <1>5, <1>6, <1>7, <1>11 DEF SafeInv

LEMMA PageSteps ==
    ASSUME SafeInv, NEW x \in Runs, PageStep(x)
    PROVE  SafeInv'
<1>1. CASE Stop(x)
  <2>1. runs' = [runs EXCEPT ![x] = [IdleRun EXCEPT !.at = "idle"]]
    BY <1>1 DEF Stop, IdleRun
  <2>2. QED
    BY <1>1, <2>1, MovedRun DEF Stop, SafeInv, TypesUsed
<1>2. CASE Top(x)
  <2>1. \E place \in {"submit", "render"} : runs' = [runs EXCEPT ![x].at = place]
    BY <1>2 DEF Top
  <2>2. session' \in Optional(Runtimes)
    BY <1>2 DEF Top, SafeInv, TypesUsed, Optional
  <2>3. QED
    BY <1>2, <2>1, <2>2, MovedRun DEF Top
<1>3. CASE SubmitBlank(x)
  BY <1>3, MovedRun DEF SubmitBlank, SafeInv, TypesUsed
<1>4. CASE \E n \in Runtimes : SubmitCase(x, n)
  BY <1>4, SubmitCaseSafe
<1>5. CASE Render(x)
  BY <1>5, RenderSafe
<1>6. CASE Publish(x)
  <2>1. session' \in Optional(Runtimes)
    BY <1>6 DEF Publish, At, SafeInv, RunsInv, Optional
  <2>2. QED
    BY <1>6, <2>1, MovedRun DEF Publish
<1>7. QED
  BY <1>1, <1>2, <1>3, <1>4, <1>5, <1>6 DEF PageStep

-----------------------------------------------------------------------------
\* The steps of demo_runtime.py.

\* A failed invoke marks its runtime, or leaves it behind if it was starting.
LEMMA FailSafe ==
    ASSUME SafeInv, NEW x \in Runs, runs[x].at \in {"starting", "resuming"},
           NEW exception, Fail(x, exception)
    PROVE  SafeInv'
<1>1. CASE runs[x].at = "starting"
  BY <1>1, MovedRun DEF Fail, SafeInv, TypesUsed
<1>2. CASE runs[x].at = "resuming"
  <2> DEFINE n == runs[x].runtime
             r == MarkError(runtimes[n], exception)
  <2>1. n \in Runtimes /\ runtimes[n] \in DemoRuntimes
    BY <1>2 DEF SafeInv, RunsInv, ResumingRun, TypesUsed, Optional
  <2>2. SafeErrorMessage(exception) \in SafeMessages
    BY DEF SafeErrorMessage, SafeMessages
  <2>3. r \in DemoRuntimes /\ r.phase = "error"
    BY <2>1, <2>2 DEF MarkError, DemoRuntimes, DemoPhases, Optional
  <2>4. /\ runtimes' = [runtimes EXCEPT ![n] = r]
        /\ runs' = [runs EXCEPT ![x].at = "publish"]
        /\ UNCHANGED <<session, threads, reviews, journal>>
    BY <1>2, <2>1 DEF Fail, SafeInv, TypesUsed
  <2>5. QED
    BY <1>2, <2>3, <2>4, PhaseStep
<1>3. QED
  BY <1>1, <1>2

\* An error is a runtime in phase "error".
LEMMA MarkErrorType ==
    ASSUME NEW r \in DemoRuntimes, NEW exception
    PROVE  MarkError(r, exception) \in DemoRuntimes /\ MarkError(r, exception).phase = "error"
  BY DEF MarkError, DemoRuntimes, DemoPhases, Optional, SafeErrorMessage, SafeMessages

LEMMA ResumeCheckSafe ==
    ASSUME SafeInv, NEW x \in Runs, ResumeCheck(x)
    PROVE  SafeInv'
<1> DEFINE n == runs[x].runtime
<1>1. runs[x].at = "resume" /\ ResumingRun(x)
  BY DEF ResumeCheck, At, SafeInv, RunsInv
<1>2. CASE Phase(n) = "awaiting_approval"
  <2>1. /\ runs' = [runs EXCEPT ![x].at = "loading"]
        /\ UNCHANGED <<session, runtimes, threads, reviews, journal>>
    BY <1>2 DEF ResumeCheck
  <2>2. /\ runs' \in [Runs -> ScriptRuns]
        /\ \A y \in Runs \ {x} : runs'[y] = runs[y]
        /\ runs'[x].at = "loading" /\ runs'[x].runtime = n
        /\ runs'[x].event = runs[x].event
    BY <2>1 DEF SafeInv, TypesUsed, ScriptRuns, Places
  <2>3. ResumingRun(x)'
    BY <1>1, <2>1, <2>2 DEF ResumingRun
  <2>4. session' \in Optional(Runtimes)
    BY <2>1 DEF SafeInv, TypesUsed
  <2>5. QED
    BY <2>1, <2>2, <2>3, <2>4, CalmStep
<1>3. CASE Phase(n) # "awaiting_approval"
  <2> DEFINE r == MarkError(runtimes[n], "DemoRuntimeError")
  <2>1. n \in Runtimes /\ runtimes[n] \in DemoRuntimes
    BY <1>1 DEF SafeInv, ResumingRun, TypesUsed, Optional
  <2>2. r \in DemoRuntimes /\ r.phase = "error"
    BY <2>1, MarkErrorType
  <2>3. /\ runtimes' = [runtimes EXCEPT ![n] = r]
        /\ runs' = [runs EXCEPT ![x].at = "publish"]
        /\ UNCHANGED <<session, threads, reviews, journal>>
    BY <1>3, <2>1 DEF ResumeCheck, SafeInv, TypesUsed
  <2>4. QED
    BY <1>1, <2>2, <2>3, PhaseStep
<1>4. QED
  BY <1>2, <1>3

\* The checkpoint that is loaded has the proposed action the card showed, and
\* was approved as it is if it records an approval.
LEMMA ResumeLoadSafe ==
    ASSUME SafeInv, NEW x \in Runs, ResumeLoad(x)
    PROVE  SafeInv'
<1> DEFINE n == runs[x].runtime
<1>1. /\ ResumingRun(x)
      /\ runs' = [runs EXCEPT ![x].at = "resuming", ![x].checkpoint = threads[n]]
      /\ UNCHANGED <<session, runtimes, threads, reviews, journal>>
  BY DEF ResumeLoad, At, SafeInv, RunsInv
<1>2. n \in Runtimes /\ threads[n] \in Checkpoints
  BY <1>1 DEF ResumingRun, SafeInv, TypesUsed
<1>3. /\ runs' \in [Runs -> ScriptRuns]
      /\ \A y \in Runs \ {x} : runs'[y] = runs[y]
      /\ runs'[x].at = "resuming" /\ runs'[x].runtime = n
      /\ runs'[x].event = runs[x].event /\ runs'[x].checkpoint = threads[n]
  BY <1>1, <1>2 DEF SafeInv, TypesUsed, ScriptRuns, Places
<1>4. ApprovedAsIs(n, threads[n])
  BY <1>2 DEF SafeInv, RuntimesInv
<1>5. ResumingRun(x)'
  BY <1>1, <1>3, <1>4 DEF ResumingRun, ApprovedAsIs
<1>6. session' \in Optional(Runtimes)
  BY <1>1 DEF SafeInv, TypesUsed
<1>7. QED
  BY <1>1, <1>3, <1>5, <1>6, CalmStep

\* The payload of a runtime that pauses is built from its thread's checkpoint.
LEMMA StartOpens ==
    ASSUME SafeInv, NEW x \in Runs, StartReturns(x)
    PROVE  \E r \in DemoRuntimes :
               /\ runs[x].at = "starting" /\ r.phase # "idle"
               /\ r.phase = "awaiting_approval" =>
                     /\ threads[runs[x].runtime].proposed_action # None
                     /\ r.interrupt_payload =
                           BuildApprovalRequest(runs[x].runtime,
                                                threads[runs[x].runtime].proposed_action)
               /\ runtimes' = [runtimes EXCEPT ![runs[x].runtime] = r]
               /\ runs' = [runs EXCEPT ![x].at = "publish"]
               /\ UNCHANGED <<session, threads, reviews, journal>>
<1> DEFINE n == runs[x].runtime
           c == runs[x].checkpoint
           paused == c.next = "human_approval"
           r == [phase |-> IF paused THEN "awaiting_approval" ELSE "completed",
                 latest_state |-> c,
                 interrupt_payload |-> IF paused
                     THEN BuildApprovalRequest(n, c.proposed_action) ELSE None,
                 error_message |-> None]
<1>1. runs[x].at = "starting" /\ StartingRun(x)
  BY DEF StartReturns, At, SafeInv, RunsInv
<1>2. n \in Runtimes /\ c \in Checkpoints /\ c = threads[n]
  BY <1>1 DEF StartingRun, SafeInv, TypesUsed, ScriptRuns
<1>3. paused => /\ c.proposed_action # None
                /\ c.proposed_action \in ProposedActions
  BY <1>1, <1>2 DEF StartingRun, Checkpoints, Optional
<1>4. paused => BuildApprovalRequest(n, c.proposed_action) \in ApprovalRequests(Runtimes)
  BY <1>2, <1>3 DEF BuildApprovalRequest, ApprovalRequests, ProposedActions
<1>5. r \in DemoRuntimes /\ r.phase # "idle"
  BY <1>2, <1>4 DEF DemoRuntimes, DemoPhases, Optional
<1>6. r.phase = "awaiting_approval" =>
          /\ threads[n].proposed_action # None
          /\ r.interrupt_payload = BuildApprovalRequest(n, threads[n].proposed_action)
  BY <1>2, <1>3
<1>7. /\ runtimes' = [runtimes EXCEPT ![n] = r]
      /\ runs' = [runs EXCEPT ![x].at = "publish"]
      /\ UNCHANGED <<session, threads, reviews, journal>>
  BY DEF StartReturns
<1> HIDE DEF r
<1>8. QED
  BY <1>1, <1>5, <1>6, <1>7

LEMMA StartReturnsSafe ==
    ASSUME SafeInv, NEW x \in Runs, StartReturns(x)
    PROVE  SafeInv'
  BY StartOpens, PhaseStep

LEMMA ResumeCloses ==
    ASSUME SafeInv, NEW x \in Runs, ResumeReturns(x)
    PROVE  \E r \in DemoRuntimes :
               /\ runs[x].at = "resuming" /\ r.phase = "completed"
               /\ runtimes' = [runtimes EXCEPT ![runs[x].runtime] = r]
               /\ runs' = [runs EXCEPT ![x].at = "publish"]
               /\ UNCHANGED <<session, threads, reviews, journal>>
<1> DEFINE n == runs[x].runtime
           r == [phase |-> "completed", latest_state |-> runs[x].checkpoint,
                 interrupt_payload |-> None, error_message |-> None]
<1>1. runs[x].checkpoint \in Checkpoints
  BY DEF SafeInv, TypesUsed, ScriptRuns
<1>2. r \in DemoRuntimes /\ r.phase = "completed"
  BY <1>1 DEF DemoRuntimes, DemoPhases, Optional
<1>3. /\ runs[x].at = "resuming"
      /\ runtimes' = [runtimes EXCEPT ![n] = r]
      /\ runs' = [runs EXCEPT ![x].at = "publish"]
      /\ UNCHANGED <<session, threads, reviews, journal>>
  BY DEF ResumeReturns, At
<1> HIDE DEF r
<1>4. QED
  BY <1>2, <1>3

LEMMA ResumeReturnsSafe ==
    ASSUME SafeInv, NEW x \in Runs, ResumeReturns(x)
    PROVE  SafeInv'
  BY ResumeCloses, PhaseStep

LEMMA RuntimeSteps ==
    ASSUME SafeInv, NEW x \in Runs, RuntimeStep(x)
    PROVE  SafeInv'
  BY StartReturnsSafe, ResumeCheckSafe, ResumeLoadSafe, ResumeReturnsSafe DEF RuntimeStep

-----------------------------------------------------------------------------
\* The steps of the graph.

\* The one step that executes: a sensitive operation must be on review, and
\* a resume must execute what its checkpoint proposes.
LEMMA ExecuteStep ==
    ASSUME SafeInv, NEW x \in Runs, runs[x].at \in {"starting", "resuming"},
           NEW proposed \in ProposedActions, NEW address, NEW s, NEW approved,
           ~ExecutionFails(proposed, PrepareActionInput(proposed, address), s, approved),
           proposed.action_type \in ApprovalRequiredActionTypes =>
               \E y \in Runs : Review(y, runs[x].runtime, proposed, "approved") \in reviews,
           runs[x].at = "resuming" => proposed = runs[x].checkpoint.proposed_action,
           Execute(x, proposed, address, runs[x].checkpoint)
    PROVE  SafeInv'
<1> DEFINE n == runs[x].runtime
           op == [action_type |-> proposed.action_type, order_id |-> proposed.order_id]
           result == ExecutionResult(proposed, PrepareActionInput(proposed, address))
           c == [runs[x].checkpoint EXCEPT !.next = "final_response",
                                           !.proposed_action = proposed,
                                           !.action_result = result]
<1>1. /\ n \in Runtimes
      /\ runs[x].at = "starting" => StartingRun(x)
      /\ runs[x].at = "resuming" => ResumingRun(x)
      /\ runs[x].checkpoint \in Checkpoints
  BY DEF SafeInv, RunsInv, StartingRun, ResumingRun, TypesUsed, ScriptRuns
<1>2. op \in Operations
  BY DEF Operations, ProposedActions
<1>3. result \in ActionResults
  <2>1. PrepareActionInput(proposed, address).ready
    BY DEF ExecutionFails
  <2>2. PrepareActionInput(proposed, address).order_id = proposed.order_id
    BY <2>1 DEF PrepareActionInput
  <2>3. QED
    BY <2>2 DEF ExecutionResult, ActionResults, ProposedActions
<1>4. /\ c \in Checkpoints
      /\ c.next = "final_response" /\ c.proposed_action = proposed
      /\ c.human_decision = runs[x].checkpoint.human_decision
  <2>1. \A q \in Checkpoints :
            LET d == [q EXCEPT !.next = "final_response", !.proposed_action = proposed,
                               !.action_result = result]
            IN  /\ d \in Checkpoints
                /\ d.next = "final_response" /\ d.proposed_action = proposed
                /\ d.human_decision = q.human_decision
    BY <1>3 DEF Checkpoints, Stages, Optional
  <2>2. QED
    BY <1>1, <2>1
<1>5. /\ journal' = [journal EXCEPT ![n] = Append(journal[n], op)]
      /\ Save(x, c)
      /\ UNCHANGED <<session, runtimes, reviews>>
  BY <1>1 DEF Execute, SafeInv, TypesUsed
<1>6. journal' \in [Runtimes -> Seq(Operations)]
  BY <1>1, <1>2, <1>5 DEF SafeInv, TypesUsed
<1>7. OnlyWhatWasApproved'
  <2> SUFFICES ASSUME NEW m \in Runtimes, NEW i \in DOMAIN journal'[m],
                      IsSensitive(journal'[m][i])
               PROVE  \E v \in reviews' :
                          /\ v.runtime = m /\ v.decision = "approved"
                          /\ v.shown = [request_id  |-> m,
                                        action_type |-> journal'[m][i].action_type,
                                        order_id    |-> journal'[m][i].order_id]
    BY DEF OnlyWhatWasApproved, IsSensitive
  <2>1. CASE i \in DOMAIN journal[m] /\ journal'[m][i] = journal[m][i]
    BY <1>5, <2>1 DEF SafeInv, OnlyWhatWasApproved
  <2>2. CASE m = n /\ journal'[m][i] = op
    <3>1. proposed.action_type \in ApprovalRequiredActionTypes
      BY <2>2 DEF IsSensitive
    <3>2. PICK y \in Runs : Review(y, n, proposed, "approved") \in reviews
      BY <3>1
    <3>3. QED
      BY <1>5, <2>2, <3>2 DEF Review, BuildApprovalRequest
  <2>3. \/ i \in DOMAIN journal[m] /\ journal'[m][i] = journal[m][i]
        \/ m = n /\ journal'[m][i] = op
    <3>1. journal[m] \in Seq(Operations)
      BY DEF SafeInv, TypesUsed
    <3>2. journal'[m] = IF m = n THEN Append(journal[m], op) ELSE journal[m]
      BY <1>1, <1>5 DEF SafeInv, TypesUsed
    <3>3. CASE m = n
      <4>1. i \in 1..(Len(journal[m]) + 1)
        BY <1>2, <3>1, <3>2, <3>3
      <4>2. QED
        BY <1>2, <3>1, <3>2, <3>3, <4>1
    <3>4. QED
      BY <3>2, <3>3
  <2>4. QED
    BY <2>1, <2>2, <2>3
<1>8. ApprovedAsIs(n, c)
  <2>1. proposed # None
    BY AbsentAssumption
  <2>2. CASE runs[x].at = "starting"
    BY <1>1, <1>4, <2>2, AbsentAssumption DEF ApprovedAsIs, StartingRun, Decisions
  <2>3. CASE runs[x].at = "resuming"
    BY <1>1, <1>4, <2>1, <2>3 DEF ApprovedAsIs, ResumingRun
  <2>4. QED
    BY <2>2, <2>3
<1>9. /\ runs[x].at = "starting" => c.human_decision = None
      /\ runs[x].at = "resuming" => c.proposed_action = runs[x].checkpoint.proposed_action
      /\ c.next # "human_approval"
  BY <1>1, <1>4 DEF StartingRun
<1> HIDE DEF c
<1>10. QED
  BY <1>4, <1>5, <1>6, <1>7, <1>8, <1>9, SaveStep

\* A superstep that executes nothing.
LEMMA SaveOnlyStep ==
    ASSUME SafeInv, NEW x \in Runs, runs[x].at \in {"starting", "resuming"},
           NEW c \in Checkpoints, SaveOnly(x, c),
           ApprovedAsIs(runs[x].runtime, c),
           runs[x].at = "starting" =>
               /\ c.human_decision = None
               /\ c.next = "human_approval" => c.proposed_action # None,
           runs[x].at = "resuming" =>
               c.proposed_action = runs[x].checkpoint.proposed_action
    PROVE  SafeInv'
<1>1. OnlyWhatWasApproved' /\ journal' \in [Runtimes -> Seq(Operations)]
  BY DEF SaveOnly, SafeInv, TypesUsed, OnlyWhatWasApproved
<1>2. Save(x, c) /\ UNCHANGED <<session, runtimes, reviews>>
  BY DEF SaveOnly
<1>3. QED
  BY <1>1, <1>2, SaveStep

LEMMA ProposalsTyped == Proposals \subseteq ProposedActions
<1>1. \A i \in DOMAIN ActionTypeByIntent, o \in Orders : ~ProposalFails(i, o)
  BY StoreAssumption DEF ProposalFails
<1>2. QED
  BY <1>1, ProposeActionType DEF Proposals

\* Before the pause only an action that needs no approval is executed.
LEMMA FirstNodesSafe ==
    ASSUME SafeInv, NEW x \in Runs, FirstNodes(x)
    PROVE  SafeInv'
<1> DEFINE n == runs[x].runtime
           c == runs[x].checkpoint
<1>1. runs[x].at = "starting" /\ StartingRun(x) /\ c \in Checkpoints
  BY DEF FirstNodes, At, SafeInv, RunsInv, TypesUsed, ScriptRuns
<1>2. c.human_decision = None /\ None # "approved"
  BY <1>1, AbsentAssumption DEF StartingRun, Decisions
<1>3. CASE Fail(x, "ClassificationError")
  BY <1>1, <1>3, FailSafe
<1>4. CASE SaveOnly(x, [c EXCEPT !.next = "final_response"])
  <2> DEFINE d == [c EXCEPT !.next = "final_response"]
  <2>1. /\ d \in Checkpoints /\ d.next = "final_response"
        /\ d.human_decision = None
    BY <1>1, <1>2 DEF Checkpoints, Stages
  <2>2. ApprovedAsIs(n, d)
    BY <1>2, <2>1 DEF ApprovedAsIs
  <2> HIDE DEF d
  <2>3. QED
    BY <1>1, <1>4, <2>1, <2>2, SaveOnlyStep DEF d
<1>5. ASSUME NEW proposed \in Proposals, NEW address \in Optional(Addresses),
             Allowed(stores[n], proposed, address), proposed.requires_human_approval,
             SaveOnly(x, [c EXCEPT !.next = "human_approval", !.proposed_action = proposed])
      PROVE  SafeInv'
  <2> DEFINE d == [c EXCEPT !.next = "human_approval", !.proposed_action = proposed]
  <2>1. proposed \in ProposedActions /\ proposed # None
    BY ProposalsTyped, AbsentAssumption
  <2>2. /\ d \in Checkpoints /\ d.next = "human_approval"
        /\ d.human_decision = None /\ d.proposed_action # None
    BY <1>1, <1>2, <2>1 DEF Checkpoints, Stages, Optional
  <2>3. ApprovedAsIs(n, d)
    BY <1>2, <2>2 DEF ApprovedAsIs
  <2>4. SaveOnly(x, d)
    BY <1>5
  <2> HIDE DEF d
  <2>5. QED
    BY <1>1, <2>2, <2>3, <2>4, SaveOnlyStep
<1>6. ASSUME NEW proposed \in Proposals, NEW address \in Optional(Addresses),
             Allowed(stores[n], proposed, address), ~proposed.requires_human_approval,
             Execute(x, proposed, address, c)
      PROVE  SafeInv'
  <2>1. proposed \in ProposedActions
    BY ProposalsTyped
  <2>2. proposed.action_type \notin ApprovalRequiredActionTypes
    BY <1>6 DEF Allowed, ExecutionFails
  <2>3. ~ExecutionFails(proposed, PrepareActionInput(proposed, address), stores[n],
                        proposed.requires_human_approval)
    BY <1>6 DEF Allowed
  <2>4. QED
    BY <1>1, <1>6, <2>1, <2>2, <2>3, ExecuteStep
<1>7. QED
  BY <1>3, <1>4, <1>5, <1>6 DEF FirstNodes

\* The decision that is saved is the one the card's click was recorded with.
LEMMA HumanApprovalSafe ==
    ASSUME SafeInv, NEW x \in Runs, HumanApproval(x)
    PROVE  SafeInv'
<1> DEFINE n == runs[x].runtime
           c == runs[x].checkpoint
           decision == ParseHumanApprovalResponse(DecisionOf[runs[x].event])
           d == [c EXCEPT !.human_decision = decision,
                          !.next = IF decision = "approved" THEN "execute_approved_action"
                                                            ELSE "approval_rejected"]
<1>1. /\ runs[x].at = "resuming" /\ ResumingRun(x) /\ c \in Checkpoints
      /\ SaveOnly(x, d)
  BY DEF HumanApproval, At, SafeInv, RunsInv, TypesUsed, ScriptRuns
<1>2. decision = DecisionOf[runs[x].event] /\ decision \in Decisions
  BY <1>1 DEF ResumingRun, DecisionOf, ParseHumanApprovalResponse, Decisions
<1> HIDE DEF decision
<1>3. /\ d \in Checkpoints
      /\ d.human_decision = decision /\ d.proposed_action = c.proposed_action
  BY <1>1, <1>2 DEF Checkpoints, Stages, Optional
<1>4. ApprovedAsIs(n, d)
  BY <1>1, <1>2, <1>3 DEF ApprovedAsIs, ResumingRun
<1> HIDE DEF d
<1>5. QED
  BY <1>1, <1>3, <1>4, SaveOnlyStep

\* The executor insists on the approval, which was given for its operation.
LEMMA ExecuteApprovedActionSafe ==
    ASSUME SafeInv, NEW x \in Runs, ExecuteApprovedAction(x)
    PROVE  SafeInv'
<1> DEFINE n == runs[x].runtime
           c == runs[x].checkpoint
           input == PrepareActionInput(c.proposed_action, None)
           fails == ExecutionFails(c.proposed_action, input, stores[n],
                                   c.human_decision = "approved")
<1>1. runs[x].at = "resuming" /\ ResumingRun(x) /\ c \in Checkpoints
  BY DEF ExecuteApprovedAction, At, SafeInv, RunsInv, TypesUsed, ScriptRuns
<1>2. CASE fails
  BY <1>1, <1>2, FailSafe DEF ExecuteApprovedAction
<1>3. CASE ~fails
  <2>1. c.proposed_action \in ProposedActions
    BY <1>1 DEF ResumingRun, Checkpoints, Optional
  <2>2. c.proposed_action.action_type \in ApprovalRequiredActionTypes =>
            c.human_decision = "approved"
    BY <1>3 DEF ExecutionFails
  <2>3. c.proposed_action.action_type \in ApprovalRequiredActionTypes =>
            \E y \in Runs : Review(y, n, c.proposed_action, "approved") \in reviews
    BY <1>1, <2>2 DEF ResumingRun, ApprovedAsIs
  <2>4. Execute(x, c.proposed_action, None, c)
    BY <1>3 DEF ExecuteApprovedAction
  <2>5. QED
    BY <1>1, <1>3, <2>1, <2>3, <2>4, ExecuteStep
<1>4. QED
  BY <1>2, <1>3

\* The closing supersteps keep the decision and the proposed action.
LEMMA ClosingStep ==
    ASSUME SafeInv, NEW x \in Runs, runs[x].at \in {"starting", "resuming"},
           NEW d, d \in {[runs[x].checkpoint EXCEPT !.next = "final_response"],
                         [runs[x].checkpoint EXCEPT !.next = "END", !.final_response = TRUE]},
           SaveOnly(x, d)
    PROVE  SafeInv'
<1> DEFINE c == runs[x].checkpoint
<1>1. /\ c \in Checkpoints
      /\ runs[x].at = "starting" => StartingRun(x)
      /\ runs[x].at = "resuming" => ResumingRun(x)
  BY DEF SafeInv, RunsInv, TypesUsed, ScriptRuns
<1>2. /\ d \in Checkpoints /\ d.next # "human_approval"
      /\ d.human_decision = c.human_decision /\ d.proposed_action = c.proposed_action
  <2>1. \A q \in Checkpoints :
            /\ [q EXCEPT !.next = "final_response"] \in Checkpoints
            /\ [q EXCEPT !.next = "END", !.final_response = TRUE] \in Checkpoints
    BY DEF Checkpoints, Stages
  <2>2. d \in Checkpoints
    BY <1>1, <2>1
  <2>3. d.next # "human_approval"
    BY <1>1 DEF Checkpoints
  <2>4. d.human_decision = c.human_decision
    BY <1>1 DEF Checkpoints
  <2>5. d.proposed_action = c.proposed_action
    BY <1>1 DEF Checkpoints
  <2>6. QED
    BY <2>2, <2>3, <2>4, <2>5
<1>3. ApprovedAsIs(runs[x].runtime, d)
  <2>1. runs[x].at = "starting" => d.human_decision # "approved"
    BY <1>1, <1>2, AbsentAssumption DEF StartingRun, Decisions
  <2>2. QED
    BY <1>1, <1>2, <2>1 DEF ApprovedAsIs, ResumingRun
<1>4. runs[x].at = "starting" => d.human_decision = None
  BY <1>1, <1>2 DEF StartingRun
<1>5. QED
  BY <1>2, <1>3, <1>4, SaveOnlyStep

LEMMA InvokeSteps ==
    ASSUME SafeInv, NEW x \in Runs, InvokeStep(x)
    PROVE  SafeInv'
<1>1. CASE FirstNodes(x)
  BY <1>1, FirstNodesSafe
<1>2. CASE HumanApproval(x)
  BY <1>2, HumanApprovalSafe
<1>3. CASE ExecuteApprovedAction(x)
  BY <1>3, ExecuteApprovedActionSafe
<1>4. CASE ApprovalRejected(x)
  BY <1>4, ClosingStep DEF ApprovalRejected, At
<1>5. CASE FinalResponse(x)
  BY <1>5, ClosingStep, FailSafe DEF FinalResponse
<1>6. QED
  BY <1>1, <1>2, <1>3, <1>4, <1>5 DEF InvokeStep

-----------------------------------------------------------------------------
LEMMA SafeInit == Init => SafeInv
<1> SUFFICES ASSUME Init PROVE SafeInv
  OBVIOUS
<1>1. EmptyCheckpoint \in Checkpoints
  BY DEF EmptyCheckpoint, Checkpoints, Stages, Optional
<1>2. IdleRun \in ScriptRuns
  BY <1>1 DEF IdleRun, ScriptRuns, Places, Events, Optional
<1>3. TypesUsed
  BY <1>1, <1>2 DEF Init, TypesUsed, Optional
<1>4. RunsInv
  BY DEF Init, RunsInv, IdleRun
<1>5. RuntimesInv
  <2>1. EmptyCheckpoint.human_decision # "approved"
    BY AbsentAssumption DEF EmptyCheckpoint, Decisions
  <2>2. QED
    BY <2>1 DEF Init, RuntimesInv, ApprovedAsIs
<1>6. OnlyWhatWasApproved
  BY DEF Init, OnlyWhatWasApproved
<1>7. QED
  BY <1>3, <1>4, <1>5, <1>6 DEF SafeInv

LEMMA SafeStep == SafeInv /\ [Next]_vars => SafeInv'
<1> SUFFICES ASSUME SafeInv, [Next]_vars PROVE SafeInv'
  OBVIOUS
<1>1. ASSUME NEW x \in Runs, (\E event \in Events : Click(x, event)) \/ Interrupt(x)
      PROVE  SafeInv'
  BY <1>1, UserSteps
<1>2. ASSUME NEW x \in Runs, ScriptStep(x) PROVE SafeInv'
  BY <1>2, InvokeSteps, RuntimeSteps, PageSteps DEF ScriptStep
<1>3. CASE UNCHANGED vars
  BY <1>3 DEF vars, SafeInv, TypesUsed, RunsInv, RuntimesInv, StartingRun, ResumingRun,
              ApprovedAsIs, OnlyWhatWasApproved
<1>4. QED
  BY <1>1, <1>2, <1>3 DEF Next

\* However clicks, stops and script runs of any number of runtimes overlap, a
\* runtime's store executes a sensitive operation (a refund or an
\* investigation) only after "Aprobar" was clicked on the card of that
\* runtime while it showed that very operation.
THEOREM DemoExecutesOnlyWhatWasApproved == Spec => []OnlyWhatWasApproved
<1>1. SafeInv => OnlyWhatWasApproved
  BY DEF SafeInv
<1>2. QED
  BY <1>1, SafeInit, SafeStep, PTL DEF Spec

-----------------------------------------------------------------------------
\* What a run knows of the session.

\* A run that may go on past its next call into st.
Live(x) == Alive(x) /\ ~runs[x].stopped

\* Runtime n was returned by start_demo_case.
Opened(n) == runtimes[n] # None /\ runtimes[n].phase # "idle"

Unreviewed(n) == \A v \in reviews : v.runtime # n

\* What a live run knows of the session.
Focus(x) ==
    /\ runs[x].at \in {"submit", "starting"} => Phase(session) # "awaiting_approval"
    /\ runs[x].at \in {"resume", "loading", "resuming"} => runs[x].runtime = session
    /\ runs[x].at = "publish" =>
           \/ runs[x].runtime = session
           \/ Phase(session) # "awaiting_approval" /\ Unreviewed(runs[x].runtime)

OpenedInv ==
    /\ session # None => Opened(session)
    /\ \A v \in reviews : v.runtime \in Runtimes /\ Opened(v.runtime)
    /\ \A x \in Runs : runs[x].at = "publish" => Opened(runs[x].runtime)

FocusInv ==
    /\ \A x, y \in Runs : Live(x) /\ Live(y) => x = y
    /\ \A x \in Runs : Live(x) => Focus(x)

SessionInv == SafeInv /\ OpenedInv /\ FocusInv

-----------------------------------------------------------------------------
\* Steps by what they change.

\* A run moves on; the session and the reviews stay.
LEMMA SessionStays ==
    ASSUME OpenedInv, FocusInv, NEW x \in Runs,
           UNCHANGED <<session, reviews>>, \A y \in Runs \ {x} : runs'[y] = runs[y],
           session \in Optional(Runtimes), \A n \in Runtimes : Opened(n) => Opened(n)',
           Phase(session)' = "awaiting_approval" => Phase(session) = "awaiting_approval",
           Live(x)' => Live(x) /\ Focus(x)',
           runs'[x].at = "publish" => Opened(runs[x].runtime)',
           \A y \in Runs : runs[y].at = "publish" => runs[y].runtime \in Runtimes
    PROVE  OpenedInv' /\ FocusInv'
<1>1. OpenedInv'
  <2>1. session # None => Opened(session)'
    BY DEF OpenedInv, Optional, Opened
  <2>2. QED
    BY <2>1 DEF OpenedInv
<1>2. ASSUME NEW y \in Runs, Live(y)' PROVE Live(y) /\ Focus(y)'
  <2>1. CASE y = x
    BY <1>2, <2>1
  <2>2. CASE y # x
    <3>1. Live(y)
      BY <1>2, <2>2 DEF Live, Alive
    <3>2. Focus(y)
      BY <3>1 DEF FocusInv
    <3>3. QED
      BY <2>2, <3>1, <3>2 DEF Focus, Unreviewed
  <2>3. QED
    BY <2>1, <2>2
<1>3. QED
  BY <1>1, <1>2 DEF FocusInv

\* A live run moves on: whatever it does, nobody else has a view of the session.
LEMMA LiveStep ==
    ASSUME FocusInv, NEW x \in Runs, Live(x), \A y \in Runs \ {x} : runs'[y] = runs[y],
           OpenedInv', Live(x)' => Focus(x)'
    PROVE  FocusInv'
<1>1. \A y \in Runs \ {x} : ~Live(y)'
  BY DEF FocusInv, Live, Alive
<1>2. QED
  BY <1>1 DEF FocusInv

-----------------------------------------------------------------------------
\* The user and Streamlit.

LEMMA UserKeepsFocus ==
    ASSUME SessionInv, NEW x \in Runs,
           (\E event \in Events : Click(x, event)) \/ Interrupt(x)
    PROVE  OpenedInv' /\ FocusInv'
<1>1. UNCHANGED <<session, runtimes, reviews>>
  BY DEF Click, Interrupt
<1>2. ASSUME NEW y \in Runs
      PROVE  \/ runs'[y] = runs[y]
             \/ runs'[y] = [runs[y] EXCEPT !.stopped = TRUE]
             \/ \E event \in Events :
                    y = x /\ runs'[y] = [IdleRun EXCEPT !.at = "top", !.event = event]
  BY DEF Click, Interrupt, SessionInv, SafeInv, TypesUsed
<1>3. \A y \in Runs : runs[y] \in ScriptRuns
  BY DEF SessionInv, SafeInv, TypesUsed
<1>4. OpenedInv'
  <2>1. ASSUME NEW y \in Runs, runs'[y].at = "publish"
        PROVE  runs[y].at = "publish" /\ runs'[y].runtime = runs[y].runtime
    BY <1>2, <1>3, <2>1 DEF IdleRun, ScriptRuns
  <2>2. QED
    BY <1>1, <2>1 DEF SessionInv, OpenedInv, Opened
<1>5. CASE Interrupt(x)
  <2>1. \A y \in Runs : Live(y)' => runs'[y] = runs[y]
    BY <1>5 DEF Interrupt, Live, SessionInv, SafeInv, TypesUsed, ScriptRuns
  <2>2. QED
    BY <1>1, <1>4, <2>1 DEF SessionInv, FocusInv, Live, Alive, Focus, Phase, Unreviewed
<1>6. CASE \E event \in Events : Click(x, event)
  <2>1. PICK event \in Events : Click(x, event)
    BY <1>6
  <2>2. runs'[x].at = "top"
    BY <2>1 DEF Click, IdleRun, SessionInv, SafeInv, TypesUsed
  <2>3. ASSUME NEW y \in Runs \ {x} PROVE ~Live(y)'
    <3>1. runs'[y] = IF Alive(y) THEN [runs[y] EXCEPT !.stopped = TRUE] ELSE runs[y]
      BY <2>1, <2>3 DEF Click
    <3>2. QED
      BY <1>3, <3>1 DEF Live, Alive, ScriptRuns
  <2>4. QED
    BY <1>4, <2>2, <2>3 DEF FocusInv, Focus
<1>7. QED
  BY <1>4, <1>5, <1>6

-----------------------------------------------------------------------------
\* The page.

\* A step at a place that calls into st is the step of a live run.
LEMMA YieldsLive ==
    ASSUME NEW x \in Runs, NEW p \in YieldPlaces, At(x, p)
    PROVE  Live(x)
  BY DEF At, YieldPlaces, Live, Alive

LEMMA PageKeepsFocus ==
    ASSUME SessionInv, NEW x \in Runs, PageStep(x)
    PROVE  OpenedInv' /\ FocusInv'
<1> USE DEF SessionInv
<1>1. /\ runs \in [Runs -> ScriptRuns] /\ runs[x] \in ScriptRuns
      /\ \A y \in Runs \ {x} : runs'[y] = runs[y]
      /\ session \in Optional(Runtimes)
      /\ \A y \in Runs : runs[y].at = "publish" => runs[y].runtime \in Runtimes
  BY DEF SafeInv, TypesUsed, RunsInv, PageStep, Stop, Top, SubmitBlank, SubmitCase,
         Render, Publish
<1>2. CASE Stop(x)
  <2>1. UNCHANGED <<session, reviews, runtimes>> /\ runs'[x] = IdleRun
    BY <1>1, <1>2 DEF Stop
  <2>2. QED
    BY <1>1, <2>1, SessionStays DEF IdleRun, Live, Alive, Opened, Phase
<1>3. CASE SubmitBlank(x)
  <2>1. /\ UNCHANGED <<session, reviews, runtimes>>
        /\ runs'[x] = [runs[x] EXCEPT !.at = "render"] /\ Live(x)
    BY <1>1, <1>3, YieldsLive DEF SubmitBlank, YieldPlaces
  <2>2. runs'[x].at = "render"
    BY <1>1, <2>1 DEF ScriptRuns
  <2>3. QED
    BY <1>1, <2>1, <2>2, SessionStays DEF Focus, Opened, Phase
<1>4. ASSUME NEW n \in Runtimes, SubmitCase(x, n) PROVE OpenedInv' /\ FocusInv'
  <2>1. /\ UNCHANGED <<session, reviews>> /\ Live(x) /\ runs[x].at = "submit"
        /\ runtimes[n] = None
    BY <1>4, YieldsLive DEF SubmitCase, YieldPlaces, At
  <2>2. runs'[x].at = "starting"
    BY <1>1, <1>4 DEF SubmitCase, ScriptRuns
  <2>3. \A m \in Runtimes \ {n} : runtimes'[m] = runtimes[m]
    BY <1>4 DEF SubmitCase, SafeInv, TypesUsed
  <2>4. session # n
    BY <2>1, SessionAssumption DEF OpenedInv, Opened
  <2>5. Phase(session)' = Phase(session)
    BY <1>1, <2>1, <2>3, <2>4 DEF Phase, Optional
  <2>6. \A m \in Runtimes : Opened(m) => Opened(m)'
    BY <2>1, <2>3 DEF Opened
  <2>7. session # None => Opened(session)'
    BY <1>1, <2>1, <2>6 DEF OpenedInv, Optional, Opened
  <2>8. OpenedInv'
    BY <1>1, <2>1, <2>2, <2>6, <2>7 DEF OpenedInv
  <2>9. Focus(x)'
    BY <2>1, <2>2, <2>5 DEF FocusInv, Focus
  <2>10. QED
    BY <1>1, <2>1, <2>8, <2>9, LiveStep
<1>5. CASE Top(x)
  <2>1. /\ UNCHANGED <<runtimes, reviews>> /\ Live(x)
        /\ session' = IF runs[x].event = "new_case" THEN None ELSE session
        /\ runs'[x] = [runs[x] EXCEPT !.at = IF runs[x].event = "submit"
                          /\ Phase(session) # "awaiting_approval" THEN "submit" ELSE "render"]
    BY <1>1, <1>5, YieldsLive DEF Top, YieldPlaces
  <2>2. /\ runs'[x].at \in {"submit", "render"}
        /\ runs'[x].at = "submit" =>
               session' = session /\ Phase(session) # "awaiting_approval"
    BY <1>1, <2>1 DEF ScriptRuns
  <2>3. OpenedInv'
    BY <1>1, <2>1, <2>2 DEF OpenedInv, Opened
  <2>4. Focus(x)'
    BY <2>1, <2>2 DEF Focus, Phase
  <2>5. QED
    BY <1>1, <2>1, <2>3, <2>4, LiveStep
<1>6. CASE Render(x)
  <2>1. UNCHANGED <<session, runtimes>> /\ Live(x)
    BY <1>6, YieldsLive DEF Render, YieldPlaces
  <2>2. CASE Phase(session) = "awaiting_approval" /\ runs[x].event \in DOMAIN DecisionOf
    <3>0. /\ runs' = [runs EXCEPT ![x].at = "resume", ![x].runtime = session]
          /\ \E d, s : reviews' = reviews \cup {[runtime |-> session, shown |-> s, decision |-> d, run |-> x]}
      BY <1>6, <2>2 DEF Render
    <3>1. /\ runs'[x] = [runs[x] EXCEPT !.at = "resume", !.runtime = session]
          /\ \A v \in reviews' : v \in reviews \/ v.runtime = session
      BY <1>1, <3>0
    <3>2. runs'[x].at = "resume" /\ runs'[x].runtime = session
      BY <1>1, <3>1 DEF ScriptRuns
    <3>3. session \in Runtimes /\ Opened(session)
      BY <1>1, <2>2 DEF Phase, Optional, Opened
    <3>4. OpenedInv'
      BY <1>1, <2>1, <3>1, <3>2, <3>3 DEF OpenedInv, Opened
    <3>5. Focus(x)'
      BY <2>1, <3>2 DEF Focus
    <3>6. QED
      BY <1>1, <2>1, <3>4, <3>5, LiveStep
  <2>3. CASE ~(Phase(session) = "awaiting_approval" /\ runs[x].event \in DOMAIN DecisionOf)
    <3>1. runs'[x] = IdleRun /\ UNCHANGED reviews
      BY <1>1, <1>6, <2>3 DEF Render
    <3>2. QED
      BY <1>1, <2>1, <3>1, SessionStays DEF IdleRun, Live, Alive, Opened, Phase
  <2>4. QED
    BY <2>2, <2>3
<1>7. CASE Publish(x)
  <2>1. /\ UNCHANGED <<runtimes, reviews>> /\ Live(x) /\ runs[x].at = "publish"
        /\ session' = runs[x].runtime /\ runs'[x] = [IdleRun EXCEPT !.at = "top"]
    BY <1>1, <1>7, YieldsLive DEF Publish, YieldPlaces, At
  <2>2. runs'[x].at = "top"
    BY <2>1 DEF IdleRun
  <2>3. OpenedInv'
    BY <1>1, <2>1, <2>2 DEF OpenedInv, Opened
  <2>4. QED
    BY <1>1, <2>1, <2>2, <2>3, LiveStep DEF Focus
<1>8. QED
  BY <1>2, <1>3, <1>4, <1>5, <1>6, <1>7 DEF PageStep

-----------------------------------------------------------------------------
\* The demo runtime and the graph.

\* A run works on its runtime: on one nobody sees yet, or on one the user was
\* shown.  It may settle or open it, and then it is about to publish it.
LEMMA WorkStep ==
    ASSUME SessionInv, NEW x \in Runs,
           runs[x].at \in {"starting", "resume", "loading", "resuming"},
           UNCHANGED <<session, reviews>>, \A y \in Runs \ {x} : runs'[y] = runs[y],
           /\ runs'[x].runtime = runs[x].runtime /\ runs'[x].stopped = runs[x].stopped
           /\ runs'[x].at \in {runs[x].at, "publish"}
              \/ (runs[x].at = "starting" /\ runs'[x].at = "render")
              \/ (runs[x].at # "starting" /\ runs'[x].at \in {"loading", "resuming"}),
           \A m \in Runtimes \ {runs[x].runtime} : runtimes'[m] = runtimes[m],
           \/ runtimes' = runtimes
           \/ /\ Opened(runs[x].runtime)'
              /\ runs[x].at # "starting" =>
                     runtimes'[runs[x].runtime].phase # "awaiting_approval",
           runs'[x].at = "publish" => Opened(runs[x].runtime)'
    PROVE  OpenedInv' /\ FocusInv'
<1> DEFINE n == runs[x].runtime
<1> USE DEF SessionInv
<1>1. /\ n \in Runtimes /\ session \in Optional(Runtimes)
      /\ \A y \in Runs : runs[y].at = "publish" => runs[y].runtime \in Runtimes
      /\ runs[x].at = "starting" => ~Opened(n)
  BY DEF SafeInv, TypesUsed, RunsInv, StartingRun, ResumingRun, Opened
<1>2. \A m \in Runtimes : Opened(m) => Opened(m)'
  BY DEF Opened
<1>3. runs[x].at = "starting" => session # n /\ Unreviewed(n)
  BY <1>1, SessionAssumption DEF OpenedInv, Unreviewed
<1>4. Phase(session)' = "awaiting_approval" => Phase(session) = "awaiting_approval"
  BY <1>1, <1>3 DEF Phase, Optional
<1>5. Live(x)' => Live(x)
  BY DEF Live, Alive
<1>6. Live(x)' => Focus(x)'
  <2> SUFFICES ASSUME Live(x)' PROVE Focus(x)'
    OBVIOUS
  <2>1. Focus(x)
    BY <1>5 DEF FocusInv
  <2>2. CASE runs[x].at = "starting"
    BY <1>3, <1>4, <2>1, <2>2 DEF Focus, Unreviewed
  <2>3. CASE runs[x].at # "starting"
    BY <1>4, <2>1, <2>3 DEF Focus
  <2>4. QED
    BY <2>2, <2>3
<1>7. QED
  BY <1>1, <1>2, <1>4, <1>5, <1>6, SessionStays

\* What the steps of a run inside the demo runtime have in common.
LEMMA WorkFrame ==
    ASSUME SessionInv, NEW x \in Runs
    PROVE  /\ runs \in [Runs -> ScriptRuns] /\ runs[x] \in ScriptRuns
           /\ runtimes \in [Runtimes -> Optional(DemoRuntimes)]
           /\ runs[x].at \in {"starting", "resume", "loading", "resuming"} =>
                 /\ runs[x].runtime \in Runtimes
                 /\ runtimes[runs[x].runtime] \in DemoRuntimes
  BY DEF SessionInv, SafeInv, TypesUsed, RunsInv, StartingRun, ResumingRun, Optional

\* A run leaves its runtime open and goes on to publish it.
LEMMA ClosingRun ==
    ASSUME SessionInv, NEW x \in Runs, runs[x].at \in {"starting", "resume", "resuming"},
           NEW r \in DemoRuntimes, r.phase # "idle",
           runs[x].at # "starting" => r.phase # "awaiting_approval",
           runtimes' = [runtimes EXCEPT ![runs[x].runtime] = r],
           runs' = [runs EXCEPT ![x].at = "publish"], UNCHANGED <<session, reviews>>
    PROVE  OpenedInv' /\ FocusInv'
<1> DEFINE n == runs[x].runtime
<1>1. /\ runs'[x].at = "publish" /\ runs'[x].runtime = n /\ runs'[x].stopped = runs[x].stopped
      /\ \A y \in Runs \ {x} : runs'[y] = runs[y]
  BY WorkFrame DEF ScriptRuns
<1>2. \A m \in Runtimes : runtimes'[m] = IF m = n THEN r ELSE runtimes[m]
  BY WorkFrame
<1>3. r # None
  BY AbsentAssumption
<1>4. Opened(n)'
  BY <1>1, <1>2, <1>3, WorkFrame DEF Opened
<1>5. QED
  BY <1>1, <1>2, <1>4, WorkFrame, WorkStep

LEMMA FailKeepsFocus ==
    ASSUME SessionInv, NEW x \in Runs, NEW exception, Fail(x, exception),
           runs[x].at \in {"starting", "resuming"}
    PROVE  OpenedInv' /\ FocusInv'
<1> DEFINE n == runs[x].runtime
<1>1. CASE runs[x].at = "starting"
  <2>1. /\ runs' = [runs EXCEPT ![x].at = "render"] /\ UNCHANGED <<session, reviews, runtimes>>
    BY <1>1 DEF Fail
  <2>2. /\ runs'[x].at = "render" /\ runs'[x].runtime = n /\ runs'[x].stopped = runs[x].stopped
        /\ \A y \in Runs \ {x} : runs'[y] = runs[y]
    BY <2>1, WorkFrame DEF ScriptRuns
  <2>3. QED
    BY <1>1, <2>1, <2>2, WorkStep
<1>2. CASE runs[x].at = "resuming"
  <2>1. /\ runtimes' = [runtimes EXCEPT ![n] = MarkError(@, exception)]
        /\ runs' = [runs EXCEPT ![x].at = "publish"] /\ UNCHANGED <<session, reviews>>
    BY <1>2 DEF Fail
  <2>2. /\ MarkError(runtimes[n], exception).phase = "error"
        /\ MarkError(runtimes[n], exception) \in DemoRuntimes
    BY <1>2, MarkErrorType, WorkFrame
  <2>3. QED
    BY <1>2, <2>1, <2>2, WorkFrame, ClosingRun
<1>3. QED
  BY <1>1, <1>2

\* A superstep that is saved leaves the session, the runtimes and the reviews.
LEMMA SaveKeepsFocus ==
    ASSUME SessionInv, NEW x \in Runs, runs[x].at \in {"starting", "resuming"},
           NEW c, runs' = [runs EXCEPT ![x].checkpoint = c],
           UNCHANGED <<session, runtimes, reviews>>
    PROVE  OpenedInv' /\ FocusInv'
  BY WorkFrame, WorkStep DEF ScriptRuns

LEMMA InvokeKeepsFocus ==
    ASSUME SessionInv, NEW x \in Runs, InvokeStep(x)
    PROVE  OpenedInv' /\ FocusInv'
<1>1. runs[x].at \in {"starting", "resuming"}
  BY DEF InvokeStep, FirstNodes, HumanApproval, ExecuteApprovedAction, ApprovalRejected,
         FinalResponse, At
<1>2. \/ \E exception : Fail(x, exception)
      \/ \E c : runs' = [runs EXCEPT ![x].checkpoint = c]
                /\ UNCHANGED <<session, runtimes, reviews>>
  BY DEF InvokeStep, FirstNodes, HumanApproval, ExecuteApprovedAction, ApprovalRejected,
         FinalResponse, SaveOnly, Execute, Save
<1>3. QED
  BY <1>1, <1>2, FailKeepsFocus, SaveKeepsFocus

LEMMA RuntimeKeepsFocus ==
    ASSUME SessionInv, NEW x \in Runs, RuntimeStep(x)
    PROVE  OpenedInv' /\ FocusInv'
<1> DEFINE n == runs[x].runtime
<1>2. ASSUME runs[x].at \in {"resume", "loading"},
             NEW p \in {"loading", "resuming"}, NEW c,
             \/ runs' = [runs EXCEPT ![x].at = p]
             \/ runs' = [runs EXCEPT ![x].at = p, ![x].checkpoint = c],
             UNCHANGED <<session, reviews, runtimes>>
      PROVE  OpenedInv' /\ FocusInv'
  <2>1. /\ runs'[x].at = p /\ runs'[x].runtime = n /\ runs'[x].stopped = runs[x].stopped
        /\ \A y \in Runs \ {x} : runs'[y] = runs[y]
    BY <1>2, WorkFrame DEF ScriptRuns
  <2>2. QED
    BY <1>2, <2>1, WorkStep
<1>3. CASE StartReturns(x)
  BY <1>3, StartOpens, ClosingRun DEF SessionInv
<1>4. CASE ResumeCheck(x)
  <2>1. runs[x].at = "resume"
    BY <1>4 DEF ResumeCheck, At
  <2>2. CASE Phase(n) = "awaiting_approval"
    BY <1>2, <1>4, <2>1, <2>2 DEF ResumeCheck
  <2>3. CASE Phase(n) # "awaiting_approval"
    <3>1. /\ runtimes' = [runtimes EXCEPT ![n] = MarkError(@, "DemoRuntimeError")]
          /\ runs' = [runs EXCEPT ![x].at = "publish"] /\ UNCHANGED <<session, reviews>>
      BY <1>4, <2>3 DEF ResumeCheck
    <3>2. /\ MarkError(runtimes[n], "DemoRuntimeError") \in DemoRuntimes
          /\ MarkError(runtimes[n], "DemoRuntimeError").phase = "error"
      BY <2>1, MarkErrorType, WorkFrame
    <3>3. QED
      BY <2>1, <3>1, <3>2, WorkFrame, ClosingRun
  <2>4. QED
    BY <2>2, <2>3
<1>5. CASE ResumeLoad(x)
  BY <1>2, <1>5 DEF ResumeLoad, At
<1>6. CASE ResumeReturns(x)
  BY <1>6, ResumeCloses, ClosingRun DEF SessionInv
<1>7. QED
  BY <1>3, <1>4, <1>5, <1>6 DEF RuntimeStep

-----------------------------------------------------------------------------
LEMMA SessionInit == Init => SessionInv
<1>1. Init => OpenedInv /\ FocusInv
  BY DEF Init, OpenedInv, FocusInv, IdleRun, Live, Alive
<1>2. QED
  BY <1>1, SafeInit DEF SessionInv

LEMMA SessionStep == SessionInv /\ [Next]_vars => SessionInv'
<1> SUFFICES ASSUME SessionInv, [Next]_vars PROVE SessionInv'
  OBVIOUS
<1>1. SafeInv'
  BY SafeStep DEF SessionInv
<1>2. ASSUME NEW x \in Runs, (\E event \in Events : Click(x, event)) \/ Interrupt(x)
      PROVE  OpenedInv' /\ FocusInv'
  BY <1>2, UserKeepsFocus
<1>3. ASSUME NEW x \in Runs, ScriptStep(x) PROVE OpenedInv' /\ FocusInv'
  BY <1>3, InvokeKeepsFocus, RuntimeKeepsFocus, PageKeepsFocus DEF ScriptStep
<1>4. ASSUME UNCHANGED vars PROVE OpenedInv' /\ FocusInv'
  BY <1>4 DEF vars, SessionInv, OpenedInv, FocusInv, Opened, Live, Alive, Focus, Phase,
              Unreviewed
<1>5. QED
  BY <1>1, <1>2, <1>3, <1>4 DEF Next, SessionInv

LEMMA SessionInvariance == Spec => []SessionInv
  BY SessionInit, SessionStep, PTL DEF Spec

\* The session is assigned by "Nuevo caso" and by a live run that publishes.
LEMMA SessionChanges ==
    ASSUME SessionInv, Next, session' # session
    PROVE  \E x \in Runs :
               \/ runs[x].at = "top" /\ runs[x].event = "new_case" /\ session' = None
               \/ /\ runs[x].at = "publish" /\ session' = runs[x].runtime
                  /\ Phase(session) # "awaiting_approval" /\ Unreviewed(runs[x].runtime)
<1>1. PICK x \in Runs : Top(x) \/ Publish(x)
  <2>1. \A x \in Runs : InvokeStep(x) => session' = session
    BY DEF InvokeStep, FirstNodes, HumanApproval, ExecuteApprovedAction, ApprovalRejected,
           FinalResponse, Fail, SaveOnly, Execute
  <2>2. \A x \in Runs : RuntimeStep(x) => session' = session
    BY DEF RuntimeStep, StartReturns, ResumeCheck, ResumeLoad, ResumeReturns
  <2>3. \A x \in Runs : PageStep(x) => Top(x) \/ Publish(x) \/ session' = session
    BY DEF PageStep, Stop, SubmitBlank, SubmitCase, Render
  <2>4. \A x \in Runs :
            (\E event \in Events : Click(x, event)) \/ Interrupt(x) => session' = session
    BY DEF Click, Interrupt
  <2>5. QED
    BY <2>1, <2>2, <2>3, <2>4 DEF Next, ScriptStep
<1>2. CASE Top(x)
  BY <1>2 DEF Top, At
<1>3. CASE Publish(x)
  <2>1. Live(x) /\ runs[x].at = "publish" /\ session' = runs[x].runtime
    BY <1>3, YieldsLive DEF Publish, YieldPlaces, At
  <2>2. QED
    BY <2>1 DEF SessionInv, FocusInv, Focus
<1>4. QED
  BY <1>1, <1>2, <1>3

\* A pending approval leaves the session only when the user asks for a new
\* case: no submit that was under way and no resume that returns late can
\* replace it, however many script runs overlap.
THEOREM PendingIsKept == Spec => PendingDroppedOnlyByNewCase
<1> DEFINE Dropped ==
        Phase(session) = "awaiting_approval" /\ session' # session =>
            \E x \in Runs : runs[x].at = "top" /\ runs[x].event = "new_case" /\ session' = None
<1>1. SessionInv /\ [Next]_vars => Dropped
  BY SessionChanges DEF vars
<1>2. QED
  BY <1>1, SessionInvariance, PTL DEF Spec, PendingDroppedOnlyByNewCase

\* What enters the session is a runtime no decision was ever given for, so a
\* case the user turned away from does not come back when its resume returns.
THEOREM AbandonedIsGone == Spec => AbandonedStaysAbandoned
<1> DEFINE Fresh ==
        session' \notin {session, None} => \A v \in reviews : v.runtime # session'
<1>1. SessionInv /\ [Next]_vars => Fresh
  BY SessionChanges DEF vars, Unreviewed
<1>2. QED
  BY <1>1, SessionInvariance, PTL DEF Spec, AbandonedStaysAbandoned

-----------------------------------------------------------------------------
\* The supersteps of the graph, exactly.

OperationOf(result) ==
    [action_type |-> result.action_type, order_id |-> result.order_id]

Kept(c, b) ==
    /\ c.proposed_action = b.proposed_action
    /\ c.human_decision = b.human_decision
    /\ c.final_response = b.final_response

\* The superstep that leads from checkpoint b to c and executes nothing.
Closes(x, b, c) ==
    /\ runs[x].at = "starting" /\ b.next = "START" /\ c.next = "final_response"
    /\ Kept(c, b)

Pauses(x, b, c) ==
    /\ runs[x].at = "starting" /\ b.next = "START" /\ c.next = "human_approval"
    /\ c.proposed_action \in ProposedActions /\ IsSensitive(c.proposed_action)
    /\ c.human_decision = b.human_decision /\ c.final_response = b.final_response

Decides(x, b, c) ==
    /\ runs[x].at = "resuming" /\ b.next = "human_approval"
    /\ c.human_decision = DecisionOf[runs[x].event]
    /\ c.next = IF c.human_decision = "approved" THEN "execute_approved_action"
                                                 ELSE "approval_rejected"
    /\ c.proposed_action = b.proposed_action /\ c.final_response = b.final_response

Rejects(x, b, c) ==
    /\ runs[x].at = "resuming" /\ b.next = "approval_rejected"
    /\ c.next = "final_response" /\ Kept(c, b)

Replies(x, b, c) ==
    /\ b.next = "final_response" /\ c.next = "END" /\ c.final_response
    /\ c.proposed_action = b.proposed_action /\ c.human_decision = b.human_decision

ExecutesNothing(x, b, c) ==
    /\ UNCHANGED <<stores, journal>>
    /\ c.action_result = b.action_result
    /\ \/ Closes(x, b, c) \/ Pauses(x, b, c) \/ Decides(x, b, c)
       \/ Rejects(x, b, c) \/ Replies(x, b, c)

\* The superstep that executes what c tells.
ExecutesIt(x, b, c) ==
    LET n == runs[x].runtime
        op == OperationOf(c.action_result)
    IN  /\ \/ /\ runs[x].at = "starting" /\ b.next = "START"
              /\ ~IsSensitive(c.proposed_action)
           \/ /\ runs[x].at = "resuming" /\ b.next = "execute_approved_action"
              /\ c.proposed_action = b.proposed_action
        /\ c.proposed_action \in ProposedActions
        /\ c.action_result \in ActionResults /\ OperationOf(c.proposed_action) = op
        /\ c.next = "final_response"
        /\ c.human_decision = b.human_decision /\ c.final_response = b.final_response
        /\ journal' = [journal EXCEPT ![n] = Append(@, op)]
        /\ \E s : /\ stores[n] \in Stores => s \in Stores
                  /\ stores' = [stores EXCEPT ![n] = s]

\* Exactly the sensitive operations are proposed with an approval.
LEMMA SensitiveProposals ==
    \A proposed \in Proposals : proposed.requires_human_approval => IsSensitive(proposed)
<1>1. ASSUME NEW i \in DOMAIN ActionTypeByIntent, NEW o \in Orders,
             ProposeAction(i, o).requires_human_approval
      PROVE  IsSensitive(ProposeAction(i, o))
  <2>1. i \in {"cancel_order", "address_change", "refund_request", "billing_issue",
               "product_issue"} /\ ApprovalRequiredByIntent[i]
    BY <1>1 DEF ActionTypeByIntent, ProposeAction
  <2>2. i \in {"refund_request", "billing_issue", "product_issue"}
    BY <2>1 DEF ApprovalRequiredByIntent
  <2>3. ActionTypeByIntent[i] \in ApprovalRequiredActionTypes
    BY <2>2 DEF ActionTypeByIntent, ApprovalRequiredActionTypes
  <2>4. QED
    BY <2>3 DEF ProposeAction, IsSensitive
<1>2. QED
  BY <1>1 DEF Proposals

InvokeErrors == {"ClassificationError", "ActionExecutionError", "ResponseGenerationError"}

LEMMA ExecuteExactly ==
    ASSUME SafeInv, NEW x \in Runs, runs[x].at \in {"starting", "resuming"},
           NEW proposed \in ProposedActions, NEW address \in Addresses \cup {None},
           NEW approved,
           ~ExecutionFails(proposed, PrepareActionInput(proposed, address),
                           stores[runs[x].runtime], approved),
           \/ /\ runs[x].at = "starting" /\ runs[x].checkpoint.next = "START"
              /\ ~IsSensitive(proposed)
           \/ /\ runs[x].at = "resuming"
              /\ runs[x].checkpoint.next = "execute_approved_action"
              /\ proposed = runs[x].checkpoint.proposed_action,
           Execute(x, proposed, address, runs[x].checkpoint)
    PROVE  \E c \in Checkpoints :
               /\ Save(x, c) /\ UNCHANGED <<session, runtimes, reviews, raised>>
               /\ ExecutesIt(x, runs[x].checkpoint, c)
<1> DEFINE n == runs[x].runtime
           input == PrepareActionInput(proposed, address)
           result == ExecutionResult(proposed, input)
           b == runs[x].checkpoint
           c == [b EXCEPT !.next = "final_response", !.proposed_action = proposed,
                          !.action_result = result]
<1>1. b \in Checkpoints
  BY DEF SafeInv, TypesUsed, ScriptRuns
<1>2. input \in ActionInputs /\ input.ready /\ input.order_id = proposed.order_id
  BY PrepareActionInputType DEF ExecutionFails
<1>3. /\ result \in ActionResults /\ OperationOf(result) = OperationOf(proposed)
      /\ OperationOf(proposed) = [action_type |-> proposed.action_type,
                                  order_id |-> proposed.order_id]
  BY <1>2 DEF ExecutionResult, ActionResults, ProposedActions, OperationOf
<1>4. /\ c \in Checkpoints
      /\ c.next = "final_response" /\ c.proposed_action = proposed
      /\ c.action_result = result
      /\ c.human_decision = b.human_decision /\ c.final_response = b.final_response
  <2>1. \A q \in Checkpoints :
            LET d == [q EXCEPT !.next = "final_response", !.proposed_action = proposed,
                               !.action_result = result]
            IN  /\ d \in Checkpoints
                /\ d.next = "final_response" /\ d.proposed_action = proposed
                /\ d.action_result = result
                /\ d.human_decision = q.human_decision
                /\ d.final_response = q.final_response
    BY <1>3 DEF Checkpoints, Stages, Optional
  <2>2. QED
    BY <1>1, <2>1
<1>5. stores[n] \in Stores => ExecuteAction(proposed, input, stores[n]) \in Stores
  BY <1>2, ExecutionType
<1>6. /\ stores' = [stores EXCEPT ![n] = ExecuteAction(proposed, input, @)]
      /\ journal' = [journal EXCEPT ![n] = Append(@, OperationOf(proposed))]
      /\ Save(x, c) /\ UNCHANGED <<session, runtimes, reviews, raised>>
  BY <1>3 DEF Execute
<1>7. \E s : /\ stores[n] \in Stores => s \in Stores
             /\ stores' = [stores EXCEPT ![n] = s]
  BY <1>5, <1>6
<1> HIDE DEF c, result
<1>8. ExecutesIt(x, b, c)
  BY <1>3, <1>4, <1>6, <1>7 DEF ExecutesIt
<1>9. QED
  BY <1>4, <1>6, <1>8

LEMMA FirstNodesExactly ==
    ASSUME SafeInv, NEW x \in Runs, FirstNodes(x), ~Fail(x, "ClassificationError")
    PROVE  \E c \in Checkpoints :
               /\ Save(x, c) /\ UNCHANGED <<session, runtimes, reviews, raised>>
               /\ \/ ExecutesNothing(x, runs[x].checkpoint, c)
                  \/ ExecutesIt(x, runs[x].checkpoint, c)
<1> DEFINE n == runs[x].runtime
           b == runs[x].checkpoint
<1>1. runs[x].at = "starting" /\ b.next = "START" /\ b \in Checkpoints
  BY DEF FirstNodes, At, SafeInv, TypesUsed, ScriptRuns
<1>2. CASE SaveOnly(x, [b EXCEPT !.next = "final_response"])
  <2> DEFINE c == [b EXCEPT !.next = "final_response"]
  <2>1. /\ c \in Checkpoints /\ c.next = "final_response"
        /\ c.action_result = b.action_result /\ Kept(c, b)
    BY <1>1 DEF Checkpoints, Stages, Kept
  <2>2. Save(x, c) /\ UNCHANGED <<session, runtimes, stores, journal, reviews, raised>>
    BY <1>2 DEF SaveOnly
  <2> HIDE DEF c
  <2>3. QED
    BY <1>1, <2>1, <2>2 DEF ExecutesNothing, Closes
<1>3. ASSUME NEW proposed \in Proposals, NEW address \in Optional(Addresses),
             Allowed(stores[n], proposed, address), proposed.requires_human_approval,
             SaveOnly(x, [b EXCEPT !.next = "human_approval", !.proposed_action = proposed])
      PROVE  \E c \in Checkpoints :
                 /\ Save(x, c) /\ UNCHANGED <<session, runtimes, reviews, raised>>
                 /\ ExecutesNothing(x, b, c)
  <2> DEFINE c == [b EXCEPT !.next = "human_approval", !.proposed_action = proposed]
  <2>1. proposed \in ProposedActions
    BY ProposalsTyped
  <2>2. IsSensitive(proposed)
    BY <1>3, SensitiveProposals
  <2>3. /\ c \in Checkpoints /\ c.next = "human_approval" /\ c.proposed_action = proposed
        /\ c.action_result = b.action_result
        /\ c.human_decision = b.human_decision /\ c.final_response = b.final_response
    BY <1>1, <2>1 DEF Checkpoints, Stages, Optional
  <2>4. Save(x, c) /\ UNCHANGED <<session, runtimes, stores, journal, reviews, raised>>
    BY <1>3 DEF SaveOnly
  <2> HIDE DEF c
  <2>5. QED
    BY <1>1, <2>1, <2>2, <2>3, <2>4 DEF ExecutesNothing, Pauses
<1>4. ASSUME NEW proposed \in Proposals, NEW address \in Optional(Addresses),
             Allowed(stores[n], proposed, address), ~proposed.requires_human_approval,
             Execute(x, proposed, address, b)
      PROVE  \E c \in Checkpoints :
                 /\ Save(x, c) /\ UNCHANGED <<session, runtimes, reviews, raised>>
                 /\ ExecutesIt(x, b, c)
  <2>1. proposed \in ProposedActions
    BY ProposalsTyped
  <2>2. ~IsSensitive(proposed)
    BY <1>4 DEF Allowed, ExecutionFails, IsSensitive
  <2>3. ~ExecutionFails(proposed, PrepareActionInput(proposed, address), stores[n],
                        proposed.requires_human_approval)
    BY <1>4 DEF Allowed
  <2>4. address \in Addresses \cup {None}
    BY DEF Optional
  <2>5. QED
    BY <1>1, <1>4, <2>1, <2>2, <2>3, <2>4, ExecuteExactly
<1>5. QED
  BY <1>2, <1>3, <1>4 DEF FirstNodes

LEMMA HumanApprovalExactly ==
    ASSUME SafeInv, NEW x \in Runs, HumanApproval(x)
    PROVE  \E c \in Checkpoints :
               /\ Save(x, c) /\ UNCHANGED <<session, runtimes, reviews, raised>>
               /\ ExecutesNothing(x, runs[x].checkpoint, c)
<1> DEFINE b == runs[x].checkpoint
           decision == ParseHumanApprovalResponse(DecisionOf[runs[x].event])
           c == [b EXCEPT !.human_decision = decision,
                          !.next = IF decision = "approved" THEN "execute_approved_action"
                                                            ELSE "approval_rejected"]
<1>1. /\ runs[x].at = "resuming" /\ b.next = "human_approval"
      /\ ResumingRun(x) /\ b \in Checkpoints /\ SaveOnly(x, c)
  BY DEF HumanApproval, At, SafeInv, RunsInv, TypesUsed, ScriptRuns
<1>2. decision = DecisionOf[runs[x].event] /\ decision \in Decisions
  BY <1>1 DEF ResumingRun, DecisionOf, ParseHumanApprovalResponse, Decisions
<1> HIDE DEF decision
<1>3. /\ c \in Checkpoints /\ c.human_decision = decision
      /\ c.next = IF decision = "approved" THEN "execute_approved_action"
                                           ELSE "approval_rejected"
      /\ c.action_result = b.action_result
      /\ c.proposed_action = b.proposed_action /\ c.final_response = b.final_response
  BY <1>1, <1>2 DEF Checkpoints, Stages, Optional
<1>4. Save(x, c) /\ UNCHANGED <<session, runtimes, stores, journal, reviews, raised>>
  BY <1>1 DEF SaveOnly
<1> HIDE DEF c
<1>5. QED
  BY <1>1, <1>2, <1>3, <1>4 DEF ExecutesNothing, Decides

LEMMA ClosingExactly ==
    ASSUME SafeInv, NEW x \in Runs,
           \/ ApprovalRejected(x)
           \/ FinalResponse(x) /\ ~Fail(x, "ResponseGenerationError")
    PROVE  \E c \in Checkpoints :
               /\ Save(x, c) /\ UNCHANGED <<session, runtimes, reviews, raised>>
               /\ ExecutesNothing(x, runs[x].checkpoint, c)
<1> DEFINE b == runs[x].checkpoint
<1>1. b \in Checkpoints
  BY DEF SafeInv, TypesUsed, ScriptRuns
<1>2. CASE ApprovalRejected(x)
  <2> DEFINE c == [b EXCEPT !.next = "final_response"]
  <2>1. /\ c \in Checkpoints /\ c.next = "final_response"
        /\ c.action_result = b.action_result /\ Kept(c, b)
    BY <1>1 DEF Checkpoints, Stages, Kept
  <2>2. /\ Save(x, c) /\ UNCHANGED <<session, runtimes, stores, journal, reviews, raised>>
        /\ runs[x].at = "resuming" /\ b.next = "approval_rejected"
    BY <1>2 DEF ApprovalRejected, SaveOnly, At
  <2> HIDE DEF c
  <2>3. QED
    BY <2>1, <2>2 DEF ExecutesNothing, Rejects
<1>3. CASE FinalResponse(x) /\ ~Fail(x, "ResponseGenerationError")
  <2> DEFINE c == [b EXCEPT !.next = "END", !.final_response = TRUE]
  <2>1. /\ c \in Checkpoints /\ c.next = "END" /\ c.final_response
        /\ c.action_result = b.action_result
        /\ c.proposed_action = b.proposed_action /\ c.human_decision = b.human_decision
    BY <1>1 DEF Checkpoints, Stages
  <2>2. /\ Save(x, c) /\ UNCHANGED <<session, runtimes, stores, journal, reviews, raised>>
        /\ b.next = "final_response"
    BY <1>3 DEF FinalResponse, SaveOnly
  <2> HIDE DEF c
  <2>3. QED
    BY <2>1, <2>2 DEF ExecutesNothing, Replies
<1>4. QED
  BY <1>2, <1>3

LEMMA ExecuteApprovedExactly ==
    ASSUME SafeInv, NEW x \in Runs, ExecuteApprovedAction(x),
           ~Fail(x, "ActionExecutionError")
    PROVE  \E c \in Checkpoints :
               /\ Save(x, c) /\ UNCHANGED <<session, runtimes, reviews, raised>>
               /\ ExecutesIt(x, runs[x].checkpoint, c)
<1> DEFINE n == runs[x].runtime
           b == runs[x].checkpoint
<1>1. /\ runs[x].at = "resuming" /\ b.next = "execute_approved_action"
      /\ ResumingRun(x) /\ b \in Checkpoints
  BY DEF ExecuteApprovedAction, At, SafeInv, RunsInv, TypesUsed, ScriptRuns
<1>2. b.proposed_action \in ProposedActions
  BY <1>1 DEF ResumingRun, Checkpoints, Optional
<1>3. /\ ~ExecutionFails(b.proposed_action, PrepareActionInput(b.proposed_action, None),
                         stores[n], b.human_decision = "approved")
      /\ Execute(x, b.proposed_action, None, b)
  BY DEF ExecuteApprovedAction
<1>4. QED
  BY <1>1, <1>2, <1>3, ExecuteExactly

\* An invoke raises, or saves one of these checkpoints.
LEMMA InvokeExactly ==
    ASSUME SafeInv, NEW x \in Runs, InvokeStep(x)
    PROVE  /\ runs[x].at \in {"starting", "resuming"}
           /\ \/ \E exception \in InvokeErrors : Fail(x, exception)
              \/ \E c \in Checkpoints :
                    /\ Save(x, c) /\ UNCHANGED <<session, runtimes, reviews, raised>>
                    /\ \/ ExecutesNothing(x, runs[x].checkpoint, c)
                       \/ ExecutesIt(x, runs[x].checkpoint, c)
<1>1. runs[x].at \in {"starting", "resuming"}
  BY DEF InvokeStep, FirstNodes, HumanApproval, ExecuteApprovedAction, ApprovalRejected,
         FinalResponse, At
<1>2. QED
  BY <1>1, FirstNodesExactly, HumanApprovalExactly, ExecuteApprovedExactly, ClosingExactly
     DEF InvokeStep, InvokeErrors

-----------------------------------------------------------------------------
\* What a step of a run changes, field by field.

Others(x) == \A y \in Runs \ {x} : runs'[y] = runs[y]

\* Run x goes to another place and keeps what it works on.
GoesTo(x, place) ==
    /\ runs'[x].at = place
    /\ runs'[x].runtime = runs[x].runtime /\ runs'[x].event = runs[x].event
    /\ runs'[x].checkpoint = runs[x].checkpoint

LEMMA PlaceFacts ==
    ASSUME SafeInv, NEW x \in Runs, NEW place \in Places, runs' = [runs EXCEPT ![x].at = place]
    PROVE  Others(x) /\ GoesTo(x, place)
  BY DEF SafeInv, TypesUsed, ScriptRuns, Others, GoesTo

LEMMA SaveFacts ==
    ASSUME SafeInv, NEW x \in Runs, runs[x].at \in {"starting", "resuming"}, NEW c, Save(x, c)
    PROVE  /\ Others(x) /\ runs[x].runtime \in Runtimes
           /\ runs'[x].at = runs[x].at /\ runs'[x].event = runs[x].event
           /\ runs'[x].runtime = runs[x].runtime /\ runs'[x].checkpoint = c
           /\ \A m \in Runtimes :
                  threads'[m] = IF m = runs[x].runtime THEN c ELSE threads[m]
<1>1. runs[x] \in ScriptRuns /\ runs \in [Runs -> ScriptRuns]
  BY DEF SafeInv, TypesUsed
<1>2. runs[x].runtime \in Runtimes
  BY DEF SafeInv, RunsInv, StartingRun, ResumingRun
<1>3. runs' = [runs EXCEPT ![x] = [runs[x] EXCEPT !.checkpoint = c]]
  BY <1>1 DEF Save
<1>4. runs'[x] = [runs[x] EXCEPT !.checkpoint = c] /\ Others(x)
  BY <1>1, <1>3 DEF Others
<1>5. QED
  BY <1>1, <1>2, <1>4 DEF Save, SafeInv, TypesUsed, ScriptRuns

\* A superstep leaves the stores and journals of the other runtimes.
LEMMA ExecutesElsewhere ==
    ASSUME SafeInv, TypeOK, NEW x \in Runs, NEW b, NEW c,
           ExecutesNothing(x, b, c) \/ ExecutesIt(x, b, c),
           NEW m \in Runtimes, m # runs[x].runtime
    PROVE  journal'[m] = journal[m] /\ stores'[m] = stores[m]
  BY DEF ExecutesNothing, ExecutesIt, TypeOK

\* A runtime that is settled or opened, and the run that did so.
Settles(x, r) ==
    /\ runs[x].at \in {"starting", "resume", "resuming"}
    /\ runs[x].runtime \in Runtimes
    /\ r \in DemoRuntimes /\ r.phase # "idle"
    /\ \A m \in Runtimes : runtimes'[m] = IF m = runs[x].runtime THEN r ELSE runtimes[m]
    /\ Others(x) /\ GoesTo(x, "publish")
    /\ UNCHANGED <<session, threads, stores, journal, reviews>>

LEMMA SettlesFacts ==
    ASSUME SafeInv, NEW x \in Runs, runs[x].at \in {"starting", "resume", "resuming"},
           NEW r \in DemoRuntimes, r.phase # "idle",
           runtimes' = [runtimes EXCEPT ![runs[x].runtime] = r],
           runs' = [runs EXCEPT ![x].at = "publish"],
           UNCHANGED <<session, threads, stores, journal, reviews>>
    PROVE  Settles(x, r)
<1>1. runs[x].runtime \in Runtimes
  BY DEF SafeInv, RunsInv, StartingRun, ResumingRun
<1>2. Others(x) /\ GoesTo(x, "publish")
  BY PlaceFacts DEF Places
<1>3. QED
  BY <1>1, <1>2 DEF Settles, SafeInv, TypesUsed

\* A pause, a completion and an error, as they are recorded in the runtime.
LEMMA StartReturnsExactly ==
    ASSUME SafeInv, NEW x \in Runs, StartReturns(x)
    PROVE  \E r : /\ Settles(x, r) /\ UNCHANGED raised
                  /\ runs[x].at = "starting"
                  /\ runs[x].checkpoint.next \in {"human_approval", "END"}
                  /\ r.phase = IF runs[x].checkpoint.next = "human_approval"
                               THEN "awaiting_approval" ELSE "completed"
                  /\ r.latest_state = runs[x].checkpoint /\ r.error_message = None
<1> DEFINE n == runs[x].runtime
           c == runs[x].checkpoint
           paused == c.next = "human_approval"
           r == [phase |-> IF paused THEN "awaiting_approval" ELSE "completed",
                 latest_state |-> c,
                 interrupt_payload |-> IF paused
                     THEN BuildApprovalRequest(n, c.proposed_action) ELSE None,
                 error_message |-> None]
<1>1. /\ runs[x].at = "starting" /\ StartingRun(x) /\ c \in Checkpoints
      /\ c.next \in {"human_approval", "END"}
  BY DEF StartReturns, At, SafeInv, RunsInv, TypesUsed, ScriptRuns
<1>2. paused => BuildApprovalRequest(n, c.proposed_action) \in ApprovalRequests(Runtimes)
  <2>1. paused => c.proposed_action \in ProposedActions /\ n \in Runtimes
    BY <1>1 DEF StartingRun, Checkpoints, Optional
  <2>2. QED
    BY <2>1 DEF BuildApprovalRequest, ApprovalRequests, ProposedActions
<1>3. r \in DemoRuntimes /\ r.phase # "idle"
  BY <1>1, <1>2 DEF DemoRuntimes, DemoPhases, Optional
<1>4. /\ runtimes' = [runtimes EXCEPT ![n] = r]
      /\ runs' = [runs EXCEPT ![x].at = "publish"]
      /\ UNCHANGED <<session, threads, stores, journal, reviews, raised>>
  BY DEF StartReturns
<1>5. /\ r.phase = IF paused THEN "awaiting_approval" ELSE "completed"
      /\ r.latest_state = c /\ r.error_message = None
  OBVIOUS
<1> HIDE DEF r
<1>6. Settles(x, r)
  BY <1>1, <1>3, <1>4, SettlesFacts
<1>7. QED
  BY <1>1, <1>4, <1>5, <1>6

LEMMA ResumeReturnsExactly ==
    ASSUME SafeInv, NEW x \in Runs, ResumeReturns(x)
    PROVE  \E r : /\ Settles(x, r) /\ UNCHANGED raised
                  /\ runs[x].at = "resuming" /\ runs[x].checkpoint.next = "END"
                  /\ r.phase = "completed"
                  /\ r.latest_state = runs[x].checkpoint /\ r.error_message = None
<1> DEFINE n == runs[x].runtime
           r == [phase |-> "completed", latest_state |-> runs[x].checkpoint,
                 interrupt_payload |-> None, error_message |-> None]
<1>1. runs[x].checkpoint \in Checkpoints
  BY DEF SafeInv, TypesUsed, ScriptRuns
<1>2. /\ r \in DemoRuntimes /\ r.phase = "completed" /\ r.phase # "idle"
      /\ r.latest_state = runs[x].checkpoint /\ r.error_message = None
  BY <1>1 DEF DemoRuntimes, DemoPhases, Optional
<1>3. /\ runs[x].at = "resuming" /\ runs[x].checkpoint.next = "END"
      /\ runtimes' = [runtimes EXCEPT ![n] = r]
      /\ runs' = [runs EXCEPT ![x].at = "publish"]
      /\ UNCHANGED <<session, threads, stores, journal, reviews, raised>>
  BY DEF ResumeReturns, At
<1> HIDE DEF r
<1>4. Settles(x, r)
  BY <1>2, <1>3, SettlesFacts
<1>5. QED
  BY <1>2, <1>3, <1>4

LEMMA FailExactly ==
    ASSUME SafeInv, NEW x \in Runs, runs[x].at \in {"starting", "resuming"},
           NEW exception, Fail(x, exception)
    PROVE  /\ raised' = raised \cup {runs[x].runtime}
           /\ \/ /\ runs[x].at = "starting" /\ Others(x) /\ GoesTo(x, "render")
                 /\ UNCHANGED <<session, runtimes, threads, stores, journal, reviews>>
              \/ \E r : /\ Settles(x, r)
                        /\ runs[x].at = "resuming" /\ r.phase = "error"
                        /\ r.error_message = SafeErrorMessage(exception)
<1>1. CASE runs[x].at = "starting"
  BY <1>1, PlaceFacts DEF Fail, Places
<1>2. CASE runs[x].at = "resuming"
  <2> DEFINE n == runs[x].runtime
             r == MarkError(runtimes[n], exception)
  <2>1. n \in Runtimes /\ runtimes[n] \in DemoRuntimes
    BY <1>2 DEF SafeInv, RunsInv, ResumingRun, TypesUsed, Optional
  <2>2. /\ r \in DemoRuntimes /\ r.phase = "error"
        /\ r.error_message = SafeErrorMessage(exception)
    BY <2>1, MarkErrorType DEF MarkError, DemoRuntimes
  <2>3. /\ runtimes' = [runtimes EXCEPT ![n] = r]
        /\ runs' = [runs EXCEPT ![x].at = "publish"]
        /\ UNCHANGED <<session, threads, stores, journal, reviews>>
        /\ raised' = raised \cup {n}
    BY <1>2 DEF Fail
  <2> HIDE DEF r
  <2>4. Settles(x, r)
    BY <1>2, <2>2, <2>3, SettlesFacts
  <2>5. QED
    BY <1>2, <2>2, <2>3, <2>4
<1>3. QED
  BY <1>1, <1>2

LEMMA ResumeCheckExactly ==
    ASSUME SafeInv, NEW x \in Runs, ResumeCheck(x)
    PROVE  /\ runs[x].at = "resume" /\ UNCHANGED raised
           /\ \/ /\ Phase(runs[x].runtime) = "awaiting_approval"
                 /\ Others(x) /\ GoesTo(x, "loading")
                 /\ UNCHANGED <<session, runtimes, threads, stores, journal, reviews>>
              \/ \E r : /\ Settles(x, r) /\ r.phase = "error"
                        /\ Phase(runs[x].runtime) # "awaiting_approval"
<1>1. runs[x].at = "resume" /\ ResumingRun(x) /\ UNCHANGED raised
  BY DEF ResumeCheck, At, SafeInv, RunsInv
<1>2. CASE Phase(runs[x].runtime) = "awaiting_approval"
  BY <1>1, <1>2, PlaceFacts DEF ResumeCheck, Places
<1>3. CASE Phase(runs[x].runtime) # "awaiting_approval"
  <2> DEFINE n == runs[x].runtime
             r == MarkError(runtimes[n], "DemoRuntimeError")
  <2>1. n \in Runtimes /\ runtimes[n] \in DemoRuntimes
    BY <1>1 DEF SafeInv, ResumingRun, TypesUsed, Optional
  <2>2. r \in DemoRuntimes /\ r.phase = "error"
    BY <2>1, MarkErrorType
  <2>3. /\ runtimes' = [runtimes EXCEPT ![n] = r]
        /\ runs' = [runs EXCEPT ![x].at = "publish"]
        /\ UNCHANGED <<session, threads, stores, journal, reviews>>
    BY <1>3 DEF ResumeCheck
  <2> HIDE DEF r
  <2>4. Settles(x, r)
    BY <1>1, <2>2, <2>3, SettlesFacts
  <2>5. QED
    BY <1>1, <1>3, <2>2, <2>4
<1>4. QED
  BY <1>2, <1>3

LEMMA ResumeLoadExactly ==
    ASSUME SafeInv, NEW x \in Runs, ResumeLoad(x)
    PROVE  /\ runs[x].at = "loading" /\ Others(x)
           /\ runs'[x].at = "resuming" /\ runs'[x].event = runs[x].event
           /\ runs'[x].runtime = runs[x].runtime
           /\ runs'[x].checkpoint = threads[runs[x].runtime]
           /\ UNCHANGED <<session, runtimes, threads, stores, journal, reviews, raised>>
  BY DEF ResumeLoad, At, SafeInv, TypesUsed, ScriptRuns, Others

LEMMA RenderExactly ==
    ASSUME SafeInv, NEW x \in Runs, Render(x)
    PROVE  /\ runs[x].at = "render" /\ Others(x)
           /\ UNCHANGED <<session, runtimes, threads, stores, journal, raised>>
           /\ \/ UNCHANGED reviews /\ runs'[x].at = "idle"
              \/ /\ Phase(session) = "awaiting_approval" /\ session \in Runtimes
                 /\ runs[x].event \in DOMAIN DecisionOf
                 /\ runs'[x].at = "resume" /\ runs'[x].runtime = session
                 /\ runs'[x].event = runs[x].event
                 /\ reviews' = reviews \cup
                        {[runtime |-> session, shown |-> runtimes[session].interrupt_payload,
                          decision |-> DecisionOf[runs[x].event], run |-> x]}
<1>1. runs[x] \in ScriptRuns /\ runs \in [Runs -> ScriptRuns] /\ session \in Optional(Runtimes)
  BY DEF SafeInv, TypesUsed
<1>2. /\ runs[x].at = "render"
      /\ UNCHANGED <<session, runtimes, threads, stores, journal, raised>>
  BY DEF Render, At
<1>3. CASE Phase(session) = "awaiting_approval" /\ runs[x].event \in DOMAIN DecisionOf
  <2>1. session \in Runtimes
    BY <1>1, <1>3 DEF Phase, Optional
  <2>2. /\ runs' = [runs EXCEPT ![x].at = "resume", ![x].runtime = session]
        /\ reviews' = reviews \cup
               {[runtime |-> session, shown |-> runtimes[session].interrupt_payload,
                 decision |-> DecisionOf[runs[x].event], run |-> x]}
    BY <1>3 DEF Render
  <2>3. QED
    BY <1>1, <1>2, <1>3, <2>1, <2>2 DEF ScriptRuns, Others
<1>4. CASE ~(Phase(session) = "awaiting_approval" /\ runs[x].event \in DOMAIN DecisionOf)
  <2>1. runs' = [runs EXCEPT ![x] = IdleRun] /\ UNCHANGED reviews
    BY <1>4 DEF Render
  <2>2. QED
    BY <1>1, <1>2, <2>1 DEF Others, IdleRun
<1>5. QED
  BY <1>3, <1>4

LEMMA SubmitCaseExactly ==
    ASSUME SafeInv, NEW x \in Runs, NEW n \in Runtimes, SubmitCase(x, n)
    PROVE  /\ runs[x].at = "submit" /\ Others(x) /\ runtimes[n] = None
           /\ threads[n] = EmptyCheckpoint
           /\ runs'[x].at = "starting" /\ runs'[x].runtime = n
           /\ runs'[x].checkpoint = threads[n]
           /\ \A m \in Runtimes \ {n} : runtimes'[m] = runtimes[m]
           /\ runtimes'[n] # None /\ runtimes'[n].phase = "idle"
           /\ UNCHANGED <<session, threads, stores, journal, reviews, raised>>
<1> DEFINE fresh == [phase |-> "idle", latest_state |-> None,
                     interrupt_payload |-> None, error_message |-> None]
           begun == [runs[x] EXCEPT !.at = "starting", !.runtime = n,
                                    !.checkpoint = threads[n]]
<1>1. /\ runs[x].at = "submit" /\ runtimes[n] = None
      /\ runtimes' = [runtimes EXCEPT ![n] = fresh]
      /\ UNCHANGED <<session, threads, stores, journal, reviews, raised>>
  BY DEF SubmitCase, At
<1>2. runs[x] \in ScriptRuns /\ runs \in [Runs -> ScriptRuns]
  BY DEF SafeInv, TypesUsed
<1>3. runs' = [runs EXCEPT ![x] = begun]
  BY <1>2 DEF SubmitCase
<1>4. begun.at = "starting" /\ begun.runtime = n /\ begun.checkpoint = threads[n]
  BY <1>2 DEF ScriptRuns
<1>5. fresh \in DemoRuntimes /\ fresh.phase = "idle" /\ fresh # None
  <2>1. fresh \in DemoRuntimes
    BY DEF DemoRuntimes, DemoPhases, Optional
  <2>2. QED
    BY <2>1, AbsentAssumption
<1> HIDE DEF fresh, begun
<1>6. /\ \A m \in Runtimes \ {n} : runtimes'[m] = runtimes[m]
      /\ runtimes'[n] = fresh
  BY <1>1 DEF SafeInv, TypesUsed
<1>7. runs'[x] = begun /\ Others(x)
  BY <1>2, <1>3 DEF Others
<1>8. threads[n] = EmptyCheckpoint
  BY <1>1 DEF SafeInv, RuntimesInv
<1>9. QED
  BY <1>1, <1>4, <1>5, <1>6, <1>7, <1>8

\* The other steps of the page move the run and, at most, the session.
LEMMA OtherPageSteps ==
    ASSUME SafeInv, NEW x \in Runs, Stop(x) \/ Top(x) \/ SubmitBlank(x) \/ Publish(x)
    PROVE  /\ runs[x].at \in YieldPlaces /\ Others(x)
           /\ runs'[x].at \in {"idle", "top", "submit", "render"}
           /\ UNCHANGED <<runtimes, threads, stores, journal, reviews, raised>>
<1>1. runs[x] \in ScriptRuns /\ runs \in [Runs -> ScriptRuns]
  BY DEF SafeInv, TypesUsed
<1>2. CASE Stop(x)
  BY <1>1, <1>2 DEF Stop, Others, IdleRun
<1>3. CASE Top(x)
  <2>1. \E place \in {"submit", "render"} : runs' = [runs EXCEPT ![x].at = place]
    BY <1>3 DEF Top
  <2>2. QED
    BY <1>1, <1>3, <2>1 DEF Top, At, YieldPlaces, Others, ScriptRuns
<1>4. CASE SubmitBlank(x)
  BY <1>1, <1>4 DEF SubmitBlank, At, YieldPlaces, Others, ScriptRuns
<1>5. CASE Publish(x)
  <2>1. runs' = [runs EXCEPT ![x] = [IdleRun EXCEPT !.at = "top"]] /\ runs[x].at = "publish"
    BY <1>5 DEF Publish, At
  <2>2. [IdleRun EXCEPT !.at = "top"].at = "top"
    BY DEF IdleRun
  <2>3. QED
    BY <1>1, <1>5, <2>1, <2>2 DEF Publish, YieldPlaces, Others
<1>6. QED
  BY <1>2, <1>3, <1>4, <1>5

\* A click starts a run and an interrupt stops some: nothing else changes.
LEMMA UserExactly ==
    ASSUME SafeInv, NEW x \in Runs,
           (\E event \in Events : Click(x, event)) \/ Interrupt(x)
    PROVE  /\ UNCHANGED <<session, runtimes, threads, stores, journal, reviews, raised>>
           /\ \A y \in Runs :
                  \/ GoesTo(y, runs[y].at)
                  \/ /\ y = x /\ ~Alive(x) /\ runs'[x].at = "top"
                     /\ (FastReruns \/ \A z \in Runs : ~Alive(z))
<1>1. UNCHANGED <<session, runtimes, threads, stores, journal, reviews, raised>>
  BY DEF Click, Interrupt
<1>2. \A y \in Runs : runs[y] \in ScriptRuns
  BY DEF SafeInv, TypesUsed
<1>3. \A y \in Runs :
          \/ runs'[y] = runs[y]
          \/ runs'[y] = [runs[y] EXCEPT !.stopped = TRUE]
          \/ /\ y = x /\ ~Alive(x) /\ (FastReruns \/ \A z \in Runs : ~Alive(z))
             /\ \E event \in Events : runs'[y] = [IdleRun EXCEPT !.at = "top", !.event = event]
  BY DEF Click, Interrupt, SafeInv, TypesUsed
<1>4. \A y \in Runs : runs'[y] = [runs[y] EXCEPT !.stopped = TRUE] => GoesTo(y, runs[y].at)
  BY <1>2 DEF GoesTo, ScriptRuns
<1>5. \A event : [IdleRun EXCEPT !.at = "top", !.event = event].at = "top"
  BY DEF IdleRun
<1>6. \A y \in Runs : runs'[y] = runs[y] => GoesTo(y, runs[y].at)
  BY DEF GoesTo
<1>7. \A y \in Runs :
          (y = x /\ \E event \in Events : runs'[y] = [IdleRun EXCEPT !.at = "top", !.event = event])
             => runs'[x].at = "top"
  BY <1>5
<1>8. ASSUME NEW y \in Runs
      PROVE  \/ GoesTo(y, runs[y].at)
             \/ /\ y = x /\ ~Alive(x) /\ runs'[x].at = "top"
                /\ (FastReruns \/ \A z \in Runs : ~Alive(z))
  <2>1. CASE runs'[y] = runs[y]
    BY <2>1, <1>6
  <2>2. CASE runs'[y] = [runs[y] EXCEPT !.stopped = TRUE]
    BY <2>2, <1>4
  <2>3. CASE /\ y = x /\ ~Alive(x) /\ (FastReruns \/ \A z \in Runs : ~Alive(z))
             /\ \E event \in Events : runs'[y] = [IdleRun EXCEPT !.at = "top", !.event = event]
    BY <2>3, <1>7
  <2>4. QED
    BY <1>3, <2>1, <2>2, <2>3
<1>9. QED
  BY <1>1, <1>8

-----------------------------------------------------------------------------
\* Type correctness.

\* What TypesUsed leaves out.
RestTyped ==
    /\ stores \in [Runtimes -> Stores]
    /\ clicks \in 0..MaxClicks
    /\ reviews \subseteq Reviews
    /\ raised \subseteq Runtimes

LEMMA TypesCombine == SafeInv => (TypeOK <=> RestTyped)
  BY DEF SafeInv, TypesUsed, TypeOK, RestTyped

\* Nobody but the user clicks.
LEMMA ClicksStay ==
    ASSUME NEW x \in Runs, ScriptStep(x)
    PROVE  clicks' = clicks
<1>1. CASE InvokeStep(x)
  BY <1>1 DEF InvokeStep, FirstNodes, HumanApproval, ExecuteApprovedAction, ApprovalRejected,
              FinalResponse, SaveOnly, Execute, Fail
<1>2. CASE RuntimeStep(x)
  BY <1>2 DEF RuntimeStep, StartReturns, ResumeCheck, ResumeLoad, ResumeReturns
<1>3. CASE PageStep(x)
  BY <1>3 DEF PageStep, Stop, Top, SubmitBlank, SubmitCase, Render, Publish
<1>4. QED
  BY <1>1, <1>2, <1>3 DEF ScriptStep

\* The card shows the payload of its own runtime.
LEMMA ReviewType ==
    ASSUME SafeInv, NEW n \in Runtimes, Phase(n) = "awaiting_approval",
           NEW decision \in Decisions, NEW x \in Runs
    PROVE  [runtime |-> n, shown |-> runtimes[n].interrupt_payload, decision |-> decision, run |-> x]
              \in Reviews
<1>1. /\ threads[n].proposed_action \in ProposedActions
      /\ runtimes[n].interrupt_payload = BuildApprovalRequest(n, threads[n].proposed_action)
  BY DEF SafeInv, TypesUsed, RuntimesInv, Phase, Checkpoints, Optional
<1>2. runtimes[n].interrupt_payload \in ApprovalRequests(Runtimes)
  BY <1>1 DEF BuildApprovalRequest, ApprovalRequests, ProposedActions
<1>3. QED
  BY <1>2 DEF Reviews

LEMMA InvokeTyped ==
    ASSUME SafeInv, RestTyped, NEW x \in Runs, InvokeStep(x)
    PROVE  RestTyped'
<1>1. clicks' = clicks
  BY ClicksStay DEF ScriptStep
<1>2. runs[x].at \in {"starting", "resuming"}
  BY InvokeExactly
<1>3. runs[x].runtime \in Runtimes
  BY <1>2 DEF SafeInv, RunsInv, StartingRun, ResumingRun
<1>4. ASSUME NEW exception \in InvokeErrors, Fail(x, exception)
      PROVE  RestTyped'
  BY <1>1, <1>3, <1>4 DEF Fail, RestTyped
<1>5. ASSUME NEW c \in Checkpoints, UNCHANGED <<session, runtimes, reviews, raised>>,
             ExecutesNothing(x, runs[x].checkpoint, c)
      PROVE  RestTyped'
  BY <1>1, <1>5 DEF ExecutesNothing, RestTyped
<1>6. ASSUME NEW c \in Checkpoints, UNCHANGED <<session, runtimes, reviews, raised>>,
             ExecutesIt(x, runs[x].checkpoint, c)
      PROVE  RestTyped'
  <2>1. \E s : /\ stores[runs[x].runtime] \in Stores => s \in Stores
               /\ stores' = [stores EXCEPT ![runs[x].runtime] = s]
    BY <1>6 DEF ExecutesIt
  <2>2. stores' \in [Runtimes -> Stores]
    BY <1>3, <2>1 DEF RestTyped
  <2>3. QED
    BY <1>1, <1>6, <2>2 DEF RestTyped
<1>7. QED
  BY <1>4, <1>5, <1>6, InvokeExactly

LEMMA PageTyped ==
    ASSUME SafeInv, RestTyped, NEW x \in Runs, PageStep(x)
    PROVE  RestTyped'
<1>1. clicks' = clicks
  BY ClicksStay DEF ScriptStep
<1>2. UNCHANGED <<stores, raised>>
  BY DEF PageStep, Stop, Top, SubmitBlank, SubmitCase, Render, Publish
<1>3. reviews' \subseteq Reviews
  <2>1. CASE Render(x)
    <3>1. CASE UNCHANGED reviews
      BY <3>1 DEF RestTyped
    <3>2. CASE /\ Phase(session) = "awaiting_approval" /\ session \in Runtimes
               /\ runs[x].event \in DOMAIN DecisionOf
               /\ reviews' = reviews \cup
                      {[runtime |-> session, shown |-> runtimes[session].interrupt_payload,
                        decision |-> DecisionOf[runs[x].event], run |-> x]}
      <4>1. DecisionOf[runs[x].event] \in Decisions
        BY <3>2 DEF DecisionOf, Decisions
      <4>2. QED
        BY <3>2, <4>1, ReviewType DEF RestTyped
    <3>3. QED
      BY <2>1, <3>1, <3>2, RenderExactly
  <2>2. CASE ~Render(x)
    BY <2>2 DEF RestTyped, PageStep, Stop, Top, SubmitBlank, SubmitCase, Publish
  <2>3. QED
    BY <2>1, <2>2
<1>4. QED
  BY <1>1, <1>2, <1>3 DEF RestTyped

LEMMA TypeStep == SafeInv /\ RestTyped /\ [Next]_vars => RestTyped'
<1> SUFFICES ASSUME SafeInv, RestTyped, [Next]_vars PROVE RestTyped'
  OBVIOUS
<1>1. CASE UNCHANGED vars
  BY <1>1 DEF vars, RestTyped
<1>2. ASSUME NEW x \in Runs, (\E event \in Events : Click(x, event)) \/ Interrupt(x)
      PROVE  RestTyped'
  <2>1. UNCHANGED <<stores, reviews, raised>>
    BY <1>2 DEF Click, Interrupt
  <2>2. clicks' \in 0..MaxClicks
    <3>1. clicks' = clicks \/ (clicks < MaxClicks /\ clicks' = clicks + 1)
      BY <1>2 DEF Click, Interrupt
    <3>2. clicks \in 0..MaxClicks /\ MaxClicks \in Nat
      BY SessionAssumption DEF RestTyped
    <3>3. QED
      BY <3>1, <3>2
  <2>3. QED
    BY <2>1, <2>2 DEF RestTyped
<1>3. ASSUME NEW x \in Runs, RuntimeStep(x)
      PROVE  RestTyped'
  <2>1. clicks' = clicks
    BY <1>3, ClicksStay DEF ScriptStep
  <2>2. UNCHANGED <<stores, reviews, raised>>
    BY <1>3 DEF RuntimeStep, StartReturns, ResumeCheck, ResumeLoad, ResumeReturns
  <2>3. QED
    BY <2>1, <2>2 DEF RestTyped
<1>4. QED
  BY <1>1, <1>2, <1>3, InvokeTyped, PageTyped DEF Next, ScriptStep

LEMMA RestTypedInit == Init => RestTyped
  BY SessionAssumption, StoreUpdateType DEF Init, RestTyped, FreshStore, Stores

\* Whatever the user clicks and however script runs overlap, every variable of
\* the session keeps its type: a runtime is always one that DemoRuntime of
\* demo_runtime.py declares, with a phase of DemoPhase, and a store call
\* leaves records as the actions of the store make them.
THEOREM DemoTypeCorrect == Spec => []TypeOK
<1>1. SafeInv /\ RestTyped => TypeOK
  BY TypesCombine
<1>2. Spec => [](SafeInv /\ RestTyped)
  BY SafeInit, SafeStep, RestTypedInit, TypeStep, PTL DEF Spec
<1>3. QED
  BY <1>1, <1>2, PTL

-----------------------------------------------------------------------------
\* Nothing moves while the card is shown.

\* The case of n as its pause left it.
Quiet(n) ==
    /\ journal[n] = <<>> /\ stores[n] = FreshStore(Fixture)
    /\ threads[n].next = "human_approval" /\ threads[n].human_decision = None
    /\ threads[n].action_result = None /\ ~threads[n].final_response
    /\ runtimes[n].latest_state = threads[n]

\* Nothing is executed before the pause.
NotExecuted(n) == journal[n] = <<>> /\ stores[n] = FreshStore(Fixture)

QuietRuntime(n) ==
    /\ runtimes[n] = None => NotExecuted(n)
    /\ Phase(n) = "awaiting_approval" /\ ~Resuming(n) => Quiet(n)

QuietStart(x) ==
    runs[x].at = "starting" /\ runs[x].checkpoint.next \in {"START", "human_approval"} =>
        /\ NotExecuted(runs[x].runtime)
        /\ runs[x].checkpoint.action_result = None /\ ~runs[x].checkpoint.final_response

\* QuietWhileAwaiting is not inductive: it must be known of a start before it
\* pauses.  A resume ends the phase no later than it ends itself.
QuietInv ==
    /\ \A n \in Runtimes : QuietRuntime(n)
    /\ \A x \in Runs : QuietStart(x)

LEMMA QuietMeansUntouched == SafeInv /\ QuietInv => QuietWhileAwaiting
<1> SUFFICES ASSUME SafeInv, QuietInv, NEW n \in Runtimes,
                    Phase(n) = "awaiting_approval", ~Resuming(n)
             PROVE  /\ journal[n] = <<>> /\ stores[n] = FreshStore(Fixture)
                    /\ threads[n].next = "human_approval" /\ threads[n].human_decision = None
                    /\ runtimes[n].interrupt_payload
                          = BuildApprovalRequest(n, threads[n].proposed_action)
                    /\ runtimes[n].latest_state = threads[n]
  BY DEF QuietWhileAwaiting
<1>1. Quiet(n)
  BY DEF QuietInv, QuietRuntime
<1>2. runtimes[n].interrupt_payload = BuildApprovalRequest(n, threads[n].proposed_action)
  BY DEF SafeInv, RuntimesInv, Phase
<1>3. QED
  BY <1>1, <1>2 DEF Quiet

LEMMA QuietInit == Init => QuietInv
<1> SUFFICES ASSUME Init PROVE QuietInv
  OBVIOUS
<1>1. ASSUME NEW n \in Runtimes PROVE QuietRuntime(n)
  BY DEF Init, QuietRuntime, NotExecuted, Phase
<1>2. ASSUME NEW x \in Runs PROVE QuietStart(x)
  BY DEF Init, QuietStart, IdleRun
<1>3. QED
  BY <1>1, <1>2 DEF QuietInv

\* A resume of n goes on.
ResumesGoOn(n) ==
    \A y \in Runs : runs[y].at = "resuming" /\ runs[y].runtime = n =>
                        runs'[y].at = "resuming" /\ runs'[y].runtime = n

LEMMA QuietElsewhere ==
    ASSUME NEW m \in Runtimes, QuietRuntime(m), ResumesGoOn(m),
           runtimes'[m] = runtimes[m], threads'[m] = threads[m],
           journal'[m] = journal[m], stores'[m] = stores[m]
    PROVE  QuietRuntime(m)'
<1>1. Resuming(m) => Resuming(m)'
  BY DEF Resuming, ResumesGoOn
<1>2. Phase(m)' = Phase(m)
  BY DEF Phase
<1>3. /\ runtimes[m] = None => NotExecuted(m)
      /\ Phase(m) = "awaiting_approval" /\ ~Resuming(m) => Quiet(m)
  BY DEF QuietRuntime
<1>4. NotExecuted(m) => NotExecuted(m)'
  BY DEF NotExecuted
<1>5. Quiet(m) => Quiet(m)'
  BY DEF Quiet
<1>6. QED
  BY <1>1, <1>2, <1>3, <1>4, <1>5 DEF QuietRuntime

\* A start that stays where it is, while its store does too.
LEMMA QuietGoesOn ==
    ASSUME NEW y \in Runs, QuietStart(y),
           runs'[y].at = "starting" =>
               /\ runs[y].at = "starting" /\ runs'[y].runtime = runs[y].runtime
               /\ runs'[y].checkpoint = runs[y].checkpoint
               /\ journal'[runs[y].runtime] = journal[runs[y].runtime]
               /\ stores'[runs[y].runtime] = stores[runs[y].runtime]
    PROVE  QuietStart(y)'
  BY DEF QuietStart, NotExecuted

\* A step of runs that work on no case, or that only arrive there.
LEMMA QuietCalm ==
    ASSUME QuietInv, UNCHANGED <<runtimes, threads, stores, journal>>,
           \A y \in Runs : runs[y].at = "resuming" =>
               runs'[y].at = "resuming" /\ runs'[y].runtime = runs[y].runtime,
           \A y \in Runs : runs'[y].at = "starting" =>
               /\ runs[y].at = "starting" /\ runs'[y].runtime = runs[y].runtime
               /\ runs'[y].checkpoint = runs[y].checkpoint
    PROVE  QuietInv'
<1>1. ASSUME NEW m \in Runtimes PROVE QuietRuntime(m)'
  <2>1. QuietRuntime(m) /\ ResumesGoOn(m)
    BY DEF QuietInv, ResumesGoOn
  <2>2. QED
    BY <2>1, QuietElsewhere
<1>2. ASSUME NEW y \in Runs PROVE QuietStart(y)'
  <2>1. QuietStart(y)
    BY DEF QuietInv
  <2>2. QED
    BY <2>1, QuietGoesOn
<1>3. QED
  BY <1>1, <1>2 DEF QuietInv

LEMMA QuietSubmit ==
    ASSUME SafeInv, QuietInv, NEW x \in Runs, NEW n \in Runtimes, SubmitCase(x, n)
    PROVE  QuietInv'
<1>1. /\ runs[x].at = "submit" /\ Others(x) /\ runtimes[n] = None
      /\ threads[n] = EmptyCheckpoint
      /\ runs'[x].at = "starting" /\ runs'[x].runtime = n /\ runs'[x].checkpoint = threads[n]
      /\ \A m \in Runtimes \ {n} : runtimes'[m] = runtimes[m]
      /\ runtimes'[n] # None /\ runtimes'[n].phase = "idle"
      /\ UNCHANGED <<session, threads, stores, journal, reviews, raised>>
  BY SubmitCaseExactly
<1>2. ASSUME NEW m \in Runtimes PROVE QuietRuntime(m)'
  <2>1. CASE m = n
    BY <1>1, <2>1 DEF QuietRuntime, Phase
  <2>2. CASE m # n
    <3>1. QuietRuntime(m) /\ ResumesGoOn(m) /\ runtimes'[m] = runtimes[m]
      BY <1>1, <2>2 DEF QuietInv, ResumesGoOn, Others
    <3>2. QED
      BY <1>1, <3>1, QuietElsewhere
  <2>3. QED
    BY <2>1, <2>2
<1>3. ASSUME NEW y \in Runs PROVE QuietStart(y)'
  <2>1. CASE y = x
    <3>1. NotExecuted(n)
      BY <1>1 DEF QuietInv, QuietRuntime
    <3>2. NotExecuted(n)'
      BY <1>1, <3>1 DEF NotExecuted
    <3>3. threads[n].action_result = None /\ ~threads[n].final_response
      BY <1>1 DEF EmptyCheckpoint
    <3>4. QED
      BY <1>1, <2>1, <3>2, <3>3 DEF QuietStart, NotExecuted
  <2>2. CASE y # x
    <3>1. QuietStart(y) /\ runs'[y] = runs[y]
      BY <1>1, <2>2 DEF QuietInv, Others
    <3>2. QED
      BY <1>1, <3>1, QuietGoesOn
  <2>3. QED
    BY <2>1, <2>2
<1>4. QED
  BY <1>2, <1>3 DEF QuietInv

LEMMA QuietSave ==
    ASSUME SafeInv, TypeOK, QuietInv, NEW x \in Runs,
           runs[x].at \in {"starting", "resuming"},
           NEW c \in Checkpoints, Save(x, c), UNCHANGED <<session, runtimes, reviews, raised>>,
           ExecutesNothing(x, runs[x].checkpoint, c) \/ ExecutesIt(x, runs[x].checkpoint, c)
    PROVE  QuietInv'
<1> DEFINE n == runs[x].runtime
           b == runs[x].checkpoint
<1>1. /\ Others(x) /\ n \in Runtimes
      /\ runs'[x].at = runs[x].at /\ runs'[x].runtime = n /\ runs'[x].checkpoint = c
      /\ \A m \in Runtimes : threads'[m] = IF m = n THEN c ELSE threads[m]
  BY SaveFacts
<1>2. \A m \in Runtimes \ {n} : journal'[m] = journal[m] /\ stores'[m] = stores[m]
  BY ExecutesElsewhere
<1>3. /\ runs[x].at = "starting" => StartingRun(x)
      /\ runs[x].at = "resuming" => ResumingRun(x)
  BY DEF SafeInv, RunsInv
<1>4. runtimes[n] # None
  BY <1>3 DEF StartingRun, ResumingRun
<1>5. ASSUME NEW m \in Runtimes PROVE QuietRuntime(m)'
  <2>1. CASE m = n /\ runs[x].at = "starting"
    <3>1. runtimes'[n] # None /\ runtimes'[n].phase = "idle"
      BY <1>3, <2>1 DEF StartingRun
    <3>2. QED
      BY <2>1, <3>1 DEF QuietRuntime, Phase
  <2>2. CASE m = n /\ runs[x].at = "resuming"
    BY <1>1, <1>4, <2>2 DEF QuietRuntime, Resuming
  <2>3. CASE m # n
    <3>1. QuietRuntime(m) /\ ResumesGoOn(m) /\ runtimes'[m] = runtimes[m]
      BY <1>1, <2>3 DEF QuietInv, ResumesGoOn, Others
    <3>2. QED
      BY <1>1, <1>2, <2>3, <3>1, QuietElsewhere
  <2>4. QED
    BY <2>1, <2>2, <2>3
<1>6. QuietStart(x)'
  <2>1. SUFFICES ASSUME runs[x].at = "starting", c.next \in {"START", "human_approval"}
                 PROVE  /\ NotExecuted(n)' /\ c.action_result = None /\ ~c.final_response
    BY <1>1 DEF QuietStart, NotExecuted
  <2>2. /\ UNCHANGED <<stores, journal>> /\ c.action_result = b.action_result
        /\ Pauses(x, b, c)
    BY <2>1 DEF ExecutesIt, ExecutesNothing, Closes, Decides, Rejects, Replies
  <2>3. QuietStart(x) /\ b.next = "START" /\ c.final_response = b.final_response
    BY <2>2 DEF QuietInv, Pauses
  <2>4. NotExecuted(n) /\ b.action_result = None /\ ~b.final_response
    BY <2>1, <2>3 DEF QuietStart
  <2>5. QED
    BY <1>1, <2>2, <2>3, <2>4 DEF NotExecuted
<1>7. ASSUME NEW y \in Runs, y # x PROVE QuietStart(y)'
  <2>1. QuietStart(y) /\ runs'[y] = runs[y]
    BY <1>1, <1>7 DEF QuietInv, Others
  <2>2. ASSUME runs[y].at = "starting"
        PROVE  runs[y].runtime \in Runtimes \ {n}
    <3>1. StartingRun(y)
      BY <2>2 DEF SafeInv, RunsInv
    <3>2. QED
      BY <1>3, <1>7, <2>2, <3>1 DEF StartingRun, ResumingRun
  <2>3. QED
    BY <1>2, <2>1, <2>2, QuietGoesOn
<1>8. QED
  BY <1>5, <1>6, <1>7 DEF QuietInv

\* A runtime is settled; it is opened by a start that paused, and only then.
LEMMA QuietSettles ==
    ASSUME SafeInv, QuietInv, NEW x \in Runs, NEW r, Settles(x, r),
           r.phase = "awaiting_approval" =>
               /\ runs[x].at = "starting" /\ runs[x].checkpoint.next = "human_approval"
               /\ r.latest_state = runs[x].checkpoint
    PROVE  QuietInv'
<1> DEFINE n == runs[x].runtime
           b == runs[x].checkpoint
<1>1. /\ n \in Runtimes /\ r \in DemoRuntimes /\ Others(x) /\ GoesTo(x, "publish")
      /\ \A m \in Runtimes : runtimes'[m] = IF m = n THEN r ELSE runtimes[m]
      /\ UNCHANGED <<session, threads, stores, journal, reviews>>
  BY DEF Settles
<1>2. ASSUME NEW m \in Runtimes PROVE QuietRuntime(m)'
  <2>1. CASE m = n /\ r.phase = "awaiting_approval"
    <3>1. NotExecuted(n) /\ b.action_result = None /\ ~b.final_response
      BY <2>1 DEF QuietInv, QuietStart
    <3>2. b = threads[n] /\ b.human_decision = None
      BY <2>1 DEF SafeInv, RunsInv, StartingRun
    <3>3. runtimes'[n] = r /\ r # None
      BY <1>1, AbsentAssumption
    <3>4. QED
      BY <1>1, <2>1, <3>1, <3>2, <3>3 DEF QuietRuntime, Quiet, NotExecuted
  <2>2. CASE m = n /\ r.phase # "awaiting_approval"
    <3>1. runtimes'[n] = r /\ r # None
      BY <1>1, AbsentAssumption
    <3>2. QED
      BY <2>2, <3>1 DEF QuietRuntime, Phase
  <2>3. CASE m # n
    <3>1. QuietRuntime(m) /\ ResumesGoOn(m) /\ runtimes'[m] = runtimes[m]
      BY <1>1, <2>3 DEF QuietInv, ResumesGoOn, Others
    <3>2. QED
      BY <1>1, <3>1, QuietElsewhere
  <2>4. QED
    BY <2>1, <2>2, <2>3
<1>3. ASSUME NEW y \in Runs PROVE QuietStart(y)'
  <2>1. QuietStart(y)
    BY DEF QuietInv
  <2>2. runs'[y].at = "starting" => runs'[y] = runs[y]
    BY <1>1 DEF Others, GoesTo
  <2>3. QED
    BY <1>1, <2>1, <2>2, QuietGoesOn
<1>4. QED
  BY <1>2, <1>3 DEF QuietInv

LEMMA QuietInvoke ==
    ASSUME SafeInv, TypeOK, QuietInv, NEW x \in Runs, InvokeStep(x)
    PROVE  QuietInv'
<1>1. runs[x].at \in {"starting", "resuming"}
  BY InvokeExactly
<1>2. ASSUME NEW exception, Fail(x, exception) PROVE QuietInv'
  <2>1. CASE /\ runs[x].at = "starting" /\ Others(x) /\ GoesTo(x, "render")
             /\ UNCHANGED <<session, runtimes, threads, stores, journal, reviews>>
    BY <2>1, QuietCalm DEF Others, GoesTo
  <2>2. ASSUME NEW r, Settles(x, r), r.phase = "error" PROVE QuietInv'
    BY <2>2, QuietSettles
  <2>3. QED
    BY <1>1, <1>2, <2>1, <2>2, FailExactly
<1>3. QED
  BY <1>1, <1>2, InvokeExactly, QuietSave

LEMMA QuietRuntimeStep ==
    ASSUME SafeInv, QuietInv, NEW x \in Runs, RuntimeStep(x)
    PROVE  QuietInv'
<1>1. CASE StartReturns(x)
  BY <1>1, StartReturnsExactly, QuietSettles
<1>2. CASE ResumeReturns(x)
  BY <1>2, ResumeReturnsExactly, QuietSettles
<1>3. CASE ResumeCheck(x)
  <2>1. CASE /\ runs[x].at = "resume" /\ Others(x) /\ GoesTo(x, "loading")
             /\ UNCHANGED <<session, runtimes, threads, stores, journal, reviews>>
    BY <2>1, QuietCalm DEF Others, GoesTo
  <2>2. ASSUME NEW r, Settles(x, r), r.phase = "error" PROVE QuietInv'
    BY <2>2, QuietSettles
  <2>3. QED
    BY <1>3, <2>1, <2>2, ResumeCheckExactly
<1>4. CASE ResumeLoad(x)
  BY <1>4, ResumeLoadExactly, QuietCalm DEF Others
<1>5. QED
  BY <1>1, <1>2, <1>3, <1>4 DEF RuntimeStep

LEMMA QuietPageStep ==
    ASSUME SafeInv, QuietInv, NEW x \in Runs, PageStep(x)
    PROVE  QuietInv'
<1>1. CASE Stop(x) \/ Top(x) \/ SubmitBlank(x) \/ Publish(x)
  BY <1>1, OtherPageSteps, QuietCalm DEF Others, YieldPlaces
<1>2. CASE Render(x)
  BY <1>2, RenderExactly, QuietCalm DEF Others
<1>3. QED
  BY <1>1, <1>2, QuietSubmit DEF PageStep

LEMMA QuietStep == SafeInv /\ TypeOK /\ QuietInv /\ [Next]_vars => QuietInv'
<1> SUFFICES ASSUME SafeInv, TypeOK, QuietInv, [Next]_vars PROVE QuietInv'
  OBVIOUS
<1>1. CASE UNCHANGED vars
  BY <1>1, QuietCalm DEF vars
<1>2. ASSUME NEW x \in Runs, (\E event \in Events : Click(x, event)) \/ Interrupt(x)
      PROVE  QuietInv'
  <2>1. /\ UNCHANGED <<runtimes, threads, stores, journal>>
        /\ \A y \in Runs : GoesTo(y, runs[y].at)
                           \/ (~Alive(y) /\ runs'[y].at = "top")
    BY <1>2, UserExactly
  <2>2. QED
    BY <2>1, QuietCalm DEF GoesTo, Alive
<1>3. QED
  BY <1>1, <1>2, QuietInvoke, QuietRuntimeStep, QuietPageStep DEF Next, ScriptStep

\* While the approval card of a runtime is up and no resume of it is under
\* way, its case is as the pause left it, however the script runs of the page
\* overlap: interrupt_payload, which the card shows, and latest_state, which
\* the details show, are those of the checkpoint a resume would load, and the
\* store of the runtime has done nothing.
THEOREM CardShowsThePause == Spec => []QuietWhileAwaiting
<1>1. Spec => [](SafeInv /\ TypeOK)
  BY SafeInit, SafeStep, DemoTypeCorrect, PTL DEF Spec
<1>2. Spec => []QuietInv
  BY <1>1, QuietInit, QuietStep, PTL DEF Spec
<1>3. QED
  BY <1>1, <1>2, QuietMeansUntouched, PTL

-----------------------------------------------------------------------------
\* Script runs that overlap, as long as they answer no card twice.

\* The journal of n is what the checkpoint c tells.
Accounted(n, c) ==
    journal[n] = IF c.action_result = None THEN <<>> ELSE <<OperationOf(c.action_result)>>

OnlyDecision(n, decision) == \A v \in reviews : v.runtime = n => v.decision = decision

\* How far a case can be that has or has not executed, been decided, answered.
InOrder(c) ==
    /\ c.action_result # None => c.next \in {"final_response", "END"}
    /\ c.next = "END" <=> c.final_response

AloneStarting(x) ==
    LET n == runs[x].runtime
    IN  Accounted(n, runs[x].checkpoint) /\ InOrder(runs[x].checkpoint)

WorkPlaces == {"resume", "loading", "resuming"}

\* What a resume knows from its load on.
AloneLoaded(x) ==
    LET n == runs[x].runtime
        c == runs[x].checkpoint
    IN  /\ c = threads[n] /\ Accounted(n, c) /\ InOrder(c)
        /\ c.human_decision = IF c.next = "human_approval" THEN None
                                                           ELSE DecisionOf[runs[x].event]

AloneResuming(x) ==
    LET n == runs[x].runtime
    IN  /\ Phase(n) = "awaiting_approval" /\ OnlyDecision(n, DecisionOf[runs[x].event])
        /\ runs[x].at = "resuming" => AloneLoaded(x)

\* Run x works on the case of n, or is about to.
WorksOn(x, n) ==
    runs[x].at \in WorkPlaces \cup {"starting"} /\ runs[x].runtime = n

AloneRun(x) ==
    /\ runs[x].at = "starting" => AloneStarting(x)
    /\ runs[x].at \in WorkPlaces => AloneResuming(x)

Untouched(n) ==
    \A x \in Runs : runs[x].at \in WorkPlaces => runs[x].runtime # n

\* A completed case and what its runtime keeps of it.
Complete(n) ==
    LET told == runtimes[n].latest_state
    IN  /\ told = threads[n] /\ told.final_response /\ Accounted(n, told)
        /\ OnlyDecision(n, told.human_decision)

SettledRuntime(n) ==
    /\ Phase(n) = "awaiting_approval" /\ Untouched(n) => Unreviewed(n)
    /\ Phase(n) = "completed" => Complete(n)
    /\ Phase(n) \in {"completed", "error"} => runtimes[n].error_message # "runtime_state"

\* The run that works on a runtime knows all that was decided and executed
\* for it: no other run works there, or the card would be answered twice.
AloneRuntime(n) ==
    /\ \A x \in Runs : WorksOn(x, n) => AloneRun(x)
    /\ SettledRuntime(n)
    /\ Len(journal[n]) <= 1

AloneInv == \A n \in Runtimes : ~AnsweredTwice(n) => AloneRuntime(n)

LEMMA AloneInit == Init => AloneInv
<1> SUFFICES ASSUME Init, NEW n \in Runtimes PROVE AloneRuntime(n)
  BY DEF AloneInv
<1>1. \A x \in Runs : ~WorksOn(x, n)
  BY DEF Init, WorksOn, IdleRun, WorkPlaces
<1>2. SettledRuntime(n) /\ Len(journal[n]) <= 1
  BY DEF Init, SettledRuntime, Phase
<1>3. QED
  BY <1>1, <1>2 DEF AloneRuntime

\* What was answered twice stays so: reviews are only added.
LEMMA ReviewsStay ==
    ASSUME SafeInv, [Next]_vars
    PROVE  reviews \subseteq reviews'
<1>1. ASSUME NEW x \in Runs, InvokeStep(x) PROVE UNCHANGED reviews
  <2>1. runs[x].at \in {"starting", "resuming"}
    BY <1>1, InvokeExactly
  <2>2. \A exception \in InvokeErrors : Fail(x, exception) => UNCHANGED reviews
    BY DEF Fail
  <2>3. QED
    BY <1>1, <2>2, InvokeExactly
<1>2. ASSUME NEW x \in Runs, RuntimeStep(x) PROVE UNCHANGED reviews
  BY <1>2 DEF RuntimeStep, StartReturns, ResumeCheck, ResumeLoad, ResumeReturns
<1>3. ASSUME NEW x \in Runs, PageStep(x) PROVE reviews \subseteq reviews'
  BY <1>3, OtherPageSteps, RenderExactly, SubmitCaseExactly DEF PageStep
<1>4. QED
  BY <1>1, <1>2, <1>3, UserExactly DEF Next, ScriptStep, vars

LEMMA OnceUntilNow ==
    ASSUME NEW n, reviews \subseteq reviews', ~AnsweredTwice(n)'
    PROVE  ~AnsweredTwice(n)
  BY DEF AnsweredTwice

\* Two runs that work on one case have both answered its card.
LEMMA NobodyElse ==
    ASSUME SafeInv, NEW n, ~AnsweredTwice(n), NEW x \in Runs, WorksOn(x, n)
    PROVE  \A y \in Runs \ {x} : ~WorksOn(y, n)
<1> SUFFICES ASSUME NEW y \in Runs \ {x}, WorksOn(y, n) PROVE FALSE
  OBVIOUS
<1>1. ASSUME NEW z \in Runs
      PROVE  /\ runs[z].at = "starting" => StartingRun(z)
             /\ runs[z].at \in WorkPlaces => ResumingRun(z)
  BY DEF SafeInv, RunsInv, WorkPlaces
<1>2. CASE runs[x].at = "starting"
  <2>1. runtimes[n].phase = "idle" /\ (runs[y].at = "starting" => y = x)
    BY <1>1, <1>2 DEF WorksOn, StartingRun
  <2>2. runs[y].at \in WorkPlaces => runtimes[n].phase # "idle"
    BY <1>1 DEF WorksOn, ResumingRun
  <2>3. QED
    BY <2>1, <2>2 DEF WorksOn
<1>3. CASE runs[y].at = "starting"
  <2>1. runtimes[n].phase = "idle"
    BY <1>1, <1>3 DEF WorksOn, StartingRun
  <2>2. runs[x].at \in WorkPlaces => runtimes[n].phase # "idle"
    BY <1>1 DEF WorksOn, ResumingRun
  <2>3. QED
    BY <1>2, <2>1, <2>2 DEF WorksOn
<1>4. CASE runs[x].at \in WorkPlaces /\ runs[y].at \in WorkPlaces
  <2>1. /\ Review(x, n, threads[n].proposed_action, DecisionOf[runs[x].event]) \in reviews
        /\ Review(y, n, threads[n].proposed_action, DecisionOf[runs[y].event]) \in reviews
    BY <1>1, <1>4 DEF WorksOn, ResumingRun
  <2>2. QED
    BY <2>1 DEF AnsweredTwice, Review
<1>5. QED
  BY <1>2, <1>3, <1>4 DEF WorksOn

\* What is known of a runtime that a step leaves alone.
LEMMA AloneElsewhere ==
    ASSUME NEW m \in Runtimes, AloneRuntime(m),
           runtimes'[m] = runtimes[m], threads'[m] = threads[m], journal'[m] = journal[m],
           \A v \in reviews' : v.runtime = m => v \in reviews,
           \A y \in Runs : WorksOn(y, m)' => GoesTo(y, runs[y].at),
           Untouched(m)' => Untouched(m)
    PROVE  AloneRuntime(m)'
<1>1. Phase(m)' = Phase(m)
  BY DEF Phase
<1>2. Unreviewed(m) => Unreviewed(m)'
  BY DEF Unreviewed
<1>3. ASSUME NEW decision, OnlyDecision(m, decision) PROVE OnlyDecision(m, decision)'
  BY <1>3 DEF OnlyDecision
<1>4. Complete(m) => Complete(m)'
  <2>1. SUFFICES ASSUME Complete(m) PROVE Complete(m)'
    OBVIOUS
  <2>2. OnlyDecision(m, runtimes[m].latest_state.human_decision)'
    BY <2>1, <1>3 DEF Complete
  <2>3. QED
    BY <2>1, <2>2 DEF Complete, Accounted, OnlyDecision
<1>5. SettledRuntime(m)'
  BY <1>1, <1>2, <1>4 DEF AloneRuntime, SettledRuntime
<1>6. ASSUME NEW y \in Runs, WorksOn(y, m)' PROVE AloneRun(y)'
  <2>1. GoesTo(y, runs[y].at) /\ AloneRun(y) /\ runs[y].runtime = m /\ runs'[y].runtime = m
    BY <1>6 DEF GoesTo, WorksOn, AloneRuntime
  <2>2. AloneStarting(y) => AloneStarting(y)'
    BY <2>1 DEF AloneStarting, GoesTo, Accounted
  <2>3. AloneLoaded(y) => AloneLoaded(y)'
    BY <2>1 DEF AloneLoaded, GoesTo, Accounted
  <2>4. OnlyDecision(m, DecisionOf[runs[y].event])
           => OnlyDecision(runs[y].runtime, DecisionOf[runs[y].event])'
    BY <1>3, <2>1 DEF OnlyDecision, GoesTo
  <2>5. AloneResuming(y) => AloneResuming(y)'
    BY <1>1, <2>1, <2>3, <2>4 DEF AloneResuming, GoesTo
  <2>6. QED
    BY <2>1, <2>2, <2>5 DEF AloneRun, GoesTo
<1>7. QED
  BY <1>5, <1>6 DEF AloneRuntime

\* A step of x about another case, or one that gives its case up.
LEMMA AloneAside ==
    ASSUME NEW m \in Runtimes, AloneRuntime(m), NEW x \in Runs, Others(x),
           runs[x].at \in WorkPlaces => runs[x].runtime # m, ~WorksOn(x, m)',
           runtimes'[m] = runtimes[m], threads'[m] = threads[m], journal'[m] = journal[m],
           \A v \in reviews' : v.runtime = m => v \in reviews
    PROVE  AloneRuntime(m)'
<1>1. \A y \in Runs : WorksOn(y, m)' => GoesTo(y, runs[y].at)
  BY DEF Others, WorksOn, GoesTo
<1>2. Untouched(m)' => Untouched(m)
  BY DEF Untouched, Others
<1>3. QED
  BY <1>1, <1>2, AloneElsewhere

\* A step of x about the case of m, on which nobody else works.
LEMMA AloneHere ==
    ASSUME NEW m \in Runtimes, NEW x \in Runs, Others(x),
           \A y \in Runs \ {x} : ~WorksOn(y, m),
           WorksOn(x, m)' => AloneRun(x)',
           SettledRuntime(m)', Len(journal'[m]) <= 1
    PROVE  AloneRuntime(m)'
<1>1. \A y \in Runs \ {x} : ~WorksOn(y, m)'
  BY DEF Others, WorksOn
<1>2. QED
  BY <1>1 DEF AloneRuntime

\* A step of a run that keeps the runtimes and works on none, before or after.
LEMMA AloneCalm ==
    ASSUME NEW m \in Runtimes, AloneRuntime(m), NEW x \in Runs, Others(x),
           UNCHANGED <<runtimes, threads, journal, reviews>>,
           runs[x].at \notin WorkPlaces,
           runs'[x].at \notin WorkPlaces \cup {"starting"}
    PROVE  AloneRuntime(m)'
<1>1. ~WorksOn(x, m)'
  BY DEF WorksOn
<1>2. QED
  BY <1>1, AloneAside

LEMMA AloneSubmit ==
    ASSUME SafeInv, QuietInv, NEW m \in Runtimes, AloneRuntime(m),
           NEW x \in Runs, NEW n \in Runtimes, SubmitCase(x, n)
    PROVE  AloneRuntime(m)'
<1>1. /\ runs[x].at = "submit" /\ Others(x) /\ runtimes[n] = None
      /\ threads[n] = EmptyCheckpoint
      /\ runs'[x].at = "starting" /\ runs'[x].runtime = n /\ runs'[x].checkpoint = threads[n]
      /\ \A k \in Runtimes \ {n} : runtimes'[k] = runtimes[k]
      /\ runtimes'[n] # None /\ runtimes'[n].phase = "idle"
      /\ UNCHANGED <<session, threads, stores, journal, reviews, raised>>
  BY SubmitCaseExactly
<1>2. AloneRun(x)'
  <2>1. journal'[n] = <<>>
    BY <1>1 DEF QuietInv, QuietRuntime, NotExecuted
  <2>2. /\ threads[n].action_result = None /\ ~threads[n].final_response
        /\ threads[n].next = "START"
    BY <1>1 DEF EmptyCheckpoint
  <2>3. QED
    BY <1>1, <2>1, <2>2 DEF AloneRun, AloneStarting, Accounted, InOrder, WorkPlaces
<1>3. CASE m = n
  <2>1. \A y \in Runs : ~WorksOn(y, m)
    BY <1>1, <1>3 DEF SafeInv, RunsInv, StartingRun, ResumingRun, WorksOn, WorkPlaces
  <2>2. SettledRuntime(m)'
    BY <1>1, <1>3 DEF SettledRuntime, Phase
  <2>3. Len(journal'[m]) <= 1
    BY <1>1 DEF AloneRuntime
  <2>4. QED
    BY <1>1, <1>2, <2>1, <2>2, <2>3, AloneHere
<1>4. CASE m # n
  <2>1. ~WorksOn(x, m)'
    BY <1>1, <1>4 DEF WorksOn
  <2>2. QED
    BY <1>1, <1>4, <2>1, AloneAside DEF WorkPlaces
<1>5. QED
  BY <1>3, <1>4

\* What a run that works on a case knows of the checkpoint it saves next.
LEMMA NextCheckpoint ==
    ASSUME SafeInv, TypeOK, NEW x \in Runs, runs[x].at \in {"starting", "resuming"},
           NEW c, UNCHANGED <<session, runtimes, reviews, raised>>, Save(x, c),
           ExecutesNothing(x, runs[x].checkpoint, c) \/ ExecutesIt(x, runs[x].checkpoint, c),
           Accounted(runs[x].runtime, runs[x].checkpoint), InOrder(runs[x].checkpoint),
           Len(journal[runs[x].runtime]) <= 1
    PROVE  /\ Accounted(runs[x].runtime, c)' /\ InOrder(c)
           /\ Len(journal'[runs[x].runtime]) <= 1
<1> DEFINE n == runs[x].runtime
           b == runs[x].checkpoint
<1>1. n \in Runtimes /\ journal \in [Runtimes -> Seq(Operations)] /\ runs'[x].runtime = n
  BY SaveFacts DEF TypeOK
<1>2. CASE ExecutesNothing(x, b, c)
  <2>1. /\ journal' = journal /\ c.action_result = b.action_result
        /\ Closes(x, b, c) \/ Pauses(x, b, c) \/ Decides(x, b, c)
           \/ Rejects(x, b, c) \/ Replies(x, b, c)
    BY <1>2 DEF ExecutesNothing
  <2>2. InOrder(c)
    <3>1. CASE Replies(x, b, c)
      BY <2>1, <3>1 DEF Replies, InOrder
    <3>2. CASE Closes(x, b, c) \/ Pauses(x, b, c) \/ Decides(x, b, c) \/ Rejects(x, b, c)
      <4>1. /\ b.next \notin {"final_response", "END"}
            /\ c.next # "END" /\ c.final_response = b.final_response
        BY <3>2 DEF Closes, Pauses, Decides, Rejects, Kept
      <4>2. QED
        BY <2>1, <4>1 DEF InOrder
    <3>3. QED
      BY <2>1, <3>1, <3>2
  <2>3. QED
    BY <1>1, <2>1, <2>2 DEF Accounted
<1>3. CASE ExecutesIt(x, b, c)
  <2>1. /\ b.next \in {"START", "execute_approved_action"}
        /\ c.next = "final_response" /\ c.final_response = b.final_response
        /\ c.action_result \in ActionResults
        /\ journal' = [journal EXCEPT ![n] = Append(@, OperationOf(c.action_result))]
    BY <1>3 DEF ExecutesIt
  <2>2. b.action_result = None /\ ~b.final_response
    BY <2>1 DEF InOrder
  <2>3. journal'[n] = <<OperationOf(c.action_result)>>
    BY <1>1, <2>1, <2>2 DEF Accounted
  <2>4. c.action_result # None
    BY <2>1, AbsentAssumption
  <2>5. QED
    BY <1>1, <2>1, <2>2, <2>3, <2>4 DEF Accounted, InOrder
<1>4. QED
  BY <1>2, <1>3

LEMMA AloneSave ==
    ASSUME SafeInv, TypeOK, NEW m \in Runtimes, ~AnsweredTwice(m), AloneRuntime(m),
           NEW x \in Runs, runs[x].at \in {"starting", "resuming"},
           NEW c \in Checkpoints, Save(x, c), UNCHANGED <<session, runtimes, reviews, raised>>,
           ExecutesNothing(x, runs[x].checkpoint, c) \/ ExecutesIt(x, runs[x].checkpoint, c)
    PROVE  AloneRuntime(m)'
<1> DEFINE n == runs[x].runtime
           b == runs[x].checkpoint
<1>1. /\ Others(x) /\ n \in Runtimes
      /\ runs'[x].at = runs[x].at /\ runs'[x].event = runs[x].event
      /\ runs'[x].runtime = n /\ runs'[x].checkpoint = c
      /\ \A k \in Runtimes : threads'[k] = IF k = n THEN c ELSE threads[k]
  BY SaveFacts
<1>2. CASE m # n
  <2>1. journal'[m] = journal[m]
    BY <1>2, ExecutesElsewhere
  <2>2. ~WorksOn(x, m)'
    BY <1>1, <1>2 DEF WorksOn
  <2>3. QED
    BY <1>1, <1>2, <2>1, <2>2, AloneAside
<1>3. CASE m = n
  <2>1. WorksOn(x, n) /\ AloneRun(x)
    BY <1>3 DEF WorksOn, WorkPlaces, AloneRuntime
  <2>2. \A y \in Runs \ {x} : ~WorksOn(y, m)
    BY <1>3, <2>1, NobodyElse
  <2>3. /\ runs[x].at = "starting" => AloneStarting(x)
        /\ runs[x].at = "resuming" => AloneResuming(x) /\ AloneLoaded(x)
    BY <2>1 DEF AloneRun, AloneResuming, WorkPlaces
  <2>4. Accounted(n, b) /\ InOrder(b) /\ Len(journal[n]) <= 1
    BY <1>3, <2>3 DEF AloneRuntime, AloneStarting, AloneLoaded
  <2>5. Accounted(n, c)' /\ InOrder(c) /\ Len(journal'[n]) <= 1
    BY <2>4, NextCheckpoint
  <2>6. runs[x].at = "starting" => AloneStarting(x)'
    BY <1>1, <2>5 DEF AloneStarting, Accounted
  <2>7. runs[x].at = "resuming" => AloneResuming(x)'
    <3>1. SUFFICES ASSUME runs[x].at = "resuming" PROVE AloneResuming(x)'
      OBVIOUS
    <3> DEFINE decision == DecisionOf[runs[x].event]
    <3>2. /\ Phase(n) = "awaiting_approval" /\ OnlyDecision(n, decision)
          /\ b.human_decision = IF b.next = "human_approval" THEN None ELSE decision
      BY <2>3, <3>1 DEF AloneResuming, AloneLoaded
    <3>3. c.next # "human_approval" /\ c.human_decision = decision
      BY <3>1, <3>2 DEF ExecutesNothing, ExecutesIt, Closes, Pauses, Decides, Rejects,
                        Replies, Kept
    <3>4. AloneLoaded(x)'
      BY <1>1, <2>5, <3>3 DEF AloneLoaded, Accounted
    <3>5. Phase(runs[x].runtime)' = "awaiting_approval"
      BY <1>1, <3>2 DEF Phase
    <3>6. OnlyDecision(runs[x].runtime, DecisionOf[runs[x].event])'
      BY <1>1, <3>2 DEF OnlyDecision
    <3>7. QED
      BY <3>4, <3>5, <3>6 DEF AloneResuming
  <2>8. AloneRun(x)'
    BY <1>1, <2>6, <2>7 DEF AloneRun, WorkPlaces
  <2>9. SettledRuntime(m)'
    <3>1. CASE runs[x].at = "starting"
      <4>1. Phase(m)' = "idle"
        BY <1>3, <3>1 DEF SafeInv, RunsInv, StartingRun, Phase
      <4>2. QED
        BY <4>1 DEF SettledRuntime
    <3>2. CASE runs[x].at = "resuming"
      <4>1. Phase(m)' = "awaiting_approval" /\ ~Untouched(m)'
        BY <1>1, <1>3, <2>3, <3>2 DEF AloneResuming, Phase, Untouched, WorkPlaces
      <4>2. QED
        BY <4>1 DEF SettledRuntime
    <3>3. QED
      BY <3>1, <3>2
  <2>10. QED
    BY <1>1, <1>3, <2>2, <2>5, <2>8, <2>9, AloneHere
<1>4. QED
  BY <1>2, <1>3

\* A runtime is settled by the run that works on it.
LEMMA AloneSettles ==
    ASSUME SafeInv, NEW m \in Runtimes, ~AnsweredTwice(m), AloneRuntime(m),
           NEW x \in Runs, NEW r, Settles(x, r),
           r.phase = "awaiting_approval" => runs[x].at = "starting",
           r.phase = "completed" =>
               /\ runs[x].at \in {"starting", "resuming"}
               /\ runs[x].checkpoint.next = "END"
               /\ r.latest_state = runs[x].checkpoint,
           m = runs[x].runtime => r.error_message # "runtime_state",
           runs[x].at = "starting" => Unreviewed(runs[x].runtime)
    PROVE  AloneRuntime(m)'
<1> DEFINE n == runs[x].runtime
           b == runs[x].checkpoint
<1>1. /\ n \in Runtimes /\ r \in DemoRuntimes /\ r # None
      /\ runs[x].at \in {"starting", "resume", "resuming"}
      /\ Others(x) /\ runs'[x].at = "publish"
      /\ \A k \in Runtimes : runtimes'[k] = IF k = n THEN r ELSE runtimes[k]
      /\ UNCHANGED <<session, threads, stores, journal, reviews>>
  BY AbsentAssumption DEF Settles, GoesTo
<1>2. ~WorksOn(x, m)'
  BY <1>1 DEF WorksOn, WorkPlaces
<1>3. CASE m # n
  BY <1>1, <1>2, <1>3, AloneAside
<1>4. CASE m = n
  <2>1. WorksOn(x, n) /\ AloneRun(x)
    BY <1>1, <1>4 DEF WorksOn, WorkPlaces, AloneRuntime
  <2>2. \A y \in Runs \ {x} : ~WorksOn(y, m)
    BY <1>4, <2>1, NobodyElse
  <2>3. runtimes'[m] = r /\ Phase(m)' = r.phase
    BY <1>1, <1>4, SessionAssumption DEF Phase
  <2>4. r.phase = "awaiting_approval" => Unreviewed(m)'
    BY <1>1, <1>4 DEF Unreviewed
  <2>5. ASSUME r.phase = "completed" PROVE Complete(m)'
    <3>1. b = threads[n] /\ Accounted(n, b) /\ InOrder(b)
      <4>1. CASE runs[x].at = "starting"
        BY <2>1, <4>1 DEF SafeInv, RunsInv, StartingRun, AloneRun, AloneStarting
      <4>2. CASE runs[x].at = "resuming"
        BY <2>1, <4>2 DEF AloneRun, AloneResuming, AloneLoaded, WorkPlaces
      <4>3. QED
        BY <2>5, <4>1, <4>2
    <3>2. OnlyDecision(n, b.human_decision)
      <4>1. CASE runs[x].at = "starting"
        BY <4>1 DEF OnlyDecision, Unreviewed
      <4>2. CASE runs[x].at = "resuming"
        BY <2>1, <2>5, <4>2 DEF AloneRun, AloneResuming, AloneLoaded, WorkPlaces
      <4>3. QED
        BY <2>5, <4>1, <4>2
    <3>3. b.final_response /\ r.latest_state = b
      BY <2>5, <3>1 DEF InOrder
    <3>4. OnlyDecision(m, b.human_decision)'
      BY <1>1, <1>4, <3>2 DEF OnlyDecision, GoesTo, Settles
    <3>5. QED
      BY <1>1, <1>4, <2>3, <3>1, <3>2, <3>3, <3>4 DEF Complete, Accounted, OnlyDecision
  <2>6. SettledRuntime(m)'
    BY <1>1, <1>4, <2>3, <2>4, <2>5 DEF SettledRuntime
  <2>7. Len(journal'[m]) <= 1
    BY <1>1 DEF AloneRuntime
  <2>8. QED
    BY <1>1, <1>2, <2>2, <2>6, <2>7, AloneHere
<1>5. QED
  BY <1>3, <1>4

\* The card is answered: nobody had answered it before, or it is answered twice.
LEMMA AloneRender ==
    ASSUME SafeInv, NEW m \in Runtimes, ~AnsweredTwice(m)', AloneRuntime(m),
           NEW x \in Runs, Render(x)
    PROVE  AloneRuntime(m)'
<1>1. /\ runs[x].at = "render" /\ Others(x)
      /\ UNCHANGED <<session, runtimes, threads, stores, journal, raised>>
  BY RenderExactly
<1>2. CASE UNCHANGED reviews /\ runs'[x].at = "idle"
  BY <1>1, <1>2, AloneCalm DEF WorkPlaces
<1>3. CASE /\ Phase(session) = "awaiting_approval" /\ session \in Runtimes
           /\ runs'[x].at = "resume" /\ runs'[x].runtime = session
           /\ runs'[x].event = runs[x].event
           /\ reviews' = reviews \cup
                  {[runtime |-> session, shown |-> runtimes[session].interrupt_payload,
                    decision |-> DecisionOf[runs[x].event], run |-> x]}
  <2>1. CASE m # session
    <3>1. \A v \in reviews' : v.runtime = m => v \in reviews
      BY <1>3, <2>1
    <3>2. ~WorksOn(x, m)'
      BY <1>3, <2>1 DEF WorksOn
    <3>3. QED
      BY <1>1, <3>1, <3>2, AloneAside DEF WorkPlaces
  <2>2. CASE m = session
    <3> DEFINE answer == [runtime |-> session,
                          shown |-> runtimes[session].interrupt_payload,
                          decision |-> DecisionOf[runs[x].event], run |-> x]
    <3>1. \A v \in reviews : v.runtime = m => v.run = x
      <4>1. answer \in reviews' /\ answer.runtime = m /\ answer.run = x
        BY <1>3, <2>2
      <4>2. QED
        BY <1>3, <4>1 DEF AnsweredTwice
    <3>2. Untouched(m)
      <4>1. ASSUME NEW y \in Runs, runs[y].at \in WorkPlaces, runs[y].runtime = m
            PROVE  FALSE
        <5>1. Review(y, m, threads[m].proposed_action, DecisionOf[runs[y].event]) \in reviews
          BY <4>1 DEF SafeInv, RunsInv, ResumingRun, WorkPlaces
        <5>2. y = x
          BY <3>1, <5>1 DEF Review
        <5>3. QED
          BY <1>1, <4>1, <5>2 DEF WorkPlaces
      <4>2. QED
        BY <4>1 DEF Untouched
    <3>3. Unreviewed(m)
      BY <1>3, <2>2, <3>2 DEF AloneRuntime, SettledRuntime
    <3>4. \A y \in Runs : ~WorksOn(y, m)
      BY <1>3, <2>2, <3>2 DEF WorksOn, Untouched, SafeInv, RunsInv, StartingRun, Phase
    <3>5. OnlyDecision(session, DecisionOf[runs[x].event])'
      <4>1. ASSUME NEW v \in reviews', v.runtime = session
            PROVE  v.decision = DecisionOf[runs[x].event]
        BY <1>3, <2>2, <3>3, <4>1 DEF Unreviewed
      <4>2. QED
        BY <1>1, <1>3, <4>1 DEF OnlyDecision
    <3>6. Phase(session)' = "awaiting_approval"
      BY <1>1, <1>3 DEF Phase
    <3>7. AloneRun(x)'
      BY <1>1, <1>3, <3>5, <3>6 DEF AloneRun, AloneResuming, OnlyDecision, Phase, WorkPlaces
    <3>8. SettledRuntime(m)'
      <4>1. ~Untouched(m)'
        BY <1>3, <2>2 DEF Untouched, WorkPlaces
      <4>2. QED
        BY <1>1, <1>3, <2>2, <3>6, <4>1 DEF SettledRuntime, Phase
    <3>9. Len(journal'[m]) <= 1
      BY <1>1 DEF AloneRuntime
    <3>10. QED
      BY <1>1, <3>4, <3>7, <3>8, <3>9, AloneHere
  <2>3. QED
    BY <2>1, <2>2
<1>4. QED
  BY <1>2, <1>3, RenderExactly

\* The resume goes on to its load, and past it.
LEMMA AloneGoesOn ==
    ASSUME SafeInv, NEW m \in Runtimes, ~AnsweredTwice(m), AloneRuntime(m),
           NEW x \in Runs, runs[x].at \in WorkPlaces,
           Others(x), runs'[x].runtime = runs[x].runtime, runs'[x].event = runs[x].event,
           UNCHANGED <<session, runtimes, threads, stores, journal, reviews>>,
           \/ runs'[x].at = "loading"
           \/ runs'[x].at = "resuming" /\ (m = runs[x].runtime => AloneLoaded(x)')
    PROVE  AloneRuntime(m)'
<1>1. runs'[x].at \in WorkPlaces
  BY DEF WorkPlaces
<1>2. CASE m # runs[x].runtime
  <2>1. ~WorksOn(x, m)'
    BY <1>2 DEF WorksOn
  <2>2. QED
    BY <1>2, <2>1, AloneAside
<1>3. CASE m = runs[x].runtime
  <2>1. WorksOn(x, m) /\ AloneResuming(x)
    BY <1>3 DEF WorksOn, AloneRuntime, AloneRun
  <2>2. \A y \in Runs \ {x} : ~WorksOn(y, m)
    BY <2>1, NobodyElse
  <2>3. Phase(runs[x].runtime)' = "awaiting_approval"
    BY <2>1 DEF AloneResuming, Phase
  <2>4. OnlyDecision(runs[x].runtime, DecisionOf[runs[x].event])'
    BY <2>1 DEF AloneResuming, OnlyDecision
  <2>5. AloneResuming(x)'
    BY <1>3, <2>3, <2>4 DEF AloneResuming
  <2>6. AloneRun(x)'
    BY <1>1, <2>5 DEF AloneRun, WorkPlaces
  <2>7. SettledRuntime(m)'
    BY <1>1, <1>3, <2>3 DEF SettledRuntime, Untouched
  <2>8. Len(journal'[m]) <= 1
    BY DEF AloneRuntime
  <2>9. QED
    BY <2>2, <2>6, <2>7, <2>8, AloneHere
<1>4. QED
  BY <1>2, <1>3

\* The pause is loaded by the resume that answered its card.
LEMMA LoadsThePause ==
    ASSUME SafeInv, QuietInv, NEW x \in Runs, runs[x].at = "loading",
           ~AnsweredTwice(runs[x].runtime), AloneRuntime(runs[x].runtime)
    PROVE  Quiet(runs[x].runtime)
<1> DEFINE n == runs[x].runtime
<1>1. n \in Runtimes /\ WorksOn(x, n)
  BY DEF SafeInv, RunsInv, ResumingRun, WorksOn, WorkPlaces
<1>2. Phase(n) = "awaiting_approval"
  BY <1>1 DEF AloneRuntime, AloneRun, AloneResuming, WorkPlaces
<1>3. ~Resuming(n)
  BY <1>1, NobodyElse DEF Resuming, WorksOn, WorkPlaces
<1>4. QED
  BY <1>1, <1>2, <1>3 DEF QuietInv, QuietRuntime

LEMMA AloneLoad ==
    ASSUME SafeInv, QuietInv, NEW m \in Runtimes, ~AnsweredTwice(m), AloneRuntime(m),
           NEW x \in Runs, ResumeLoad(x)
    PROVE  AloneRuntime(m)'
<1> DEFINE n == runs[x].runtime
<1>1. /\ runs[x].at = "loading" /\ Others(x)
      /\ runs'[x].at = "resuming" /\ runs'[x].event = runs[x].event
      /\ runs'[x].runtime = n /\ runs'[x].checkpoint = threads[n]
      /\ UNCHANGED <<session, runtimes, threads, stores, journal, reviews, raised>>
  BY ResumeLoadExactly
<1>2. ASSUME m = n PROVE AloneLoaded(x)'
  <2>1. Quiet(n)
    BY <1>1, <1>2, LoadsThePause
  <2>2. Accounted(n, threads[n]) /\ InOrder(threads[n])
    BY <2>1 DEF Quiet, Accounted, InOrder
  <2>3. threads[n].next = "human_approval" /\ threads[n].human_decision = None
    BY <2>1 DEF Quiet
  <2>4. QED
    BY <1>1, <2>2, <2>3 DEF AloneLoaded, Accounted
<1>3. QED
  BY <1>1, <1>2, AloneGoesOn DEF WorkPlaces

\* A start that ends knows that nobody was asked about its runtime.
LEMMA StartUnreviewed ==
    ASSUME SafeInv, OpenedInv, NEW x \in Runs, runs[x].at = "starting"
    PROVE  Unreviewed(runs[x].runtime)
  BY DEF SafeInv, RunsInv, StartingRun, OpenedInv, Opened, Unreviewed

LEMMA AloneInvoke ==
    ASSUME SafeInv, TypeOK, OpenedInv, NEW m \in Runtimes, ~AnsweredTwice(m),
           AloneRuntime(m), NEW x \in Runs, InvokeStep(x)
    PROVE  AloneRuntime(m)'
<1>1. runs[x].at \in {"starting", "resuming"}
  BY InvokeExactly
<1>2. ASSUME NEW exception \in InvokeErrors, Fail(x, exception) PROVE AloneRuntime(m)'
  <2>1. CASE /\ runs[x].at = "starting" /\ Others(x) /\ GoesTo(x, "render")
             /\ UNCHANGED <<session, runtimes, threads, stores, journal, reviews>>
    BY <2>1, AloneCalm DEF GoesTo, WorkPlaces
  <2>2. SafeErrorMessage(exception) # "runtime_state"
    BY <1>2 DEF InvokeErrors, SafeErrorMessage
  <2>3. ASSUME NEW r, Settles(x, r), runs[x].at = "resuming", r.phase = "error",
               r.error_message = SafeErrorMessage(exception)
        PROVE  AloneRuntime(m)'
    BY <2>2, <2>3, AloneSettles
  <2>4. QED
    BY <1>1, <1>2, <2>1, <2>3, FailExactly
<1>3. QED
  BY <1>1, <1>2, InvokeExactly, AloneSave

LEMMA AloneRuntimeStep ==
    ASSUME SafeInv, OpenedInv, QuietInv, NEW m \in Runtimes, ~AnsweredTwice(m),
           AloneRuntime(m), NEW x \in Runs, RuntimeStep(x)
    PROVE  AloneRuntime(m)'
<1>1. None # "runtime_state"
  BY AbsentAssumption DEF SafeMessages
<1>2. CASE StartReturns(x)
  <2>1. PICK r : /\ Settles(x, r) /\ runs[x].at = "starting"
                 /\ runs[x].checkpoint.next \in {"human_approval", "END"}
                 /\ r.phase = IF runs[x].checkpoint.next = "human_approval"
                              THEN "awaiting_approval" ELSE "completed"
                 /\ r.latest_state = runs[x].checkpoint /\ r.error_message = None
    BY <1>2, StartReturnsExactly
  <2>2. Unreviewed(runs[x].runtime)
    BY <2>1, StartUnreviewed
  <2>3. QED
    BY <1>1, <2>1, <2>2, AloneSettles
<1>3. CASE ResumeReturns(x)
  BY <1>1, <1>3, ResumeReturnsExactly, AloneSettles
<1>4. CASE ResumeCheck(x)
  <2>1. CASE Others(x) /\ GoesTo(x, "loading") /\ runs[x].at = "resume"
             /\ UNCHANGED <<session, runtimes, threads, stores, journal, reviews>>
    BY <2>1, AloneGoesOn DEF GoesTo, WorkPlaces
  <2>2. ASSUME NEW r, Settles(x, r), r.phase = "error", runs[x].at = "resume",
               Phase(runs[x].runtime) # "awaiting_approval"
        PROVE  AloneRuntime(m)'
    <3>1. m # runs[x].runtime
      BY <2>2 DEF AloneRuntime, WorksOn, AloneRun, AloneResuming, WorkPlaces
    <3>2. QED
      BY <2>2, <3>1, AloneSettles
  <2>3. QED
    BY <1>4, <2>1, <2>2, ResumeCheckExactly
<1>5. CASE ResumeLoad(x)
  BY <1>5, AloneLoad
<1>6. QED
  BY <1>2, <1>3, <1>4, <1>5 DEF RuntimeStep

LEMMA AlonePageStep ==
    ASSUME SafeInv, QuietInv, NEW m \in Runtimes, ~AnsweredTwice(m)', AloneRuntime(m),
           NEW x \in Runs, PageStep(x)
    PROVE  AloneRuntime(m)'
<1>1. CASE Stop(x) \/ Top(x) \/ SubmitBlank(x) \/ Publish(x)
  BY <1>1, OtherPageSteps, AloneCalm DEF WorkPlaces, YieldPlaces
<1>2. QED
  BY <1>1, AloneRender, AloneSubmit DEF PageStep

\* A click starts a run at the top of the script and stops no invoke.
LEMMA AloneUser ==
    ASSUME SafeInv, NEW m \in Runtimes, AloneRuntime(m), NEW x \in Runs,
           (\E event \in Events : Click(x, event)) \/ Interrupt(x)
    PROVE  AloneRuntime(m)'
<1>1. /\ UNCHANGED <<session, runtimes, threads, stores, journal, reviews, raised>>
      /\ \A y \in Runs :
             \/ GoesTo(y, runs[y].at)
             \/ y = x /\ ~Alive(x) /\ runs'[x].at = "top"
  BY UserExactly
<1>2. \A y \in Runs : WorksOn(y, m)' => GoesTo(y, runs[y].at)
  BY <1>1 DEF WorksOn, WorkPlaces
<1>3. Untouched(m)' => Untouched(m)
  BY <1>1 DEF Untouched, GoesTo, Alive, WorkPlaces
<1>4. QED
  BY <1>1, <1>2, <1>3, AloneElsewhere

LEMMA AloneIdle ==
    ASSUME NEW m \in Runtimes, AloneRuntime(m), UNCHANGED vars
    PROVE  AloneRuntime(m)'
<1>1. \A y \in Runs : WorksOn(y, m)' => GoesTo(y, runs[y].at)
  BY DEF vars, GoesTo
<1>2. Untouched(m)' => Untouched(m)
  BY DEF vars, Untouched
<1>3. QED
  BY <1>1, <1>2, AloneElsewhere DEF vars

LEMMA AloneStep ==
    SafeInv /\ TypeOK /\ OpenedInv /\ QuietInv /\ AloneInv /\ [Next]_vars => AloneInv'
<1> SUFFICES ASSUME SafeInv, TypeOK, OpenedInv, QuietInv, AloneInv, [Next]_vars,
                    NEW m \in Runtimes, ~AnsweredTwice(m)'
             PROVE  AloneRuntime(m)'
  BY DEF AloneInv
<1>1. ~AnsweredTwice(m) /\ AloneRuntime(m)
  BY ReviewsStay, OnceUntilNow DEF AloneInv
<1>2. QED
  BY <1>1, AloneIdle, AloneUser, AloneInvoke, AloneRuntimeStep, AlonePageStep
     DEF Next, ScriptStep

LEMMA AloneInvariance == Spec => [](SafeInv /\ AloneInv)
<1>1. Spec => [](SessionInv /\ SafeInv /\ OpenedInv)
  BY SessionInvariance, PTL DEF SessionInv
<1>2. Spec => []QuietInv
  BY <1>1, DemoTypeCorrect, QuietInit, QuietStep, PTL DEF Spec
<1>3. QED
  BY <1>1, <1>2, DemoTypeCorrect, AloneInit, AloneStep, PTL DEF Spec

\* A runtime whose card was answered by no two runs executes at most once, and
\* once it completed it reports what its store executed and what the reviewer
\* decided: latest_state, which start_demo_case and resume_demo_case set, is
\* never behind the store, whatever other script runs do meanwhile.
THEOREM CompletionIsTruthful == Spec => []CompletedTellsTheTruth
<1>1. AloneInv => CompletedTellsTheTruth
  <2>1. SUFFICES ASSUME AloneInv, NEW n \in Runtimes, ~AnsweredTwice(n)
                 PROVE  /\ Len(journal[n]) <= 1
                        /\ Phase(n) = "completed" => Complete(n)
    BY DEF CompletedTellsTheTruth, Complete, Accounted, OperationOf, OnlyDecision
  <2>2. QED
    BY <2>1 DEF AloneInv, AloneRuntime, SettledRuntime
<1>2. QED
  BY <1>1, AloneInvariance, PTL

\* Who works on a case has its runtime open, or about to be.
LEMMA SettledStays ==
    ASSUME SafeInv, TypeOK, AloneInv, [Next]_vars,
           NEW n \in Runtimes, ~AnsweredTwice(n), Phase(n) \in {"completed", "error"}
    PROVE  runtimes'[n] = runtimes[n] /\ stores'[n] = stores[n] /\ journal'[n] = journal[n]
<1>1. runtimes[n] # None /\ runtimes[n].phase \in {"completed", "error"}
  BY DEF Phase
<1>2. ASSUME NEW x \in Runs, runs[x].at \in WorkPlaces \cup {"starting"}
      PROVE  runs[x].runtime # n
  <2>1. CASE runs[x].at = "starting"
    BY <1>1, <2>1 DEF SafeInv, RunsInv, StartingRun
  <2>2. CASE runs[x].at \in WorkPlaces
    BY <1>1, <2>2 DEF AloneInv, AloneRuntime, WorksOn, AloneRun, AloneResuming
  <2>3. QED
    BY <1>2, <2>1, <2>2
<1>3. CASE UNCHANGED <<runtimes, stores, journal>>
  BY <1>3
<1>4. ASSUME NEW x \in Runs, NEW r, Settles(x, r)
      PROVE  runtimes'[n] = runtimes[n] /\ UNCHANGED <<stores, journal>>
  BY <1>2, <1>4 DEF Settles, WorkPlaces
<1>5. ASSUME NEW x \in Runs, runs[x].at \in {"starting", "resuming"}, NEW c,
             UNCHANGED <<session, runtimes, reviews, raised>>,
             ExecutesNothing(x, runs[x].checkpoint, c) \/ ExecutesIt(x, runs[x].checkpoint, c)
      PROVE  runtimes'[n] = runtimes[n] /\ stores'[n] = stores[n] /\ journal'[n] = journal[n]
  BY <1>2, <1>5, ExecutesElsewhere DEF WorkPlaces
<1>6. ASSUME NEW x \in Runs, InvokeStep(x)
      PROVE  runtimes'[n] = runtimes[n] /\ stores'[n] = stores[n] /\ journal'[n] = journal[n]
  BY <1>3, <1>4, <1>5, <1>6, InvokeExactly, FailExactly
<1>7. ASSUME NEW x \in Runs, RuntimeStep(x)
      PROVE  runtimes'[n] = runtimes[n] /\ stores'[n] = stores[n] /\ journal'[n] = journal[n]
  BY <1>3, <1>4, <1>7, StartReturnsExactly, ResumeReturnsExactly, ResumeCheckExactly,
     ResumeLoadExactly DEF RuntimeStep
<1>8. ASSUME NEW x \in Runs, PageStep(x)
      PROVE  runtimes'[n] = runtimes[n] /\ stores'[n] = stores[n] /\ journal'[n] = journal[n]
  <2>1. ASSUME NEW m \in Runtimes, SubmitCase(x, m)
        PROVE  runtimes'[n] = runtimes[n] /\ UNCHANGED <<stores, journal>>
    BY <1>1, <2>1, SubmitCaseExactly
  <2>2. QED
    BY <1>3, <1>8, <2>1, OtherPageSteps, RenderExactly DEF PageStep
<1>9. QED
  BY <1>3, <1>6, <1>7, <1>8, UserExactly DEF Next, ScriptStep, vars

\* Nothing touches a runtime that completed or failed, neither its store nor
\* what the page shows of it, and no resume of it was refused for coming out
\* of order: script runs may be stopped, late or about another case, as long
\* as no two of them answered its card.
THEOREM SettledStaysSettled == Spec => SettledIsFinal
<1>1. SafeInv /\ TypeOK /\ AloneInv /\ [Next]_vars =>
          [\A n \in Runtimes : Phase(n) \in {"completed", "error"} /\ ~AnsweredTwice(n) =>
              /\ runtimes'[n] = runtimes[n]
              /\ stores'[n] = stores[n] /\ journal'[n] = journal[n]
              /\ runtimes[n].error_message # "runtime_state"]_vars
  BY SettledStays DEF AloneInv, AloneRuntime, SettledRuntime
<1>2. QED
  BY <1>1, AloneInvariance, DemoTypeCorrect, PTL DEF Spec, SettledIsFinal

-----------------------------------------------------------------------------
\* The contract of a request, its safety half.

\* What a checkpoint says of the nodes the case went through.
InStep(c) ==
    /\ c.next = "START" => c.proposed_action = None
    /\ c.next = "execute_approved_action" => c.human_decision = "approved"
    /\ c.next = "approval_rejected" => c.human_decision = "rejected"
    /\ c.next = "final_response" /\ c.human_decision = "approved" => c.action_result # None

\* A runtime whose invoke raised is worked on by nobody.
Failed(n) ==
    n \in raised =>
        /\ runtimes[n] # None /\ Phase(n) # "awaiting_approval"
        /\ \A x \in Runs : runs[x].at = "starting" => runs[x].runtime # n

Working(x) == runs[x].at \in {"starting", "resuming"}

\* Run x works on a case whose card was answered at most once: nobody else does.
OnlyWorker(x) == Working(x) /\ ~AnsweredTwice(runs[x].runtime)

LEMMA OnlyWorkerKnows ==
    ASSUME SafeInv, AloneInv, NEW x \in Runs, OnlyWorker(x)
    PROVE  /\ runs[x].runtime \in Runtimes
           /\ runs[x].at = "starting" => StartingRun(x) /\ AloneStarting(x)
           /\ runs[x].at = "resuming" => ResumingRun(x) /\ AloneResuming(x) /\ AloneLoaded(x)
<1>1. /\ runs[x].at = "starting" => StartingRun(x)
      /\ runs[x].at = "resuming" => ResumingRun(x)
  BY DEF SafeInv, RunsInv
<1>2. runs[x].runtime \in Runtimes
  BY <1>1 DEF OnlyWorker, Working, StartingRun, ResumingRun
<1>3. AloneRun(x)
  BY <1>2 DEF OnlyWorker, Working, AloneInv, AloneRuntime, WorksOn, WorkPlaces
<1>4. QED
  BY <1>1, <1>2, <1>3 DEF AloneRun, AloneResuming, WorkPlaces

ProgressInv ==
    /\ \A x \in Runs : OnlyWorker(x) => InStep(runs[x].checkpoint)
    /\ \A n \in Runtimes : Failed(n)

LEMMA ProgressInit == Init => ProgressInv
  BY DEF Init, ProgressInv, OnlyWorker, Working, Failed, IdleRun

\* A step that starts nothing and in which nothing raises.
LEMMA ProgressCalm ==
    ASSUME ProgressInv, UNCHANGED <<raised, runtimes>>, reviews \subseteq reviews',
           \A y \in Runs : Working(y)' =>
               /\ Working(y) /\ runs'[y].checkpoint = runs[y].checkpoint
               /\ runs'[y].runtime = runs[y].runtime,
           \A y \in Runs : runs'[y].at = "starting" =>
               runs[y].at = "starting" /\ runs'[y].runtime = runs[y].runtime
    PROVE  ProgressInv'
<1>1. ASSUME NEW y \in Runs, OnlyWorker(y)' PROVE InStep(runs'[y].checkpoint)
  <2>1. OnlyWorker(y) /\ runs'[y].checkpoint = runs[y].checkpoint
    BY <1>1, OnceUntilNow DEF OnlyWorker
  <2>2. QED
    BY <2>1 DEF ProgressInv
<1>2. ASSUME NEW m \in Runtimes PROVE Failed(m)'
  BY DEF ProgressInv, Failed, Phase
<1>3. QED
  BY <1>1, <1>2 DEF ProgressInv, InStep

\* Runtime n, and only it, is set by a step that starts nothing.
LEMMA ProgressSettles ==
    ASSUME SafeInv, ProgressInv, NEW x \in Runs, NEW r, Settles(x, r),
           \/ UNCHANGED raised /\ Working(x)
           \/ r.phase # "awaiting_approval" /\ raised' \subseteq raised \cup {runs[x].runtime},
           r.phase = "awaiting_approval" => runs[x].at = "starting"
    PROVE  ProgressInv'
<1> DEFINE n == runs[x].runtime
<1>1. /\ n \in Runtimes /\ r # None /\ UNCHANGED reviews
      /\ Others(x) /\ runs'[x].at = "publish"
      /\ \A m \in Runtimes : runtimes'[m] = IF m = n THEN r ELSE runtimes[m]
  BY AbsentAssumption DEF Settles, GoesTo
<1>2. \A y \in Runs : Working(y)' => runs'[y] = runs[y]
  BY <1>1 DEF Working, Others
<1>3. \A y \in Runs : OnlyWorker(y)' => InStep(runs'[y].checkpoint)
  <2>1. \A y \in Runs : OnlyWorker(y)' => OnlyWorker(y)
    BY <1>1, <1>2 DEF OnlyWorker, Working, AnsweredTwice
  <2>2. QED
    BY <1>2, <2>1 DEF ProgressInv, OnlyWorker
<1>4. runs[x].at \in {"starting", "resume", "resuming"}
  BY DEF Settles
<1>5. ASSUME NEW m \in Runtimes, m \in raised' PROVE Failed(m)'
  <2>1. CASE m # n
    <3>1. m \in raised /\ Failed(m) /\ runtimes'[m] = runtimes[m]
      BY <1>1, <1>5, <2>1 DEF ProgressInv
    <3>2. QED
      BY <1>2, <3>1 DEF Failed, Phase, Working
  <2>2. CASE m = n
    <3>1. r.phase # "awaiting_approval"
      BY <1>4, <1>5, <2>2 DEF ProgressInv, Failed
    <3>2. \A y \in Runs \ {x} : runs[y].at = "starting" => runs[y].runtime # n
      <4>1. /\ runs[x].at = "starting" => StartingRun(x)
            /\ runs[x].at \in WorkPlaces => ResumingRun(x)
            /\ \A y \in Runs : runs[y].at = "starting" => StartingRun(y)
        BY DEF SafeInv, RunsInv, WorkPlaces
      <4>2. QED
        BY <1>4, <4>1 DEF StartingRun, ResumingRun, WorkPlaces
    <3>3. runtimes'[n] = r /\ Phase(m)' # "awaiting_approval"
      BY <1>1, <2>2, <3>1, SessionAssumption DEF Phase
    <3>4. QED
      BY <1>1, <2>2, <3>2, <3>3 DEF Failed, Others
  <2>3. QED
    BY <2>1, <2>2
<1>6. QED
  BY <1>3, <1>5 DEF ProgressInv, Failed, InStep

LEMMA ProgressSave ==
    ASSUME SafeInv, AloneInv, ProgressInv, NEW x \in Runs, Working(x),
           NEW c, Save(x, c), UNCHANGED <<session, runtimes, reviews, raised>>,
           ExecutesNothing(x, runs[x].checkpoint, c) \/ ExecutesIt(x, runs[x].checkpoint, c)
    PROVE  ProgressInv'
<1> DEFINE b == runs[x].checkpoint
<1>1. /\ Others(x) /\ runs'[x].at = runs[x].at
      /\ runs'[x].runtime = runs[x].runtime /\ runs'[x].checkpoint = c
  BY SaveFacts DEF Working
<1>2. OnlyWorker(x) => InStep(b)
  BY DEF ProgressInv
<1>3. runs[x].at = "starting" => b.human_decision = None
  BY DEF SafeInv, RunsInv, StartingRun
<1>4. runs[x].at = "resuming" => DecisionOf[runs[x].event] \in Decisions
  BY DEF SafeInv, RunsInv, ResumingRun, DecisionOf, Decisions
<1>5. ASSUME OnlyWorker(x) PROVE InStep(c)
  <2>1. CASE ExecutesIt(x, b, c)
    <3>1. c.next = "final_response" /\ c.action_result \in ActionResults
      BY <2>1 DEF ExecutesIt
    <3>2. QED
      BY <3>1, AbsentAssumption DEF InStep
  <2>2. CASE Closes(x, b, c)
    BY <1>3, <2>2, AbsentAssumption DEF Closes, Kept, InStep, Decisions
  <2>3. CASE Pauses(x, b, c) \/ Replies(x, b, c)
    BY <2>3 DEF Pauses, Replies, InStep
  <2>4. CASE Decides(x, b, c)
    BY <1>4, <2>4 DEF Decides, InStep, Decisions
  <2>5. CASE Rejects(x, b, c)
    BY <1>2, <1>5, <2>5 DEF Rejects, Kept, InStep
  <2>6. QED
    BY <2>1, <2>2, <2>3, <2>4, <2>5 DEF ExecutesNothing
<1>6. \A y \in Runs : OnlyWorker(y)' => InStep(runs'[y].checkpoint)
  <2>1. \A y \in Runs : OnlyWorker(y)' => OnlyWorker(y)
    BY <1>1 DEF OnlyWorker, Working, AnsweredTwice, Others
  <2>2. \A y \in Runs : OnlyWorker(y) => InStep(runs[y].checkpoint)
    BY DEF ProgressInv
  <2>3. QED
    BY <1>1, <1>5, <2>1, <2>2 DEF Others
<1>7. ASSUME NEW m \in Runtimes PROVE Failed(m)'
  BY <1>1 DEF ProgressInv, Failed, Phase, Others
<1>8. QED
  BY <1>6, <1>7 DEF ProgressInv, InStep

LEMMA ProgressSubmit ==
    ASSUME SafeInv, ProgressInv, NEW x \in Runs, NEW n \in Runtimes, SubmitCase(x, n)
    PROVE  ProgressInv'
<1>1. /\ runs[x].at = "submit" /\ Others(x) /\ runtimes[n] = None
      /\ threads[n] = EmptyCheckpoint
      /\ runs'[x].at = "starting" /\ runs'[x].runtime = n /\ runs'[x].checkpoint = threads[n]
      /\ \A m \in Runtimes \ {n} : runtimes'[m] = runtimes[m]
      /\ UNCHANGED <<session, threads, stores, journal, reviews, raised>>
  BY SubmitCaseExactly
<1>2. InStep(EmptyCheckpoint)
  BY AbsentAssumption DEF InStep, EmptyCheckpoint, Decisions
<1>3. ASSUME NEW y \in Runs, OnlyWorker(y)' PROVE InStep(runs'[y].checkpoint)
  <2>1. CASE y = x
    BY <1>1, <1>2, <2>1
  <2>2. CASE y # x
    BY <1>1, <1>3, <2>2 DEF ProgressInv, OnlyWorker, Working, AnsweredTwice, Others
  <2>3. QED
    BY <2>1, <2>2
<1>4. ASSUME NEW m \in Runtimes, m \in raised' PROVE Failed(m)'
  <2>1. m \in raised /\ Failed(m) /\ m # n
    BY <1>1, <1>4 DEF ProgressInv, Failed
  <2>2. QED
    BY <1>1, <2>1 DEF Failed, Phase, Others
<1>5. QED
  BY <1>3, <1>4 DEF ProgressInv, Failed, InStep

LEMMA ProgressInvoke ==
    ASSUME SafeInv, AloneInv, ProgressInv, NEW x \in Runs, InvokeStep(x)
    PROVE  ProgressInv'
<1> DEFINE n == runs[x].runtime
<1>1. Working(x)
  BY InvokeExactly DEF Working
<1>2. ASSUME NEW exception \in InvokeErrors, Fail(x, exception) PROVE ProgressInv'
  <2>1. CASE /\ runs[x].at = "starting" /\ Others(x) /\ GoesTo(x, "render")
             /\ UNCHANGED <<session, runtimes, threads, stores, journal, reviews>>
             /\ raised' = raised \cup {n}
    <3>1. \A y \in Runs : Working(y)' => runs'[y] = runs[y]
      BY <2>1 DEF Working, Others, GoesTo
    <3>2. \A y \in Runs : OnlyWorker(y)' => InStep(runs'[y].checkpoint)
      BY <2>1, <3>1 DEF ProgressInv, OnlyWorker, Working, AnsweredTwice
    <3>3. StartingRun(x) /\ \A y \in Runs : runs'[y].at = "starting" =>
                                y # x /\ runs'[y] = runs[y]
      BY <2>1 DEF SafeInv, RunsInv, Others, GoesTo
    <3>4. ASSUME NEW m \in Runtimes, m \in raised' PROVE Failed(m)'
      <4>1. CASE m = n
        BY <2>1, <3>3, <4>1 DEF Failed, StartingRun, Phase
      <4>2. CASE m # n
        BY <2>1, <3>3, <3>4, <4>2 DEF ProgressInv, Failed, Phase
      <4>3. QED
        BY <4>1, <4>2
    <3>5. QED
      BY <3>2, <3>4 DEF ProgressInv, Failed, InStep
  <2>2. ASSUME NEW r, Settles(x, r), r.phase = "error", raised' = raised \cup {n}
        PROVE  ProgressInv'
    BY <2>2, ProgressSettles
  <2>3. QED
    BY <1>1, <1>2, <2>1, <2>2, FailExactly DEF Working
<1>3. QED
  BY <1>1, <1>2, InvokeExactly, ProgressSave

LEMMA ProgressRuntimeStep ==
    ASSUME SafeInv, QuietInv, AloneInv, ProgressInv, NEW x \in Runs, RuntimeStep(x)
    PROVE  ProgressInv'
<1>1. CASE StartReturns(x)
  BY <1>1, StartReturnsExactly, ProgressSettles DEF Working
<1>2. CASE ResumeReturns(x)
  BY <1>2, ResumeReturnsExactly, ProgressSettles DEF Working
<1>3. CASE ResumeCheck(x)
  <2>1. CASE Others(x) /\ GoesTo(x, "loading") /\ UNCHANGED <<runtimes, raised, reviews>>
    BY <2>1, ProgressCalm DEF GoesTo, Others, Working
  <2>2. ASSUME NEW r, Settles(x, r), r.phase = "error", UNCHANGED raised
        PROVE  ProgressInv'
    BY <2>2, ProgressSettles
  <2>3. QED
    BY <1>3, <2>1, <2>2, ResumeCheckExactly
<1>4. CASE ResumeLoad(x)
  <2> DEFINE n == runs[x].runtime
  <2>1. /\ runs[x].at = "loading" /\ Others(x) /\ n \in Runtimes
        /\ runs'[x].at = "resuming" /\ runs'[x].checkpoint = threads[n]
        /\ runs'[x].runtime = n /\ UNCHANGED <<runtimes, raised, reviews>>
    BY <1>4, ResumeLoadExactly DEF SafeInv, RunsInv, ResumingRun
  <2>2. ASSUME NEW y \in Runs, OnlyWorker(y)' PROVE InStep(runs'[y].checkpoint)
    <3>1. CASE y = x
      <4>1. ~AnsweredTwice(n) /\ AloneRuntime(n)
        BY <2>1, <2>2, <3>1 DEF OnlyWorker, AnsweredTwice, AloneInv
      <4>2. threads[n].next = "human_approval"
        BY <2>1, <4>1, LoadsThePause DEF Quiet
      <4>3. QED
        BY <2>1, <3>1, <4>2 DEF InStep
    <3>2. CASE y # x
      BY <2>1, <2>2, <3>2 DEF ProgressInv, OnlyWorker, Working, AnsweredTwice, Others
    <3>3. QED
      BY <3>1, <3>2
  <2>3. ASSUME NEW m \in Runtimes PROVE Failed(m)'
    BY <2>1 DEF ProgressInv, Failed, Phase, Others
  <2>4. QED
    BY <2>2, <2>3 DEF ProgressInv, InStep
<1>5. QED
  BY <1>1, <1>2, <1>3, <1>4 DEF RuntimeStep

LEMMA ProgressPageStep ==
    ASSUME SafeInv, ProgressInv, NEW x \in Runs, PageStep(x)
    PROVE  ProgressInv'
<1>1. CASE Stop(x) \/ Top(x) \/ SubmitBlank(x) \/ Publish(x)
  BY <1>1, OtherPageSteps, ProgressCalm DEF Others, Working
<1>2. CASE Render(x)
  BY <1>2, RenderExactly, ProgressCalm DEF Others, Working
<1>3. QED
  BY <1>1, <1>2, ProgressSubmit DEF PageStep

LEMMA ProgressStep ==
    SafeInv /\ QuietInv /\ AloneInv /\ ProgressInv /\ [Next]_vars => ProgressInv'
<1> SUFFICES ASSUME SafeInv, QuietInv, AloneInv, ProgressInv, [Next]_vars PROVE ProgressInv'
  OBVIOUS
<1>1. CASE UNCHANGED vars
  BY <1>1, ProgressCalm DEF vars, Working
<1>2. ASSUME NEW x \in Runs, (\E event \in Events : Click(x, event)) \/ Interrupt(x)
      PROVE  ProgressInv'
  <2>1. /\ UNCHANGED <<runtimes, raised, reviews>>
        /\ \A y \in Runs : GoesTo(y, runs[y].at) \/ runs'[y].at = "top"
    BY <1>2, UserExactly
  <2>2. QED
    BY <2>1, ProgressCalm DEF GoesTo, Working
<1>3. QED
  BY <1>1, <1>2, ProgressInvoke, ProgressRuntimeStep, ProgressPageStep DEF Next, ScriptStep

-----------------------------------------------------------------------------
\* What the contract sees.

DemoInv == SafeInv /\ TypeOK /\ OpenedInv /\ QuietInv /\ AloneInv /\ ProgressInv

LEMMA DemoInvariance == Spec => []DemoInv
<1>1. Spec => [](SessionInv /\ SafeInv /\ OpenedInv)
  BY SessionInvariance, PTL DEF SessionInv
<1>2. Spec => []QuietInv
  BY <1>1, DemoTypeCorrect, QuietInit, QuietStep, PTL DEF Spec
<1>3. Spec => []AloneInv
  BY AloneInvariance, PTL
<1>4. Spec => []ProgressInv
  BY <1>1, <1>2, <1>3, ProgressInit, ProgressStep, PTL DEF Spec
<1>5. QED
  BY <1>1, <1>2, <1>3, <1>4, DemoTypeCorrect, PTL DEF DemoInv

\* The phase of a case that neither was answered nor raised, by its checkpoint.
PhaseSeen(c) ==
    IF c.final_response THEN "answered"
    ELSE IF c.action_result # None THEN "performed"
    ELSE IF c.human_decision # None THEN c.human_decision
    ELSE IF c.next = "human_approval" THEN "review"
    ELSE "open"

LEMMA PhaseIsSeen ==
    ASSUME DemoInv, NEW x \in Runs, OnlyWorker(x)
    PROVE  /\ runs[x].runtime \in Runtimes /\ runs[x].runtime \notin raised
           /\ runtimes[runs[x].runtime] # None
           /\ threads[runs[x].runtime] = runs[x].checkpoint
           /\ ContractPhase(runs[x].runtime) = PhaseSeen(runs[x].checkpoint)
<1> DEFINE n == runs[x].runtime
           c == runs[x].checkpoint
<1>1. /\ n \in Runtimes
      /\ runs[x].at = "starting" => StartingRun(x) /\ AloneStarting(x)
      /\ runs[x].at = "resuming" => ResumingRun(x) /\ AloneResuming(x) /\ AloneLoaded(x)
  BY OnlyWorkerKnows DEF DemoInv
<1>2. /\ runtimes[n] # None /\ threads[n] = c /\ Accounted(n, c)
      /\ runs[x].at = "resuming" => Phase(n) = "awaiting_approval"
  BY <1>1 DEF OnlyWorker, Working, StartingRun, AloneStarting, ResumingRun, AloneResuming,
              AloneLoaded
<1>3. n \notin raised
  BY <1>1, <1>2 DEF OnlyWorker, Working, DemoInv, ProgressInv, Failed
<1>4. ContractPhase(n) = PhaseSeen(c)
  BY <1>2, <1>3 DEF ContractPhase, PhaseSeen, Accounted
<1>5. QED
  BY <1>1, <1>2, <1>3, <1>4

PhasesAgree ==
    \A x \in Runs : OnlyWorker(x) =>
        /\ runtimes[runs[x].runtime] # None
        /\ runs[x].runtime \notin raised
        /\ threads[runs[x].runtime] = runs[x].checkpoint
        /\ ContractPhase(runs[x].runtime) = PhaseSeen(runs[x].checkpoint)

LEMMA PhasesAgreeAlways == DemoInv => PhasesAgree
  BY PhaseIsSeen DEF PhasesAgree

LEMMA PhasesAgreeNext == DemoInv' => PhasesAgree'
  BY PhasesAgreeAlways, PTL

\* A case whose checkpoint, journal and failure stay is the same to the contract.
LEMMA SeenElsewhere ==
    ASSUME NEW m \in Runtimes, runtimes'[m] = None <=> runtimes[m] = None,
           m \in raised' <=> m \in raised,
           threads'[m] = threads[m], journal'[m] = journal[m]
    PROVE  ContractPhase(m)' = ContractPhase(m) /\ ContractOperation(m)' = ContractOperation(m)
<1>1. ContractOperation(m)' = ContractOperation(m)
  BY DEF ContractOperation
<1>2. ContractPhase(m)' = ContractPhase(m)
  BY DEF ContractPhase
<1>3. QED
  BY <1>1, <1>2

-----------------------------------------------------------------------------
\* The moves of the contract.

\* What a step does for the case of n, as the contract has it.
Same(n) == ContractPhase(n)' = ContractPhase(n) /\ ContractOperation(n)' = ContractOperation(n)

Moved(n, from, to) == ContractPhase(n) \in from /\ ContractPhase(n)' = to

ContractMove(n) ==
    \/ Same(n)
    \/ Moved(n, {"unseen"}, "open") /\ ContractOperation(n)' = ContractOperation(n)
    \/ /\ Moved(n, {"open"}, "review")
       /\ ContractOperation(n)' \in Operations /\ IsSensitive(ContractOperation(n)')
    \/ /\ Moved(n, {"review"}, "approved") \/ Moved(n, {"review"}, "rejected")
       /\ ContractOperation(n)' = ContractOperation(n)
    \/ /\ Moved(n, {"open"}, "performed")
       /\ ContractOperation(n)' \in Operations /\ ~IsSensitive(ContractOperation(n)')
    \/ Moved(n, {"approved"}, "performed") /\ ContractOperation(n)' = ContractOperation(n)
    \/ /\ Moved(n, {"open", "rejected", "performed"}, "answered")
       /\ ContractOperation(n)' = ContractOperation(n)
    \/ /\ Moved(n, {"open", "review", "approved", "rejected", "performed"}, "failed")
       /\ ContractOperation(n)' = ContractOperation(n)

\* What a step may do to the contract, cards that were answered twice aside.
KeepsContract ==
    \/ Contract!Next
    \/ \A m \in Runtimes : ~AnsweredTwice(m) => Same(m)

\* Two moves that are the progress of a case.
LEMMA OffersAndPerforms ==
    ASSUME NEW n, NEW op \in Operations
    PROVE  /\ IsSensitive(op) /\ Contract!Offer(n, op) => Contract!Progress(n)
           /\ ~IsSensitive(op) /\ Contract!PerformSafe(n, op) => Contract!Progress(n)
  BY DEF Contract!Progress

LEMMA SeenMoves ==
    ASSUME NEW n \in Runtimes, ContractMove(n), \A m \in Runtimes \ {n} : Same(m)
    PROVE  KeepsContract
<1> USE DEF KeepsContract
<1>1. ASSUME NEW from, NEW to, Moved(n, from, to)
      PROVE  Contract!Move(n, from, to)
  BY <1>1 DEF Moved, Same, Contract!Move
<1>2. [m \in Runtimes |-> ContractOperation(m)]' =
          [[m \in Runtimes |-> ContractOperation(m)] EXCEPT ![n] = ContractOperation(n)']
  BY DEF Same
<1>3. ContractOperation(n)' = ContractOperation(n) => UNCHANGED [m \in Runtimes |-> ContractOperation(m)]
  BY DEF Same
<1>4. CASE Same(n)
  BY <1>4
<1>5. CASE Moved(n, {"unseen"}, "open") /\ ContractOperation(n)' = ContractOperation(n)
  BY <1>1, <1>3, <1>5 DEF Contract!Next, Contract!Submit
<1>6. CASE /\ Moved(n, {"open"}, "review")
           /\ ContractOperation(n)' \in Operations /\ IsSensitive(ContractOperation(n)')
  <2>1. PICK op \in Operations : op = ContractOperation(n)' /\ IsSensitive(op)
    BY <1>6
  <2>2. Contract!Offer(n, op)
    BY <1>1, <1>2, <1>6, <2>1 DEF Contract!Offer
  <2>3. Contract!Progress(n)
    BY <2>1, <2>2, OffersAndPerforms
  <2>4. QED
    BY <2>3 DEF Contract!Next
<1>7. CASE /\ Moved(n, {"review"}, "approved") \/ Moved(n, {"review"}, "rejected")
           /\ ContractOperation(n)' = ContractOperation(n)
  BY <1>1, <1>3, <1>7 DEF Contract!Next, Contract!Decide
<1>8. CASE /\ Moved(n, {"open"}, "performed")
           /\ ContractOperation(n)' \in Operations /\ ~IsSensitive(ContractOperation(n)')
  <2>1. PICK op \in Operations : op = ContractOperation(n)' /\ ~IsSensitive(op)
    BY <1>8
  <2>2. Contract!PerformSafe(n, op)
    BY <1>1, <1>2, <1>8, <2>1 DEF Contract!PerformSafe
  <2>3. Contract!Progress(n)
    BY <2>1, <2>2, OffersAndPerforms
  <2>4. QED
    BY <2>3 DEF Contract!Next
<1>9. CASE Moved(n, {"approved"}, "performed") /\ ContractOperation(n)' = ContractOperation(n)
  BY <1>1, <1>3, <1>9 DEF Contract!Next, Contract!Progress, Contract!PerformApproved
<1>10. CASE /\ Moved(n, {"open", "rejected", "performed"}, "answered")
            /\ ContractOperation(n)' = ContractOperation(n)
  BY <1>1, <1>3, <1>10 DEF Contract!Next, Contract!Progress, Contract!Answer
<1>11. CASE /\ Moved(n, {"open", "review", "approved", "rejected", "performed"}, "failed")
            /\ ContractOperation(n)' = ContractOperation(n)
  BY <1>1, <1>3, <1>11 DEF Contract!Next, Contract!Fail
<1>12. QED
  BY <1>4, <1>5, <1>6, <1>7, <1>8, <1>9, <1>10, <1>11 DEF ContractMove

-----------------------------------------------------------------------------
\* The steps of the demo, as the contract sees them.

\* A superstep that leads from checkpoint b to c.
LEMMA SaveMove ==
    ASSUME DemoInv, DemoInv', NEW x \in Runs, OnlyWorker(x),
           NEW n \in Runtimes, n = runs[x].runtime,
           NEW c \in Checkpoints, Save(x, c), UNCHANGED <<session, runtimes, reviews, raised>>,
           ExecutesNothing(x, runs[x].checkpoint, c) \/ ExecutesIt(x, runs[x].checkpoint, c)
    PROVE  ContractMove(n)
<1> DEFINE b == runs[x].checkpoint
<1>1. /\ runs'[x].at = runs[x].at /\ OnlyWorker(x)'
      /\ runs'[x].runtime = n /\ runs'[x].checkpoint = c /\ threads'[n] = c
  BY SaveFacts DEF OnlyWorker, Working, AnsweredTwice, DemoInv
<1>2. ContractPhase(n) = PhaseSeen(b) /\ threads[n] = b
  BY PhasesAgreeAlways DEF PhasesAgree
<1>3. ContractPhase(n)' = PhaseSeen(c)
  BY <1>1, PhasesAgreeNext DEF PhasesAgree
<1>4. /\ InStep(b) /\ InOrder(b) /\ b \in Checkpoints
      /\ runs[x].at = "starting" => b.human_decision = None
      /\ runs[x].at = "resuming" => DecisionOf[runs[x].event] \in Decisions
                                    /\ (b.next = "human_approval" => b.human_decision = None)
  <2>1. InStep(b) /\ b \in Checkpoints
    BY DEF DemoInv, ProgressInv, TypeOK, ScriptRuns
  <2>2. /\ runs[x].at = "starting" => StartingRun(x) /\ AloneStarting(x)
        /\ runs[x].at = "resuming" => ResumingRun(x) /\ AloneLoaded(x)
    BY OnlyWorkerKnows DEF DemoInv
  <2>3. runs[x].at \in {"starting", "resuming"}
    BY DEF OnlyWorker, Working
  <2>4. QED
    BY <2>1, <2>2, <2>3 DEF StartingRun, AloneStarting, ResumingRun, AloneLoaded, DecisionOf,
                            Decisions
<1>5. c.proposed_action = b.proposed_action => ContractOperation(n)' = ContractOperation(n)
  BY <1>1, <1>2 DEF ContractOperation
<1>6. c.proposed_action \in ProposedActions =>
          /\ ContractOperation(n)' = OperationOf(c.proposed_action)
          /\ ContractOperation(n)' \in Operations
          /\ IsSensitive(ContractOperation(n)') <=> IsSensitive(c.proposed_action)
  BY <1>1, AbsentAssumption
     DEF ContractOperation, OperationOf, ProposedActions, Operations, IsSensitive
<1>7. None \notin Decisions
  BY AbsentAssumption
<1>8. CASE ExecutesIt(x, b, c)
  <2>1. /\ b.next \in {"START", "execute_approved_action"}
        /\ c.final_response = b.final_response /\ c.action_result \in ActionResults
        /\ c.proposed_action \in ProposedActions
    BY <1>8 DEF ExecutesIt
  <2>2. b.action_result = None /\ ~b.final_response
    BY <1>4, <2>1 DEF InOrder
  <2>3. PhaseSeen(c) = "performed"
    BY <2>1, <2>2, AbsentAssumption DEF PhaseSeen
  <2>4. CASE runs[x].at = "starting" /\ b.next = "START" /\ ~IsSensitive(c.proposed_action)
    <3>1. PhaseSeen(b) = "open"
      BY <1>4, <2>2, <2>4 DEF PhaseSeen
    <3>2. QED
      BY <1>2, <1>3, <1>6, <2>1, <2>3, <2>4, <3>1 DEF ContractMove, Moved
  <2>5. CASE /\ runs[x].at = "resuming" /\ b.next = "execute_approved_action"
             /\ c.proposed_action = b.proposed_action
    <3>1. PhaseSeen(b) = "approved"
      BY <1>4, <1>7, <2>2, <2>5 DEF PhaseSeen, InStep, Decisions
    <3>2. QED
      BY <1>2, <1>3, <1>5, <2>3, <2>5, <3>1 DEF ContractMove, Moved
  <2>6. QED
    BY <1>8, <2>4, <2>5 DEF ExecutesIt
<1>9. ASSUME c.action_result = b.action_result, Closes(x, b, c) \/ Rejects(x, b, c)
      PROVE  ContractMove(n)
  <2>1. PhaseSeen(c) = PhaseSeen(b) /\ c.proposed_action = b.proposed_action
    BY <1>9 DEF Closes, Rejects, Kept, PhaseSeen
  <2>2. QED
    BY <1>2, <1>3, <1>5, <2>1 DEF ContractMove, Same
<1>10. ASSUME c.action_result = b.action_result, Pauses(x, b, c)
       PROVE  ContractMove(n)
  <2>1. b.action_result = None /\ ~b.final_response /\ b.human_decision = None
    BY <1>4, <1>10 DEF Pauses, InOrder
  <2>2. PhaseSeen(b) = "open" /\ PhaseSeen(c) = "review"
    BY <1>10, <2>1 DEF Pauses, PhaseSeen
  <2>3. QED
    BY <1>2, <1>3, <1>6, <1>10, <2>2 DEF Pauses, ContractMove, Moved
<1>11. ASSUME c.action_result = b.action_result, Decides(x, b, c)
       PROVE  ContractMove(n)
  <2>1. b.action_result = None /\ ~b.final_response /\ b.human_decision = None
    BY <1>4, <1>11 DEF Decides, InOrder
  <2>2. c.human_decision \in Decisions /\ ~c.final_response
    BY <1>4, <1>11, <2>1 DEF Decides
  <2>3. PhaseSeen(b) = "review" /\ PhaseSeen(c) = c.human_decision
    BY <1>7, <1>11, <2>1, <2>2 DEF Decides, PhaseSeen
  <2>4. QED
    BY <1>2, <1>3, <1>5, <1>11, <2>2, <2>3 DEF Decides, ContractMove, Moved, Decisions
<1>12. ASSUME c.action_result = b.action_result, Replies(x, b, c)
       PROVE  ContractMove(n)
  <2>1. ~b.final_response /\ (b.human_decision = "approved" => b.action_result # None)
    BY <1>4, <1>12 DEF Replies, InOrder, InStep
  <2>2. b.human_decision \in Decisions \cup {None}
    BY <1>4 DEF Checkpoints, Optional
  <2>3. PhaseSeen(b) \in {"open", "rejected", "performed"} /\ PhaseSeen(c) = "answered"
    BY <1>12, <2>1, <2>2 DEF Replies, PhaseSeen, Decisions
  <2>4. QED
    BY <1>2, <1>3, <1>5, <1>12, <2>3 DEF Replies, ContractMove, Moved
<1>13. QED
  BY <1>8, <1>9, <1>10, <1>11, <1>12 DEF ExecutesNothing

\* What the contract sees of the cases x does not work on.
LEMMA OthersSame ==
    ASSUME DemoInv, NEW x \in Runs, InvokeStep(x), NEW m \in Runtimes, m # runs[x].runtime
    PROVE  Same(m)
<1>1. Working(x) /\ SafeInv /\ TypeOK
  BY InvokeExactly DEF Working, DemoInv
<1>2. ASSUME NEW c \in Checkpoints, Save(x, c),
             UNCHANGED <<session, runtimes, reviews, raised>>,
             ExecutesNothing(x, runs[x].checkpoint, c) \/ ExecutesIt(x, runs[x].checkpoint, c)
      PROVE  Same(m)
  <2>1. threads'[m] = threads[m]
    BY <1>1, <1>2, SaveFacts DEF Working
  <2>2. journal'[m] = journal[m]
    BY <1>1, <1>2, ExecutesElsewhere
  <2>3. QED
    BY <1>2, <2>1, <2>2, SeenElsewhere DEF Same
<1>3. ASSUME NEW exception \in InvokeErrors, Fail(x, exception) PROVE Same(m)
  <2>1. raised' = raised \cup {runs[x].runtime} /\ UNCHANGED <<threads, journal>>
    BY <1>3 DEF Fail
  <2>2. runtimes'[m] = runtimes[m]
    BY <1>1, <1>3, FailExactly DEF Working, Settles
  <2>3. QED
    BY <2>1, <2>2, SeenElsewhere DEF Same
<1>4. QED
  BY <1>1, <1>2, <1>3, InvokeExactly

\* An invoke that raises before its reply is saved.
LEMMA FailMove ==
    ASSUME DemoInv, NEW x \in Runs, OnlyWorker(x), InvokeStep(x),
           NEW n \in Runtimes, n = runs[x].runtime,
           NEW exception \in InvokeErrors, Fail(x, exception)
    PROVE  ContractMove(n)
<1>1. /\ Working(x) /\ SafeInv /\ TypeOK
      /\ ContractPhase(n) = PhaseSeen(runs[x].checkpoint) /\ runtimes[n] # None
  BY PhaseIsSeen DEF OnlyWorker, DemoInv
<1>2. raised' = raised \cup {n} /\ UNCHANGED <<threads, journal>>
  BY DEF Fail
<1>3. runtimes'[n] # None
  <2>1. ASSUME NEW r, Settles(x, r) PROVE runtimes'[n] # None
    BY <2>1, AbsentAssumption DEF Settles
  <2>2. QED
    BY <1>1, <2>1, FailExactly DEF Working
<1>4. ContractPhase(n)' = "failed" /\ ContractOperation(n)' = ContractOperation(n)
  BY <1>2, <1>3 DEF ContractPhase, ContractOperation
<1>5. ContractPhase(n) \in {"open", "review", "approved", "rejected", "performed"}
  <2>1. runs[x].checkpoint.human_decision \in Decisions \cup {None}
    BY <1>1 DEF TypeOK, ScriptRuns, Checkpoints, Optional
  <2>2. ~runs[x].checkpoint.final_response
    <3>1. runs[x].checkpoint.next # "END"
      BY DEF InvokeStep, FirstNodes, HumanApproval, ExecuteApprovedAction,
             ApprovalRejected, FinalResponse
    <3>2. InOrder(runs[x].checkpoint)
      BY OnlyWorkerKnows DEF DemoInv, OnlyWorker, Working, AloneStarting, AloneLoaded
    <3>3. QED
      BY <3>1, <3>2 DEF InOrder
  <2>3. QED
    BY <1>1, <2>1, <2>2 DEF PhaseSeen, Decisions
<1>6. QED
  BY <1>4, <1>5 DEF ContractMove, Moved

LEMMA InvokeMove ==
    ASSUME DemoInv, DemoInv', NEW x \in Runs, InvokeStep(x)
    PROVE  KeepsContract
<1>1. Working(x) /\ SafeInv
  BY InvokeExactly DEF Working, DemoInv
<1>2. CASE AnsweredTwice(runs[x].runtime)
  BY <1>2, OthersSame DEF KeepsContract
<1>3. CASE ~AnsweredTwice(runs[x].runtime)
  <2>1. OnlyWorker(x)
    BY <1>1, <1>3 DEF OnlyWorker
  <2>2. PICK n \in Runtimes : n = runs[x].runtime
    BY <2>1, PhaseIsSeen
  <2>3. ContractMove(n)
    BY <1>1, <2>1, <2>2, InvokeExactly, SaveMove, FailMove
  <2>4. \A m \in Runtimes \ {n} : Same(m)
    BY <2>2, OthersSame
  <2>5. QED
    BY <2>3, <2>4, SeenMoves
<1>4. QED
  BY <1>2, <1>3

LEMMA SubmitMove ==
    ASSUME DemoInv, DemoInv', NEW x \in Runs, NEW n \in Runtimes, SubmitCase(x, n)
    PROVE  KeepsContract
<1>1. /\ runtimes[n] = None /\ threads[n] = EmptyCheckpoint
      /\ runs'[x].at = "starting" /\ runs'[x].runtime = n /\ runs'[x].checkpoint = threads[n]
      /\ \A m \in Runtimes \ {n} : runtimes'[m] = runtimes[m]
      /\ UNCHANGED <<session, threads, stores, journal, reviews, raised>>
  BY SubmitCaseExactly DEF DemoInv
<1>2. \A m \in Runtimes \ {n} : Same(m)
  BY <1>1, SeenElsewhere DEF Same
<1>3. ContractPhase(n) = "unseen"
  BY <1>1 DEF ContractPhase
<1>4. OnlyWorker(x)'
  <2>1. ~AnsweredTwice(n)
    BY <1>1 DEF DemoInv, OpenedInv, Opened, AnsweredTwice
  <2>2. QED
    BY <1>1, <2>1 DEF OnlyWorker, Working, AnsweredTwice
<1>5. ContractPhase(n)' = PhaseSeen(EmptyCheckpoint)
  BY <1>1, <1>4, PhasesAgreeNext DEF PhasesAgree
<1>6. PhaseSeen(EmptyCheckpoint) = "open"
  BY DEF PhaseSeen, EmptyCheckpoint
<1>7. ContractOperation(n)' = ContractOperation(n)
  BY <1>1 DEF ContractOperation
<1>8. ContractMove(n)
  BY <1>3, <1>5, <1>6, <1>7 DEF ContractMove, Moved
<1>9. QED
  BY <1>2, <1>8, SeenMoves

LEMMA RuntimeMove ==
    ASSUME DemoInv, NEW x \in Runs, RuntimeStep(x)
    PROVE  KeepsContract
<1>1. UNCHANGED <<threads, journal, raised>>
  BY DEF RuntimeStep, StartReturns, ResumeCheck, ResumeLoad, ResumeReturns
<1>2. CASE UNCHANGED runtimes
  BY <1>1, <1>2, SeenElsewhere DEF Same, KeepsContract
<1>3. ASSUME NEW r, Settles(x, r) PROVE KeepsContract
  <2>1. /\ \A m \in Runtimes : runtimes'[m] = IF m = runs[x].runtime THEN r ELSE runtimes[m]
        /\ r # None
    BY <1>3, AbsentAssumption DEF Settles
  <2>2. runtimes[runs[x].runtime] # None
    BY <1>3 DEF Settles, DemoInv, SafeInv, RunsInv, StartingRun, ResumingRun
  <2>3. \A m \in Runtimes : runtimes'[m] = None <=> runtimes[m] = None
    BY <2>1, <2>2
  <2>4. QED
    BY <1>1, <2>3, SeenElsewhere DEF Same, KeepsContract
<1>4. QED
  BY <1>2, <1>3, StartReturnsExactly, ResumeReturnsExactly, ResumeCheckExactly,
     ResumeLoadExactly DEF RuntimeStep, DemoInv

LEMMA DemoStepKeeps ==
    ASSUME DemoInv, DemoInv', [Next]_vars
    PROVE  KeepsContract
<1>1. CASE UNCHANGED <<runtimes, threads, journal, raised>>
  BY <1>1, SeenElsewhere DEF Same, KeepsContract
<1>2. ASSUME NEW x \in Runs, PageStep(x) PROVE KeepsContract
  BY <1>1, <1>2, OtherPageSteps, RenderExactly, SubmitMove DEF PageStep, DemoInv
<1>3. QED
  BY <1>1, <1>2, UserExactly, InvokeMove, RuntimeMove DEF Next, ScriptStep, vars, DemoInv

\* The demo keeps the contract of a request although its script runs overlap:
\* a runtime performs at most one operation, a sensitive one only after the
\* reviewer was offered that very operation and approved it, answers at most
\* once, and a failure ends the case where it stands.  A step that breaks the
\* contract concerns a runtime whose card two runs answered.
THEOREM DemoKeepsContract == Spec => KeepsContractUnlessAnsweredTwice
<1>1. Init => Contract!Init
  BY DEF Init, Contract!Init, ContractPhase, ContractOperation, EmptyCheckpoint
<1>2. DemoInv /\ DemoInv' /\ [Next]_vars =>
          [\/ Contract!Next
           \/ \A n \in Runtimes : ~AnsweredTwice(n) =>
                 UNCHANGED <<ContractPhase(n), ContractOperation(n)>>]_vars
  BY DemoStepKeeps DEF KeepsContract, Same
<1>3. QED
  BY <1>1, <1>2, DemoInvariance, PTL DEF Spec, KeepsContractUnlessAnsweredTwice

=============================================================================
