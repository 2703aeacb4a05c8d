---------------------------- MODULE CaseContract ----------------------------
(***************************************************************************)
(* What the workflow promises for one request, whatever its graph looks    *)
(* like: a request performs at most one operation, a sensitive one only    *)
(* after a reviewer was offered exactly that operation and approved it, it *)
(* is answered at most once, and a failure ends it where it stands.        *)
(* customer_ops/graph.py, lines 13-47, states it in words.                 *)
(***************************************************************************)

CONSTANTS
    Requests,
    Operations,   \* operations a request may perform
    Sensitive,    \* those of them that need a reviewer
    NoOperation   \* not an operation: nothing offered or performed yet

VARIABLES
    phase,       \* request -> how far it got
    operation    \* request -> the operation offered to a reviewer or performed

vars == <<phase, operation>>

Phases == {"unseen", "open", "review", "approved", "rejected",
           "performed", "answered", "failed"}

ContractTypeOK ==
    /\ phase \in [Requests -> Phases]
    /\ operation \in [Requests -> Operations \cup {NoOperation}]

Init ==
    /\ phase = [r \in Requests |-> "unseen"]
    /\ operation = [r \in Requests |-> NoOperation]

Move(r, from, to) ==
    /\ phase[r] \in from
    /\ phase' = [phase EXCEPT ![r] = to]

Submit(r) == Move(r, {"unseen"}, "open") /\ UNCHANGED operation

Offer(r, op) ==
    /\ op \in Sensitive
    /\ Move(r, {"open"}, "review")
    /\ operation' = [operation EXCEPT ![r] = op]

Decide(r) ==
    /\ \E decision \in {"approved", "rejected"} : Move(r, {"review"}, decision)
    /\ UNCHANGED operation

PerformSafe(r, op) ==
    /\ op \in Operations \ Sensitive
    /\ Move(r, {"open"}, "performed")
    /\ operation' = [operation EXCEPT ![r] = op]

PerformApproved(r) == Move(r, {"approved"}, "performed") /\ UNCHANGED operation

Answer(r) ==
    /\ Move(r, {"open", "rejected", "performed"}, "answered")
    /\ UNCHANGED operation

Fail(r) ==
    /\ Move(r, {"open", "review", "approved", "rejected", "performed"}, "failed")
    /\ UNCHANGED operation

\* What the workflow does on its own, without waiting for its reviewer.
Progress(r) ==
    \/ \E op \in Sensitive : Offer(r, op)
    \/ \E op \in Operations : PerformSafe(r, op)
    \/ PerformApproved(r)
    \/ Answer(r)
    \/ phase[r] # "review" /\ Fail(r)

Next ==
    \E r \in Requests :
        \/ Submit(r)
        \/ Decide(r)
        \/ Progress(r)
        \/ Fail(r)

Spec == Init /\ [][Next]_vars

FairSpec == Spec /\ \A r \in Requests : WF_vars(Progress(r))

=============================================================================
