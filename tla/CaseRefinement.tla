--------------------------- MODULE CaseRefinement ---------------------------
(***************************************************************************)
(* CaseGraph implements CaseContract for callers that use one thread per   *)
(* request, as create_demo_runtime and run_single_case do.                 *)
(***************************************************************************)
EXTENDS CaseGraph

ContractOperations == [action_type : ActionTypes, order_id : Orders]

ContractSensitive ==
    {op \in ContractOperations : op.action_type \in ApprovalRequiredActionTypes}

OperationOf(x) == [action_type |-> x.action_type, order_id |-> x.order_id]

Answered(t, r) == \E i \in DOMAIN replies[t] : replies[t][i].request_id = r

Performed(t, r) ==
    {OperationOf(journal[t][i]) :
        i \in {j \in DOMAIN journal[t] : journal[t][j].request_id = r}}

\* What a reviewer is being shown, or has decided, for r.
Offered(t, r) ==
    {OperationOf(v) : v \in {w \in reviews : w.request_id = r}}
        \cup {OperationOf(x) : x \in {interrupts[t]} \ {None}}

PhaseOf(r) ==
    IF submitted[r] = None THEN "unseen"
    ELSE LET t == submitted[r].thread
         IN  CASE Raised(t) -> "failed"
               [] ~Raised(t) /\ Answered(t, r) -> "answered"
               [] ~Raised(t) /\ ~Answered(t, r) /\ Acted(t, r) -> "performed"
               [] OTHER -> IF Reviewed(r, "approved") THEN "approved"
                           ELSE IF Reviewed(r, "rejected") THEN "rejected"
                           ELSE IF interrupts[t] # None THEN "review"
                           ELSE "open"

OperationFor(r) ==
    IF submitted[r] = None THEN None
    ELSE LET t == submitted[r].thread
         IN  IF Performed(t, r) # {} THEN CHOOSE op \in Performed(t, r) : TRUE
             ELSE IF Offered(t, r) # {} THEN CHOOSE op \in Offered(t, r) : TRUE
             ELSE None

Contract == INSTANCE CaseContract
    WITH Operations <- ContractOperations,
         Sensitive <- ContractSensitive,
         NoOperation <- None,
         phase <- [r \in Requests |-> PhaseOf(r)],
         operation <- [r \in Requests |-> OperationFor(r)]

\* Every step of the graph is a step of the contract or changes nothing it
\* speaks of, and what the contract requires to go on does go on.
ImplementsContract == Contract!FairSpec

=============================================================================
