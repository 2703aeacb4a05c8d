---------------------------- MODULE AtomicStore ----------------------------
(***************************************************************************)
(* What the callers of the action store rely on: a call takes effect at    *)
(* one moment between its beginning and its return, on the store as it is  *)
(* at that moment, or it is refused and changes nothing.  The executor     *)
(* (customer_ops/action_executor.py) and the graph are written against     *)
(* this store.                                                             *)
(***************************************************************************)
EXTENDS CaseRules

CONSTANTS
    Calls,      \* calls that may be made
    OrderIds    \* order ids a caller may pass, known or not

VARIABLES
    store,      \* the action store
    request,    \* call -> its operation and arguments, once it is made
    status      \* call -> how far it got

vars == <<store, request, status>>

\* A call, in the form in which the executor's prepared input describes it.
StoreRequests == [ready                : {TRUE},
                  action_type          : ActionTypes,
                  order_id             : OrderIds,
                  new_shipping_address : Addresses \cup {None}]

Permits(s, r) == ~ExecutionFails(r, r, s, TRUE)

Effect(s, r) == ExecuteAction(r, r, s)

Init ==
    /\ \E records \in [Orders -> OrderRecords] : store = FreshStore(records)
    /\ request = [c \in Calls |-> None]
    /\ status = [c \in Calls |-> "new"]

Begin(c, r) ==
    /\ status[c] = "new"
    /\ request' = [request EXCEPT ![c] = r]
    /\ status' = [status EXCEPT ![c] = "pending"]
    /\ UNCHANGED store

Perform(c) ==
    /\ status[c] = "pending"
    /\ Permits(store, request[c])
    /\ store' = Effect(store, request[c])
    /\ status' = [status EXCEPT ![c] = "accepted"]
    /\ UNCHANGED request

Refuse(c) ==
    /\ status[c] = "pending"
    /\ ~Permits(store, request[c])
    /\ status' = [status EXCEPT ![c] = "refused"]
    /\ UNCHANGED <<store, request>>

Next ==
    \E c \in Calls :
        \/ \E r \in StoreRequests : Begin(c, r)
        \/ Perform(c)
        \/ Refuse(c)

Spec == Init /\ [][Next]_vars

=============================================================================
