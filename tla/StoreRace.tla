----------------------------- MODULE StoreRace -----------------------------
(***************************************************************************)
(* The mutating calls of InMemoryCustomerActionStore as the Python threads *)
(* of a process run them.  There is no lock: a call reads the order's      *)
(* record, checks the copy it read, and later stores that copy with one    *)
(* field changed; the calls of other threads run in between.  Reading or   *)
(* assigning one dict entry is atomic.                                     *)
(***************************************************************************)
EXTENDS CaseRules, FiniteSets

CONSTANTS
    Calls,      \* calls that may be made
    OrderIds,   \* order ids a caller may pass, known or not
    Records     \* the order records the store may be loaded with

ASSUME RaceAssumption ==
    /\ Orders \subseteq OrderIds
    /\ Records \subseteq [Orders -> OrderRecords]

VARIABLES
    store,      \* the action store
    request,    \* call -> its operation and arguments, once it is made
    status,     \* call -> how far it got
    copy,       \* call -> the record it read
    fixture,    \* history: the records the store was loaded with
    overlaps    \* history: pairs of calls on one order that were under way at once

vars == <<store, request, status, copy, fixture, overlaps>>

Statuses == {"new", "called", "read", "accepted", "refused"}

StoreRequests == [ready                : {TRUE},
                  action_type          : ActionTypes,
                  order_id             : OrderIds,
                  new_shipping_address : Addresses \cup {None}]

Init ==
    /\ fixture \in Records
    /\ store = FreshStore(fixture)
    /\ request = [c \in Calls |-> None]
    /\ status = [c \in Calls |-> "new"]
    /\ copy = [c \in Calls |-> None]
    /\ overlaps = {}

UnderWay(c) == status[c] \in {"called", "read"}

\* The calls under way on the order of r.
Rivals(r) == {d \in Calls : UnderWay(d) /\ request[d].order_id = r.order_id}

\* Only change_shipping_address takes an address.
WellFormed(r) ==
    r.action_type # "change_address" => r.new_shipping_address = None

Begin(c, r) ==
    /\ status[c] = "new"
    /\ WellFormed(r)
    /\ request' = [request EXCEPT ![c] = r]
    /\ status' = [status EXCEPT ![c] = "called"]
    /\ overlaps' = overlaps \cup {{c, d} : d \in Rivals(r)}
    /\ UNCHANGED <<store, copy, fixture>>

\* Mutant: orders are read from a cache filled when the store was built.
MutantGetOrder(c) ==
    LET o == request[c].order_id
    IN  /\ status[c] = "called"
        /\ status' = [status EXCEPT ![c] = IF KnownOrder(store, o) THEN "read" ELSE "refused"]
        /\ copy' = [copy EXCEPT ![c] = IF KnownOrder(store, o) THEN fixture[o] ELSE None]
        /\ UNCHANGED <<store, request, fixture, overlaps>>

\* get_order, the first statement of every mutating call.
GetOrder(c) ==
    LET o == request[c].order_id
    IN  /\ status[c] = "called"
        /\ status' = [status EXCEPT ![c] = IF KnownOrder(store, o) THEN "read" ELSE "refused"]
        /\ copy' = [copy EXCEPT ![c] = IF KnownOrder(store, o) THEN store.orders[o] ELSE None]
        /\ UNCHANGED <<store, request, fixture, overlaps>>

\* Mutant: a refund does not look at the payment status.
MutantAcceptable(r, order) ==
    CASE r.action_type = "cancel_order" -> order.status \in CancellableStatuses
      [] r.action_type = "change_address" ->
            /\ order.status \in AddressChangeableStatuses
            /\ r.new_shipping_address # None
      [] OTHER -> TRUE

\* Mutant: a blank address is accepted.
MutantBlankAddress(r, order) ==
    CASE r.action_type = "cancel_order" -> order.status \in CancellableStatuses
      [] r.action_type = "change_address" -> order.status \in AddressChangeableStatuses
      [] r.action_type = "issue_refund" -> order.payment_status # "refunded"
      [] OTHER -> TRUE

\* The check of the call's precondition on the copy.
Acceptable(r, order) ==
    CASE r.action_type = "cancel_order" -> order.status \in CancellableStatuses
      [] r.action_type = "change_address" ->
            /\ order.status \in AddressChangeableStatuses
            /\ r.new_shipping_address # None
      [] r.action_type = "issue_refund" -> order.payment_status # "refunded"
      [] OTHER -> TRUE

Reject(c) ==
    /\ status[c] = "read"
    /\ ~Acceptable(request[c], copy[c])
    /\ status' = [status EXCEPT ![c] = "refused"]
    /\ UNCHANGED <<store, request, copy, fixture, overlaps>>

\* Mutant: a refund also cancels the order.
MutantUpdated(r, order) ==
    CASE r.action_type = "cancel_order" -> [order EXCEPT !.status = "cancelled"]
      [] r.action_type = "change_address" ->
            [order EXCEPT !.shipping_address = r.new_shipping_address]
      [] r.action_type = "issue_refund" ->
            [order EXCEPT !.payment_status = "refunded", !.status = "cancelled"]

\* model_copy(update=...)
Updated(r, order) ==
    CASE r.action_type = "cancel_order" -> [order EXCEPT !.status = "cancelled"]
      [] r.action_type = "change_address" ->
            [order EXCEPT !.shipping_address = r.new_shipping_address]
      [] r.action_type = "issue_refund" -> [order EXCEPT !.payment_status = "refunded"]

\* The one assignment of the call: an entry of _orders_by_id or of an
\* investigation dict.
Write(c) ==
    LET r == request[c]
        o == r.order_id
    IN  /\ status[c] = "read"
        /\ Acceptable(r, copy[c])
        /\ store' =
               CASE r.action_type = "investigate_billing" -> CreateBillingInvestigation(store, o)
                 [] r.action_type = "investigate_product_issue" ->
                       CreateProductInvestigation(store, o)
                 [] OTHER -> [store EXCEPT !.orders[o] = Updated(r, copy[c])]
        /\ status' = [status EXCEPT ![c] = "accepted"]
        /\ UNCHANGED <<request, copy, fixture, overlaps>>

CallStep(c) == GetOrder(c) \/ Reject(c) \/ Write(c)

Next ==
    \E c \in Calls :
        \/ \E r \in StoreRequests : Begin(c, r)
        \/ CallStep(c)

Spec == Init /\ [][Next]_vars

-----------------------------------------------------------------------------
\* Properties.

\* Every variable keeps to its type.
TypeOK ==
    /\ store \in Stores
    /\ request \in [Calls -> StoreRequests \cup {None}]
    /\ status \in [Calls -> Statuses]
    /\ copy \in [Calls -> OrderRecords \cup {None}]
    /\ fixture \in [Orders -> OrderRecords]
    /\ overlaps \subseteq SUBSET Calls

\* The accepted calls of type a on order o.
Accepted(o, a) ==
    {c \in Calls : /\ status[c] = "accepted"
                   /\ request[c].order_id = o
                   /\ request[c].action_type = a}

\* However calls overlap, a store holds nothing that no accepted call on that
\* very order put there - a refused call and a call on another order leave no
\* trace - and an investigation, once acknowledged, is never lost.
NothingInvented ==
    \A o \in Orders :
        LET was == fixture[o]
            is == store.orders[o]
        IN  /\ is.status # was.status =>
                   is.status = "cancelled" /\ Accepted(o, "cancel_order") # {}
            /\ is.payment_status # was.payment_status =>
                   is.payment_status = "refunded" /\ Accepted(o, "issue_refund") # {}
            /\ is.shipping_address # was.shipping_address =>
                   \E c \in Accepted(o, "change_address") :
                       is.shipping_address = request[c].new_shipping_address
            /\ o \in store.billing <=> Accepted(o, "investigate_billing") # {}
            /\ o \in store.product <=> Accepted(o, "investigate_product_issue") # {}

\* Whether the store still shows the effect of the accepted call c, or of a
\* later address change.
Visible(c) ==
    LET order == store.orders[request[c].order_id]
    IN  CASE request[c].action_type = "cancel_order" -> order.status = "cancelled"
          [] request[c].action_type = "issue_refund" -> order.payment_status = "refunded"
          [] request[c].action_type = "change_address" ->
                \E d \in Accepted(request[c].order_id, "change_address") :
                    order.shipping_address = request[d].new_shipping_address
          [] OTHER -> TRUE

Raced(c) == \E pair \in overlaps : c \in pair

\* An acknowledged operation disappears from the store only if the call that
\* did it overlapped another one on its order; and one the store allows once
\* is acknowledged twice only if one of the two calls did.
LostOnlyToOverlap ==
    \A c \in Calls : status[c] = "accepted" =>
        /\ ~Visible(c) => Raced(c)
        /\ request[c].action_type \in {"cancel_order", "issue_refund"} =>
               \A d \in Accepted(request[c].order_id, request[c].action_type) \ {c} :
                   Raced(c) \/ Raced(d)

-----------------------------------------------------------------------------
\* The store is atomic for a call that no other call on its order overlaps.

Atomic == INSTANCE AtomicStore
    WITH status <- [c \in Calls |-> IF UnderWay(c) THEN "pending" ELSE status[c]]

\* Every step of a call that has overlapped no other on its order is a step of
\* the atomic store - the call takes effect or is refused at one moment, on the
\* store of that moment - or is invisible to it, whatever the calls on other
\* orders do in between and however the rest of the store was raced over.
AtomicUnlessRaced ==
    /\ Atomic!Init
    /\ [][\A c \in Calls :
              status'[c] # status[c] /\ ~Raced(c) =>
                  Atomic!Next \/ UNCHANGED Atomic!vars]_vars

=============================================================================
