---------------------------- MODULE ActionStore ----------------------------
(***************************************************************************)
(* The simulated operational store of tools/action_store.py, the one store *)
(* a graph both reads and mutates.  A store is a value: the graph keeps it *)
(* in a variable and replaces it by what an operation returns, the way the *)
(* code replaces an entry of _orders_by_id.                                *)
(*                                                                         *)
(* An order keeps the three fields an operation can change.  Totals, items *)
(* and tracking numbers never change and no rule reads them.               *)
(***************************************************************************)
CONSTANTS
    Orders,      \* order ids of the fixture
    Addresses,   \* shipping addresses, old and new
    None         \* absent, null or empty

OrderStatuses == {"pending", "processing", "shipped", "delivered", "cancelled"}

PaymentStatuses == {"pending", "paid", "failed", "refunded"}

OrderRecords == [status           : OrderStatuses,
                 payment_status   : PaymentStatuses,
                 shipping_address : Addresses]

\* `billing` and `product` are the key sets of the two investigation dicts:
\* the reference id is a function of the order id.
Stores == [orders  : [Orders -> OrderRecords],
           billing : SUBSET Orders,
           product : SUBSET Orders]

ASSUME StoreAssumption ==
    /\ None \notin Orders
    /\ None \notin Addresses

\* A store over the given order records, before any mutation.
FreshStore(records) == [orders |-> records, billing |-> {}, product |-> {}]

-----------------------------------------------------------------------------
\* The preconditions.  An operation whose precondition fails raises
\* ActionStoreError (OrderNotFoundError for an unknown id) and changes nothing.

\* Mutant: the store's own table of cancellable orders misses a status.
MutantCancellableStatuses == {"pending"}

CancellableStatuses == {"pending", "processing"}

AddressChangeableStatuses == {"pending", "processing"}

KnownOrder(s, o) == o \in DOMAIN s.orders

CanCancel(s, o) ==
    /\ KnownOrder(s, o)
    /\ s.orders[o].status \in CancellableStatuses

\* Mutant: the store trusts the caller's policy check.
MutantCanChangeAddress(s, o, address) == KnownOrder(s, o) /\ address # None

CanChangeAddress(s, o, address) ==
    /\ KnownOrder(s, o)
    /\ s.orders[o].status \in AddressChangeableStatuses
    /\ address # None

CanRefund(s, o) ==
    /\ KnownOrder(s, o)
    /\ s.orders[o].payment_status # "refunded"

-----------------------------------------------------------------------------
\* The mutations, each the store after the call.

CancelOrder(s, o) == [s EXCEPT !.orders[o].status = "cancelled"]

ChangeShippingAddress(s, o, address) ==
    [s EXCEPT !.orders[o].shipping_address = address]

\* Mutant: a refund also cancels the order.
MutantIssueFullRefund(s, o) ==
    [s EXCEPT !.orders[o].payment_status = "refunded",
              !.orders[o].status = "cancelled"]

IssueFullRefund(s, o) == [s EXCEPT !.orders[o].payment_status = "refunded"]

CreateBillingInvestigation(s, o) == [s EXCEPT !.billing = @ \cup {o}]

CreateProductInvestigation(s, o) == [s EXCEPT !.product = @ \cup {o}]

=============================================================================
