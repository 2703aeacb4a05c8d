---------------------------- MODULE MCCaseGraph ----------------------------
(***************************************************************************)
(* Small instances of CaseGraph for TLC.  The fixtures are orders of the   *)
(* kinds data/orders.json holds; o1 and o2 belong to one customer, o3 to   *)
(* another.                                                                *)
(***************************************************************************)
EXTENDS CaseRefinement, TLC

CONSTANTS o1, o2, o3, c1, c2, stranger, a1, a2

MCOwnerOf == [o \in Orders |-> IF o = o3 THEN c2 ELSE c1]

Order(status, payment) ==
    [status |-> status, payment_status |-> payment, shipping_address |-> a1]

\* o1 in any state a fixture can hold, the others delivered and paid.
AnyFixture ==
    {[o \in Orders |-> IF o = o1 THEN Order(s, p) ELSE Order("delivered", "paid")] :
        s \in OrderStatuses, p \in PaymentStatuses}

\* Every order open and paid: each operation is allowed once.
OpenFixture == {[o \in Orders |-> Order("processing", "paid")]}

\* Messages that name no order, one, two, or another customer's.
AllMessages == {{}, {o1}, {o1, o2}, {o3}, {o1, o3}}

NamesFirst == {{o1}}

NamesOneOfTwo == {{o1}, {o2}}

AllIntents == Intents

\* One that only reads, two safe ones that can block each other, one of them
\* with an input of its own, and a sensitive one.
LeftoverIntents == {"order_status", "cancel_order", "address_change", "refund_request"}

ThreadSymmetry == Permutations(Threads)

RequestSymmetry == Permutations(Requests)

=============================================================================
