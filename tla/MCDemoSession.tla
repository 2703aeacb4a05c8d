--------------------------- MODULE MCDemoSession ---------------------------
(***************************************************************************)
(* Small instances of DemoSession for TLC: one order, delivered and paid,  *)
(* on which a refund and both investigations are possible, or open, where  *)
(* the safe actions are possible too.                                      *)
(***************************************************************************)
EXTENDS DemoSession, TLC

CONSTANTS o1, a1, a2

Order(status) ==
    [status |-> status, payment_status |-> "paid", shipping_address |-> a1]

DeliveredFixture == [o \in Orders |-> Order("delivered")]

OpenFixture == [o \in Orders |-> Order("processing")]

Symmetry == Permutations(Runs) \cup Permutations(Runtimes)

=============================================================================
