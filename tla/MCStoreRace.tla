---------------------------- MODULE MCStoreRace ----------------------------
(***************************************************************************)
(* Small instances of StoreRace for TLC: every order open and paid, so     *)
(* that each operation is permitted at first; `unknown` is no order.       *)
(***************************************************************************)
EXTENDS StoreRace, TLC

CONSTANTS a1

OpenRecords ==
    {[o \in Orders |-> [status |-> "processing", payment_status |-> "paid",
                        shipping_address |-> a1]]}

CallSymmetry == Permutations(Calls)

=============================================================================
