\* Three calls on two orders, in every interleaving of their reads and writes.
\* Calls are finitely many and the system stops when all returned: no deadlock check.
SPECIFICATION Spec
CONSTANTS
    None = None
    a1 = a1
    Orders = {o1, o2}
    OrderIds = {o1, o2, unknown}
    Addresses = {a1, a2}
    Calls = {k1, k2, k3}
    Records <- OpenRecords
SYMMETRY CallSymmetry
INVARIANTS
    TypeOK
    NothingInvented
    LostOnlyToOverlap
PROPERTIES
    AtomicUnlessRaced
CHECK_DEADLOCK FALSE
