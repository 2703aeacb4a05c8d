\* Two cases whose contexts are loaded from a separate read-only store, so
\* that every policy decision may be stale.
\* The system stops when every request is submitted and settled: no deadlock check.
SPECIFICATION Spec
CONSTANTS
    None = None
    Omitted = Omitted
    o1 = o1
    o2 = o2
    o3 = o3
    c1 = c1
    c2 = c2
    stranger = stranger
    a1 = a1
    a2 = a2
    Orders = {o1}
    Addresses = {a1, a2}
    Threads = {t1, t2}
    Requests = {r1, r2}
    Customers = {c1}
    CustomerIds = {c1}
    OwnerOf <- MCOwnerOf
    Messages <- NamesFirst
    Classifications <- AllIntents
    Fixtures <- OpenFixture
    SharedStore = FALSE
    ReuseThreads = FALSE
SYMMETRY ThreadSymmetry
INVARIANTS
    RefusedOnlyByRace
PROPERTIES
    OrderLifecycle
CHECK_DEADLOCK FALSE
