\* Three requests one after the other on one thread: every channel of an
\* earlier request is still there when a later one runs.
\* The system stops when every request is submitted and settled: no deadlock check.
SPECIFICATION Spec
CONSTANTS
    None = None
    Omitted = Omitted
    o1 = o1
    o2 = o2
    o3 = o3
    c1 = c1
    c2 = c2
    stranger = stranger
    a1 = a1
    a2 = a2
    Orders = {o1, o2}
    Addresses = {a1}
    Threads = {t1}
    Requests = {r1, r2, r3}
    Customers = {c1}
    CustomerIds = {c1}
    OwnerOf <- MCOwnerOf
    Messages <- NamesOneOfTwo
    Classifications <- LeftoverIntents
    Fixtures <- OpenFixture
    SharedStore = TRUE
    ReuseThreads = TRUE
SYMMETRY RequestSymmetry
INVARIANTS
    SensitiveEffectsReviewed
    OnlyNamedOwnOrders
    AuditMatchesHistory
CHECK_DEADLOCK FALSE
