\* The documented rejection of an incomplete payload, on a used thread.
\* The system stops when every request is submitted and settled: no deadlock check.
SPECIFICATION Spec
CONSTANTS
    None = None
    Omitted = Omitted
    o1 = o1
    o2 = o2
    o3 = o3
    c1 = c1
    c2 = c2
    stranger = stranger
    a1 = a1
    a2 = a2
    Orders = {o1}
    Addresses = {a1, a2}
    Threads = {t1}
    Requests = {r1, r2}
    Customers = {c1}
    CustomerIds = {c1}
    OwnerOf <- MCOwnerOf
    Messages <- NamesFirst
    Classifications <- AllIntents
    Fixtures <- OpenFixture
    SharedStore = TRUE
    ReuseThreads = TRUE
INVARIANTS
    IncompleteIsRejected
CHECK_DEADLOCK FALSE
