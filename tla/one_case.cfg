\* One case on a fresh thread, through every branch of the graph, over every
\* status and payment status of the order it names.
\* The system stops when every request is submitted and settled: no deadlock check.
SPECIFICATION Spec
CONSTANTS
    None = None
    Omitted = Omitted
    o1 = o1
    o2 = o2
    o3 = o3
    c1 = c1
    c2 = c2
    stranger = stranger
    a1 = a1
    a2 = a2
    Orders = {o1, o2, o3}
    Addresses = {a1, a2}
    Threads = {t1}
    Requests = {r1}
    Customers = {c1, c2}
    CustomerIds = {c1, c2, stranger}
    OwnerOf <- MCOwnerOf
    Messages <- AllMessages
    Classifications <- AllIntents
    Fixtures <- AnyFixture
    SharedStore = TRUE
    ReuseThreads = FALSE
INVARIANTS
    TypeOK
    NeverCorrupted
    OutcomeMatchesRoute
    OnlyNamedOwnOrders
    PauseIsQuiet
CHECK_DEADLOCK FALSE
