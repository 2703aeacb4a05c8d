\* The documented failure on a broken setup, with a case whose customer does
\* not exist before a curated one.
\* The evaluation ends with its summary or is aborted: no deadlock check.
SPECIFICATION RunnerSpec
CONSTANTS
    None = None
    Omitted = Omitted
    Benchmarks <- AfterUnknown
    Orders <- FixtureOrders
    Addresses <- FixtureAddresses
    Threads <- MCPositions
    Requests <- MCPositions
    Customers <- FixtureCustomers
    CustomerIds <- MCCustomerIds
    OwnerOf <- FixtureOwner
    Messages <- MCMessages
    Classifications <- MCClassifications
    Fixtures <- MCFixtures
    SharedStore = TRUE
    ReuseThreads = FALSE
INVARIANTS
    BrokenSetupFailsFast
CHECK_DEADLOCK FALSE
