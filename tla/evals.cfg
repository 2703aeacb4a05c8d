\* The curated cases alone, in pairs about one order, and after a case whose
\* customer does not exist, with any answer of the models.
\* The evaluation ends with its summary or is aborted: no deadlock check.
SPECIFICATION RunnerSpec
CONSTANTS
    None = None
    Omitted = Omitted
    Benchmarks <- MCBenchmarks
    Orders <- FixtureOrders
    Addresses <- FixtureAddresses
    Threads <- MCPositions
    Requests <- MCPositions
    Customers <- FixtureCustomers
    CustomerIds <- MCCustomerIds
    OwnerOf <- FixtureOwner
    Messages <- MCMessages
    Classifications <- MCClassifications
    Fixtures <- MCFixtures
    SharedStore = TRUE
    ReuseThreads = FALSE
INVARIANTS
    RunnerTypeOK
    PassMeansStore
    FaithfulModelPasses
    GreenMeansEverythingChecked
PROPERTIES
    BenchmarkEnds
CHECK_DEADLOCK FALSE
