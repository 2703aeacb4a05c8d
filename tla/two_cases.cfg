\* Two cases on one shared store, in every interleaving of their supersteps; what
\* must eventually happen, and the contract each request is owed.
\* The system stops when every request is submitted and settled: no deadlock check.
SPECIFICATION FairSpec
CONSTANTS
    None = None
    Omitted = Omitted
    o1 = o1
    o2 = o2
    o3 = o3
    c1 = c1
    c2 = c2
    stranger = stranger
    a1 = a1
    a2 = a2
    Orders = {o1, o2}
    Addresses = {a1, a2}
    Threads = {t1, t2}
    Requests = {r1, r2}
    Customers = {c1}
    CustomerIds = {c1}
    OwnerOf <- MCOwnerOf
    Messages <- NamesOneOfTwo
    Classifications <- AllIntents
    Fixtures <- OpenFixture
    SharedStore = TRUE
    ReuseThreads = FALSE
INVARIANTS
    SensitiveEffectsReviewed
    RejectedNeverActs
    OneEffectPerRequest
    RefusedOnlyByRace
    FailsAfterEffectOnlyAtReply
    GroundedReplies
    AnsweredOnce
    StoreIsFixturePlusJournal
    ContextStaleOnlyByOthers
PROPERTIES
    ApprovalSettles
    ImplementsContract
CHECK_DEADLOCK FALSE
