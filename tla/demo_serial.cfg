\* Script runs that do not overlap: the demo keeps the contract of a request,
\* progress included, and no card stays for ever.
\* A user may stop clicking, and clicks are bounded: no deadlock check.
SPECIFICATION FairSpec
CONSTANTS
    None = None
    o1 = o1
    a1 = a1
    a2 = a2
    Orders = {o1}
    Addresses = {a1, a2}
    Runtimes = {n1, n2}
    Runs = {x1}
    MaxClicks = 4
    Fixture <- OpenFixture
    FastReruns = FALSE
INVARIANTS
    TypeOK
PROPERTIES
    ImplementsContract
    ResumeSettles
CHECK_DEADLOCK FALSE
