\* The documented single execution, with two clicks on one approval card.
\* A user may stop clicking, and clicks are bounded: no deadlock check.
SPECIFICATION Spec
CONSTANTS
    None = None
    o1 = o1
    a1 = a1
    a2 = a2
    Orders = {o1}
    Addresses = {a1, a2}
    Runtimes = {n1}
    Runs = {x1, x2}
    MaxClicks = 3
    Fixture <- DeliveredFixture
    FastReruns = TRUE
INVARIANTS
    ExecutedAtMostOnce
CHECK_DEADLOCK FALSE
