\* Script runs that overlap, as with Streamlit's default setting.
\* A user may stop clicking, and clicks are bounded: no deadlock check.
SPECIFICATION Spec
CONSTANTS
    None = None
    o1 = o1
    a1 = a1
    a2 = a2
    Orders = {o1}
    Addresses = {a1, a2}
    Runtimes = {n1, n2, n3}
    Runs = {x1, x2, x3}
    MaxClicks = 4
    Fixture <- DeliveredFixture
    FastReruns = TRUE
SYMMETRY Symmetry
INVARIANTS
    OnlyWhatWasApproved
    QuietWhileAwaiting
    CompletedTellsTheTruth
PROPERTIES
    PendingDroppedOnlyByNewCase
    AbandonedStaysAbandoned
    SettledIsFinal
    KeepsContractUnlessAnsweredTwice
CHECK_DEADLOCK FALSE
