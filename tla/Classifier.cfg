SPECIFICATION FairSpec
CONSTANTS
    Tickets = {t1}
    Handlers = {h1, h2}
    JobIds = {j1, j2}
    RetryLimit = 1
    Categories = {"General", "Refund"}
    Failures = {"busy", "auth"}
    MaxEdits = 1
    MaxCrashes = 1
    MaxStalls = 1
    KeyMoves = TRUE
    MayAge = TRUE
INVARIANTS
    ClassifierInvariant
PROPERTIES
    AgentsFilingStands
    GetsVerdict
CHECK_DEADLOCK FALSE
