SPECIFICATION FairSpec
CONSTANTS
    Tickets = {t1}
    Handlers = {h1, h2}
    JobIds = {j1, j2}
    RetryLimit = 2
    Agents = {ana}
    HandoffTarget = ana
    Categories = {"General"}
    Verdicts = {"notCovered"}
    MaxInbound = 2
    MaxEdits = 1
    MaxFailures = 1
    MaxCrashes = 1
    MaxSweepCrashes = 0
    MaxStalls = 0
    SwitchMoves = FALSE
    MayAge = TRUE
INVARIANTS
    WaitingHasJob
PROPERTIES
    ClaimIsGivenUp
    PendingIsDecided
CHECK_DEADLOCK FALSE
