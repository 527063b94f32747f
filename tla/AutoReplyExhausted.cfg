SPECIFICATION Spec
CONSTANTS
    Tickets = {t1}
    Handlers = {h1}
    JobIds = {j1}
    RetryLimit = 1
    Agents = {ana}
    HandoffTarget = ana
    Categories = {"General"}
    Verdicts = {"notCovered"}
    MaxInbound = 1
    MaxEdits = 0
    MaxFailures = 2
    MaxCrashes = 0
    MaxSweepCrashes = 0
    MaxStalls = 0
    SwitchMoves = FALSE
    MayAge = FALSE
INVARIANTS
    WaitingHasJob
CHECK_DEADLOCK FALSE
