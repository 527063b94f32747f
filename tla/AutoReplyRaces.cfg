SPECIFICATION Spec
CONSTANTS
    Tickets = {t1}
    Handlers = {h1, h2}
    JobIds = {j1, j2}
    RetryLimit = 1
    Agents = {ana}
    HandoffTarget = ana
    Categories = {"General", "Technical", "Refund"}
    Verdicts = {"notCovered"}
    MaxInbound = 2
    MaxEdits = 1
    MaxFailures = 1
    MaxCrashes = 1
    MaxSweepCrashes = 1
    MaxStalls = 1
    SwitchMoves = TRUE
    MayAge = FALSE
SYMMETRY Interchangeable
INVARIANTS
    AutoReplyInvariant
    HistoryTellsOneVerdict
    HandedBackIsOwned
    RailAddsUp
PROPERTIES
    AnswersOpenings
    KeepsPromise
CHECK_DEADLOCK FALSE
