SPECIFICATION FairPlansSpec
CONSTANTS
    Runs = {r1}
    Cases = {"off", "on"}
    Requests <- MCRequests
    ByHand <- MCByHand
    Droppable = {"on"}
    Handlers = {h1, h2}
    JobIds = {j1}
    RetryLimit = 1
    MaxFailures = 2
    MaxCrashes = 1
    MaxRepairCrashes = 1
    MaxStalls = 1
    MaxRenames = 1
    MaxMishaps = 2
    Plans = {p1}
    PlanHandlers = {f1}
    PlanJobIds = {k1}
    AllCaseIds <- MCAll
INVARIANTS
    EvalInvariant
PROPERTIES
    RunIsClosed
    KeepsPlanPromise
    PlanIsDecided
CHECK_DEADLOCK FALSE
