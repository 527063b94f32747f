SPECIFICATION Spec
CONSTANTS
    Hour = 2
    Life = 3
    Day = 4
    MaxStarts = 1
    Limit = 1
    MaxVisitors = 2
    MaxCalls = 2
    MaxClock = 5
    MaxRestarts = 2
    MaxTickets = 3
INVARIANTS
    DemoInvariant
    NobodyLingers
    BudgetHolds
PROPERTIES
    RefusedIsNotRevived
CHECK_DEADLOCK FALSE
