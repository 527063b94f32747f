SPECIFICATION FairSpec
CONSTANTS
    Emails = {reply, demo}
    DemoEmails = {demo}
    TicketEmails = {reply, demo}
    Handlers = {h1, h2}
    JobIds = {j1, j2}
    RetryLimit = 1
    MaxRetries = 1
    MaxCrashes = 1
    MaxRepairCrashes = 1
    MaxStalls = 1
    MaxTimeouts = 1
    ProviderMoves = TRUE
    TicketsGo = TRUE
INVARIANTS
    OutboxInvariant
PROPERTIES
    KeepsMailPromise
    QueuedIsSettled
CHECK_DEADLOCK FALSE
