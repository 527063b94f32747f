SPECIFICATION Spec
CONSTANTS
    Accounts = {a1, a2, c, d, bot}
    FirstAdmins = {a1, a2}
    FirstAgents = {c}
    Automated = {bot}
    UserRequests = {r1, r2}
    Touched = {a1, a2, c}
    Bodies <- MCBodies
    MaxEvents = 3
    Tickets = {t1}
    TicketRequests = {w1, w2}
    Names = {"Ann", "Bo"}
    NameOf <- MCNames
    Labels = {"Resolved", "General"}
SYMMETRY AlikeAdmins
INVARIANTS
    DeskInvariant
    AdminRemains
    DeletedOwnsNothing
    SeenWasOpened
PROPERTIES
    DeletedStaysOut
CHECK_DEADLOCK FALSE
