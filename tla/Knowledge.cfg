SPECIFICATION Spec
CONSTANTS
    Admins = {u1, u2}
    Requests = {r1, r2}
    MaxArticles = 2
    MaxAsked = 3
SYMMETRY AlikeAdmins
INVARIANTS
    KnowledgeInvariant
    FourEyes
PROPERTIES
    DecisionStands
CHECK_DEADLOCK FALSE
