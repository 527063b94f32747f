SPECIFICATION Spec
CONSTANTS
    MaxTexts = 2
    MaxCalls = 3
    MaxFailures = 1
    MaxOthers = 1
    MaxLeaves = 1
    MaxRefused = 1
INVARIANTS
    ComposerInvariant
    ResolveIsAsked
    UnmarkedScreenIsTrue
PROPERTIES
    DraftIsKept
CHECK_DEADLOCK FALSE
