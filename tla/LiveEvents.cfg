SPECIFICATION FairLiveSpec
CONSTANTS
    Tabs = {t1}
    Procs = {p1, p2}
    Workers = {w1, w2}
    Watchable = {"list", "unread", "pipeline", "evals"}
    Follow = {"opened", "answered", "replied", "unassigned", "measured"}
    MaxCommits = 2
    MaxFrames = 2
    MaxBreaks = 1
INVARIANTS
    LiveInvariant
PROPERTIES
    ScreenCatchesUp
CHECK_DEADLOCK FALSE
