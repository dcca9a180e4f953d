CONSTANTS
    d1 = d1
    d2 = d2
    Desktops = {d1, d2}
    Grace = 2
    ProbeMayFail = TRUE
SPECIFICATION FairSpec
CHECK_DEADLOCK FALSE
INVARIANTS
    RunningKeepsLease
PROPERTIES
    StopsOnlyAbandoned
    AbandonedBackendStops
