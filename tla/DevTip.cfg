CONSTANTS
    Whole = 3
    TipPercent = 1
    MinSlice = 2
    MaxSlice = 3
    Sleep = 2
    SwitchTime = 1
    Faults = {"stop", "start"}
    MaxClock = 18
    MaxEarned = 24
    NoTime = NoTime
SPECIFICATION Spec
INVARIANT FairShare
INVARIANT TipEndsOnTime
CHECK_DEADLOCK FALSE
