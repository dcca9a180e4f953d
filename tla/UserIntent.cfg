CONSTANTS
    m1 = m1
    m2 = m2
    s1 = s1
    s2 = s2
    g1 = g1
    g2 = g2
    Miners = {m1, m2}
    Schedules = {s1, s2}
    Gpus = {g1, g2}
    AllGpus = AllGpus
    NoProfile = NoProfile
    NoWindow = NoWindow
    NoChild = NoChild
    NoLaunch = NoLaunch
    NoTick = NoTick
    NoPower = NoPower
    BadTime = BadTime
    DaySeconds = 4
    MaxClock = 4
    SetBack = 1
    CrashGuard = FALSE
    Faults = {"launch", "die", "tip", "crash", "exit"}
    Configs <- TwoRigs
SPECIFICATION IntentSpec
INVARIANTS
    HoldMeansStopped
    HoldsDurable
    StopWins
