CONSTANTS
    m1 = m1
    m2 = m2
    s1 = s1
    s2 = s2
    g1 = g1
    g2 = g2
    Miners = {m1}
    Schedules = {s1}
    Gpus = {g1, g2}
    AllGpus = AllGpus
    NoProfile = NoProfile
    NoWindow = NoWindow
    NoChild = NoChild
    NoLaunch = NoLaunch
    NoTick = NoTick
    NoPower = NoPower
    BadTime = BadTime
    DaySeconds = 4
    MaxClock = 3
    SetBack = 1
    CrashGuard = FALSE
    Faults = {"launch", "stop", "persist", "die", "exit", "update", "edit", "crash"}
    Attended = {s1}
    Countdown = 2
    Lease = 1
    Configs <- RootDays
SPECIFICATION FairPowerSpec
PROPERTIES
    UnattendedNeverSleeps
    CountdownResolves
