CONSTANTS
    c1 = c1
    c2 = c2
    Clients = {c1, c2}
    Configs <- MCConfigs
    DefaultConfig <- MCDefault
    Unreadable = Unreadable
    None = None
    DayMinutes = 4
    Faults = {"disk", "sync", "crash", "torn"}
    DesktopLoads = TRUE
    MaxSaves = 2
    MaxStarts = 2
SPECIFICATION Spec
INVARIANT StoreTypeOK
INVARIANT AcknowledgedIsOnDisk
INVARIANT TimersFollowConfig
INVARIANT WakesAheadOfStart
PROPERTY NewestReachesWorker
CHECK_DEADLOCK FALSE
