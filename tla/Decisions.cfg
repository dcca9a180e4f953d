CONSTANTS
    DaySeconds = 3
    BadTime = BadTime
    LastSecond = 27
    WindowSet <- MCWindowSet
    Cards = {0, 1, 2}
    Values = {0, 1}
    Unset = Unset
    NotStarted = NotStarted
    CoinOrder <- MCCoinOrder
    WalletOnly = {"EVM"}
    Unknown = Unknown
    NotYet = NotYet
SPECIFICATION DecisionsSpec
INVARIANTS
    OccurrenceIsItsInterval
    TuningReachesItsCard
    SliceIsTheDevelopers
CHECK_DEADLOCK FALSE
