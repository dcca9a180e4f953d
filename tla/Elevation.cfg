CONSTANTS
    a1 = a1
    a2 = a2
    k1 = k1
    Attempts = {a1, a2}
    NoAttempt = NoAttempt
    NoCall = NoCall
    Grants = {k1}
    NoGrant = NoGrant
    RootBackend = TRUE
SPECIFICATION ElevationSpec
INVARIANTS
    ElevationTypeOK
    NoForgottenMiner
PROPERTIES
    RevokedMinerEnds
    ImplementsRootSession
CHECK_DEADLOCK FALSE
