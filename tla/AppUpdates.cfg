CONSTANTS
    Versions = {1, 2, 3}
    NoVersion = NoVersion
    Fail = Fail
SPECIFICATION Spec
INVARIANTS
    UpdateTypeOK
    BlockedOnlyInHandover
PROPERTIES
    InstallsWhatWasConfirmed
    InterruptsOnlyToInstall
    UpdateEnds
CHECK_DEADLOCK FALSE
