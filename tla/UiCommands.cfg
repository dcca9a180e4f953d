CONSTANTS
    path = path
    webToken = webToken
    Fields = {path, webToken}
    TokenField = webToken
    PathField = path
    MaxCalls = 2
    Nothing = Nothing
    Faults = {"refuse", "timeout"}
    MaxEdits = 2
    MaxSaves = 2
    MaxReloads = 1
SPECIFICATION Spec
INVARIANTS
    OneCommand
    UnsavedIsMarked
    StartsWhatWasShown
PROPERTY
    CommandsEnd
CHECK_DEADLOCK FALSE
