CONSTANTS
    a1 = a1
    a2 = a2
    k1 = k1
    k2 = k2
    c1 = c1
    c2 = c2
    f1 = f1
    f2 = f2
    Attempts = {a1}
    NoAttempt = NoAttempt
    NoCall = NoCall
    Grants = {k1, k2}
    NoGrant = NoGrant
    RootBackend = FALSE
    Settings = {c1, c2}
    Rooted = {c1}
    Eligible = {c1}
    Absent = Absent
    Contents = {f1, f2}
    Overtaken = Overtaken
    NoOp = NoOp
    NoEnroll = NoEnroll
    Faults = {"crash", "disk", "store", "timeout"}
SPECIFICATION Spec
INVARIANTS
    TypeOK
    ApprovedIsReviewed
PROPERTY
    GrantsComeFromReviews
SYMMETRY Symmetry
VIEW View
CHECK_DEADLOCK FALSE
