SPECIFICATION Spec
CONSTANTS
    Category <- MCCategory
    Base <- MCBase
    Extra <- MCExtra
    MarkerWeight <- MCMarkerWeight
    IocWeight <- MCIocWeight
    Word <- MCWord
    Width <- MCWidth
    MaxWords = 3
    Radius = 3
    MaxText = 4
    Client = {a, b}
    RATE_LIMIT_WINDOW = 2
    RATE_LIMIT_MAX = 2
    MaxClock = 4
    MaxRequests = 5
    Address = {site, elsewhere, file}
    Valid = {site, elsewhere}
    MAX_REDIRECTS = 2
    f1 = f1
    f2 = f2
    f3 = f3
    f4 = f4
    f5 = f5
    Finding = {f1, f2, f3, f4, f5}
    PageSize = {1, 2, 3}
    DefaultPerPage = 2
INVARIANTS
    QuoteHoldsPhrase
    LimitExact
    ResultEarned
    WalkComplete
PROPERTY MarkersOnlySuppress
SYMMETRY MCSymmetry
CHECK_DEADLOCK FALSE
