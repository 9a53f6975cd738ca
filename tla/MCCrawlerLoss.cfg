SPECIFICATION Spec
CONSTANTS
    Target = {"forum", "market"}
    Url = {"froot", "board", "post", "mroot", "offer"}
    RootOf <- MCRootOf
    ListingOf <- MCListingOf
    FinalOf <- MCFinalOf
    LinksOn <- MCLinksOn
    Gated = {"offer"}
    Malformed = {}
    Broken = {}
    Place <- MCPlace
    QueueWait = {"market"}
    MAX_PAGES = 2
    CIRCUIT_ROTATION_INTERVAL = 3
    MaxFaults = 1
INVARIANT
    PersistedAccounted
