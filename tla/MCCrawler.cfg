SPECIFICATION FairSpec
CONSTANTS
    Target = {"forum", "market"}
    Url = {"froot", "board", "post", "alias", "shop", "mroot", "offer"}
    RootOf <- MCRootOf
    ListingOf <- MCListingOf
    FinalOf <- MCFinalOf
    LinksOn <- MCLinksOn
    Gated = {"post"}
    Malformed = {"shop"}
    Broken = {"offer"}
    Place <- MCPlace
    QueueWait = {"market"}
    MAX_PAGES = 2
    CIRCUIT_ROTATION_INTERVAL = 3
    MaxFaults = 2
INVARIANTS
    CrawlOnce
    ListingsStayFresh
    SeenAccounted
    CircuitBound
PROPERTIES
    TargetsRevisited
    BufferDrains
