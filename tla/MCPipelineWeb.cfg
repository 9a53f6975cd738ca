SPECIFICATION Spec
CONSTANTS
    Record = {"page1", "mirror", "page2", "mail"}
    Source = {"src1", "src2", "tg", "dnmx"}
    Url = {"onion1"}
    Actor = {"actor"}
    Value = {"btc"}
    Key = {"k1", "m1", "page2", "other", "abuse", "mail", "tg2", "clean"}
    Category = {"ransomware", "child_exploitation", "unknown"}
    NoActor = NoActor
    NoMessage = NoMessage
    SourceOf <- MCSourceOf
    PlatformOf <- MCPlatformOf
    KeyOf <- MCKeyOf
    PatternsOf <- MCPatternsOf
    LinksOf <- MCLinksOf
    ValuesOf <- MCValuesOf
    CategoryOf <- MCCategoryOf
    AuthorOf <- MCAuthorOf
    HIGH_RISK_CATEGORIES = {"ransomware"}
    QUARANTINE_CATEGORIES = {"child_exploitation"}
    UnstoredSources = {"dnmx"}
    SeededSources = {"src1", "dnmx"}
    PI_CAMPAIGN_THRESHOLD = 5
    MaxFaults = 2
    MaxCommands = 0
CHECK_DEADLOCK FALSE
INVARIANTS
    IndexedWasStored
    ReputationBacked
    FindingsCorroborated
    PoisonBudget
    StoresAgree
PROPERTY
    AtMostOnce
