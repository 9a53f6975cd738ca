SPECIFICATION FairSpec
CONSTANTS
    SourceId = {"forum", "market"}
    Url = {"link"}
    Shipped <- MCShipped
    Seeded = {"market"}
    Proposable = {"market"}
    Requested = {"approved", "pending", "quarantined"}
    MaxProposals = 2
    MaxChanges = 2
    MaxFaults = 1
INVARIANTS
    SourcesUnique
    ReviewsAccounted
    RegistryAgrees
    FrozenShown
PROPERTIES
    ReviewsFinal
    RetirementTakesEffect
