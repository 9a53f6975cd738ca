SPECIFICATION FairSpec
CONSTANTS
    User = {"root", "ann", "bob"}
    Root = "root"
INVARIANTS
    AdministratorRemains
    AdminSessionsEarned
PROPERTIES
    PowerEnds
