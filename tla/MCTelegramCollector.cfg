SPECIFICATION FairSpec
CONSTANTS
    Group = {"chat", "feed"}
    MaxId = 3
    LastId <- MCLastId
    HasText <- MCHasText
    HISTORY_LIMIT = 2
    MaxFaults = 2
    MaxCommands = 1
INVARIANTS
    NothingSkipped
    ReplayBound
    SwitchStopsCycles
PROPERTIES
    CaughtUp
