SPECIFICATION Spec
CONSTANTS
    Sources = 2
    Kind <- MCKind
    Rank <- MCRank
    Parents <- MCParents
    MaxChanges = 1
    MaxCaptures = 2
    MaxReplays = 2
INVARIANTS
    OwnContent
    ReplayComplete
    ScriptRuns
CHECK_DEADLOCK FALSE
