\* A match call that overlaps AddPattern of a Pattern with exists:false.
SPECIFICATION Spec
CONSTANTS
    w1 = w1
    w2 = w2
    r1 = r1
    r2 = r2
    NoWriter = NoWriter
    Writers <- TwoWriters
    Readers <- OneReader
    Paths <- MCPaths
    Values <- MCValues
    PVals <- MCPVals
    Strings <- MCStrings
    Ranges <- MCRanges
    Accepts <- MCAccepts
    Xs <- MCXs
    Patterns <- AbsentPatterns
    Events <- AbsentEvents
INVARIANT
    ReturnedMatchesEvent
CHECK_DEADLOCK FALSE
