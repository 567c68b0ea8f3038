\* Two AddPattern calls and two match calls for one event, all scheduled fairly.
SPECIFICATION FairSpec
CONSTANTS
    w1 = w1
    w2 = w2
    r1 = r1
    r2 = r2
    NoWriter = NoWriter
    Writers <- TwoWriters
    Readers <- TwoReaders
    Paths <- MCPaths
    Values <- MCValues
    PVals <- MCPVals
    Strings <- MCStrings
    Ranges <- MCRanges
    Accepts <- MCAccepts
    Xs <- MCXs
    Patterns <- FewPatterns
    Events <- FewEvents
INVARIANT
    NoSecondThoughts
PROPERTIES
    EveryAddEnds
    EveryMatchReturns
CHECK_DEADLOCK FALSE
