\* Every pair of AddPattern calls, up to their names, against one match call.
SPECIFICATION Spec
CONSTANTS
    w1 = w1
    w2 = w2
    r1 = r1
    r2 = r2
    NoWriter = NoWriter
    Writers <- TwoWriters
    Readers <- OneReader
    Paths <- MCPaths
    Values <- MCValues
    PVals <- MCPVals
    Strings <- MCStrings
    Ranges <- MCRanges
    Accepts <- MCAccepts
    Xs <- MCXs
    Patterns <- AllPatterns
    Events <- AllEvents
SYMMETRY WriterSymmetry
INVARIANTS
    TypeOK
    Inductive
    EndStatesJustified
    FoundMeetsConditions
    ReportedMatches
    NoneMissed
    Sound
    Complete
PROPERTIES
    NothingRetracted
    ImplementsStore
CHECK_DEADLOCK FALSE
