\* Two goroutines, any five calls.
SPECIFICATION Spec
CONSTANTS
    t1 = t1
    t2 = t2
    x1 = x1
    x2 = x2
    p1 = p1
    p2 = p2
    both = both
    one = one
    NoThread = NoThread
    Threads <- TwoThreads
    Xs <- MCXs
    Pats <- MCPats
    Events <- MCEvents
    Hits <- MCHits
    Additions <- MCAdditions
    MinAction = 2
    RatioDen = 5
    MaxCalls = 5
INVARIANTS
    TypeOK
    LiveIsIndexed
    DeletedStaysOut
    LiveIsReported
    LiveCountRight
    RatioIsDefined
    IInv
PROPERTY
    DisabledStaysDisabled
SYMMETRY ThreadSymmetry
CHECK_DEADLOCK FALSE
