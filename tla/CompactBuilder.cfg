CONSTANTS
    ByteCeiling <- MCByteCeiling
    Quote <- MCQuote
    runeMax = 9
    runeToUTF8 <- MCRuneToUTF8
    At <- MCAt
    Code <- MCCode
    characterProperties = {}
    negatedProperties = {}
    regexpPropDetails = {}
    FloatWidth = 5
    DigitBits = 2
    numericDigits = 3
    MaxFinite = 11
    ParseFloat <- MCParseFloat
    Star <- MCStar
    Backslash <- MCBackslash
    caseFoldingPairs <- MCFolding
    DaysPerWeek = 3
    minutesPerDay = 12
    weekDigits = 3
    Radix = 4
    ZeroDigit = 3
    LocalMinute <- MCLocalMinute
    Paths = {1, 2, 3}
    Batches <- MCBatches
    Events <- MCEvents
    TooLarge <- MCTooLarge
    ValueOrder <- MCValueOrder
    InternSlack = 6
    BuildModes = {"BuiltForStorage", "BuiltForSpeed"}
    MaxCalls = 3
SPECIFICATION Spec
INVARIANTS TypeOK SameMatchesAsOneByOne
PROPERTIES PublishedStaysAsItIs KnownPatternsKeepTheStart
CHECK_DEADLOCK FALSE
