CONSTANTS
    ByteCeiling <- MCByteCeiling
    Quote = 1
    runeMax <- MCRuneMax
    runeToUTF8 <- MCRuneToUTF8
    At <- MCAt
    Code <- MCCode
    characterProperties <- MCProperties
    negatedProperties <- MCNegated
    regexpPropDetails <- MCDetails
    Texts <- RepeatTexts
    Words <- MCWords
SPECIFICATION Spec
INVARIANTS MatchesItsLanguage
CHECK_DEADLOCK FALSE
