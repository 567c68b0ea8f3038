CONSTANTS
    ByteCeiling <- MCByteCeiling
    Quote = 1
    runeMax <- MCRuneMax
    runeToUTF8 <- MCRuneToUTF8
    At <- MCAt
    Code <- MCCode
    characterProperties <- MCProperties
    negatedProperties <- MCNegated
    regexpPropDetails <- MCDetails
    Texts <- MCTexts
    Words <- MCWords
SPECIFICATION Spec
INVARIANTS TypeOK ReadsTheGrammar RefusesTheRest MatchesItsLanguageIfTame
CHECK_DEADLOCK FALSE
