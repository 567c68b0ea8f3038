\* An array of objects where the Patterns have a leaf only.
SPECIFICATION Spec
CONSTANTS
    Names <- MCNames
    Json <- MCJson
    Events <- FewEvents
    Parts <- FewParts
    Trees <- FewTrees
INVARIANT
    FieldPathIsItsPlace
CHECK_DEADLOCK FALSE
