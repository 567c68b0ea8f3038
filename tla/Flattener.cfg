\* Every event of MCEvents with every tree of MCTrees.
SPECIFICATION Spec
CONSTANTS
    Names <- MCNames
    Json <- MCJson
    Events <- MCEvents
    Parts <- MCParts
    Trees <- MCTrees
INVARIANTS
    TypeOK
    FieldsAreTheWantedLeaves
    SkipsNothingUsed
    TrailsTellElementsApart
    ConsecutiveTrailsSuffice
PROPERTY
    FlattenEnds
CHECK_DEADLOCK FALSE
