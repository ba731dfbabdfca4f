SPECIFICATION Spec
CONSTANTS
    Subjects <- MCSubjects
    Satisfied <- ExpressionsSatisfied
    Catalog <- MCCatalog
    Level <- MCLevel
    Points <- MCPoints
    Satisfies <- MCSatisfies
    Position <- MCPosition
    Offered <- MCOffered
    Corequisites <- MCCorequisites
    Excludes <- MCExcludes
    Prefix <- MCPrefix
    GeneralSchedule = {"c"}
    Core = {"k"}
    OtherPools <- MCOtherPools
    Problems <- MCProblems
    MAX_100_LEVEL_CP = 12
    LIMIT = 3
    Placeholder = Placeholder
INVARIANTS  RulesKept NothingBetterFits ListsAgree 
CHECK_DEADLOCK FALSE
