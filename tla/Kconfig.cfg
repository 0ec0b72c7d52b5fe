CONSTANTS
    Files <- AllFiles
    Environment <- MCEnvironment
    Worlds <- MCWorlds
    Numerals <- AllNumerals
    Words <- MCWords
    Get <- GetCached
    ExprValue <- expr_value
    Strings = {"1", "3"}
    SearchedOnly = {"nested", "siblings", "modules"}
    Attrs = {"str", "sel"}
    MaxTouched = 2
SPECIFICATION Spec
INVARIANTS
    CachesFresh
    AssignableTakesEffect
    ChoiceIsExclusive
    SelectsAndDependenciesHold
    VisibleIsReachable
    
    
    
CHECK_DEADLOCK FALSE
