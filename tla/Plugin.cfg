\* Four modules, entry points called one at a time in any order, and no callback
\* that calls load or unload.
SPECIFICATION PFairSpec
CONSTANTS
    MaxModules = 4
    MaxDepth = 1
    Cascade = FALSE
INVARIANTS
    ModulesExist
    AllOrNothing
    EntryPointsAreTrue
PROPERTIES
    ImplementsPromise
    CallsReturn
