\* Three handlers; the walk could nest once if the code let it.
SPECIFICATION FFairSpec
CONSTANTS
    MaxSubs = 3
    MaxDepth = 2
INVARIANTS
    WokenSeesSettledOrGone
    NeverNested
PROPERTIES
    SettledIsClosed
    ImplementsContract
