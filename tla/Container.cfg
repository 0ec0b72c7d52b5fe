\* Two locks, three subscriptions, and calls from handlers nested once.
SPECIFICATION CFairSpec
CONSTANTS
    MaxSubs = 3
    MaxDepth = 2
    Locks = {l1, l2}
INVARIANTS
    OneOwner
    NoneWaitsInVain
PROPERTY
    WaitersAreTold
