\* Three subscriptions, and dispatches nested twice.
SPECIFICATION FairSpec
CONSTANTS
    MaxSubs = 3
    MaxDepth = 3
INVARIANT
    WalkIsSound
PROPERTIES
    NoRevival
    ImplementsPromise
    DispatchTerminates
    DeadItemsAreSwept
