\* A handler dispatches the channel it was called from: the loop must still move.
SPECIFICATION FairSpec
CONSTANTS
    MaxSubs = 2
    MaxDepth = 2
PROPERTY
    LoopAdvances
