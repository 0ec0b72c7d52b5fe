\* Three hooks, one target with its two phases, and events nested once.
SPECIFICATION BSpec
CONSTANTS
    MaxSubs = 3
    MaxDepth = 2
    Targets = {t}
PROPERTY
    EventIsAnswered
