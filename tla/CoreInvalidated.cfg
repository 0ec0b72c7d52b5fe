\* A module calls invalidate while the core is loading or loaded.
SPECIFICATION Spec
CONSTANTS
    MaxModules = 2
    MaxDepth = 1
    Cascade = FALSE
PROPERTY
    InvalidationSticks
