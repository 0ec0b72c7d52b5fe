\* A module calls load or unload from a callback of the core.
SPECIFICATION Spec
CONSTANTS
    MaxModules = 2
    MaxDepth = 2
    Cascade = FALSE
INVARIANT
    NeverReentered
