\* Two awaited futures and up to three handles; the stack never reaches its bound.
SPECIFICATION FairSpec
CONSTANTS
    Futures = {f1, f2}
    Result = Result
    Never = Never
    None = None
    MaxHandles = 3
    MaxDepth = 10
INVARIANTS
    SuspendedIsTrue
    NoUseAfterDestroy
    LinksAreTrue
    NothingLeftBehind
PROPERTIES
    MovesForward
    TaskComesToItsEnd
    AwaiterIsResumed
