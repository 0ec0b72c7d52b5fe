CONSTANTS
    Files <- AllFiles
    Environment <- MCEnvironment
    Worlds <- MCWorlds
    ToolFor <- MCToolFor
    Numerals <- AllNumerals
    Words <- MCWords
    Get <- GetCached
    Old <- OldName
    Made <- NewObject
    Read <- LoadReplacing
    ValuesIn <- ValuesOf
    Edits <- EditedUsers
    SetBy <- Apply
    ConfigOf <- ConfigContents
    JsonOf <- JsonLines
    HeaderOf <- AutoconfContents
    AutoOf <- OldValsContents
    SeenOf <- Seen
    TouchedOf <- ToTouch
    ExprValue <- expr_value
    NodeOf <- NodeIn
    MenuOf <- ParentMenu
    PlacesOf <- NodesOf
    FoundBy <- Matches
    ShownIn <- _shown_nodes
    SelectedIn <- SelectionOf
    CondIn <- ValueOf
    StrIn <- StrOf
    TriIn <- TriAt
    OfferedIn <- AssignableAt
    YModeIn <- InYModeChoice
    EntriesIn <- EntriesAt
    SetIn <- ItemAssigned
    Unsaved <- NeedsSave
    MinConfigOf <- MinConfigContents
    Strings = {"3"}
    Arguments <- MCArguments
    MaxRuns = 3
    MaxCrashes = 1
    Screens = {10, 12}
    FileNames = {".config", "defconfig"}
    Searches <- MCSearches
    MaxDone <- MCMaxDone
SPECIFICATION Spec
INVARIANTS
    OneCrashIsSurvived
    JsonShowsWhatWasSaved
    ScreenIsRight
    TreeShowsTheMenu
    NothingUnsavedIsLost
PROPERTIES
    NoChangeIsMissed
CHECK_DEADLOCK FALSE
