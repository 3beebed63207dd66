SPECIFICATION MCSpec
CONSTANTS
    Decodes = {first, second}
    None = None
    HighestLevel = 1
    Blocks = {0, 1}
    Off = 0
    Plans <- MCPlans
    RenderBound = 3
    SourceBound = 2
    EventBound = 4
    Names <- MCNames
    FileOf <- MCFileOf
    Folders <- MCFolders
    Shots <- MCShots
    Outputs = {"d", "o"}
    Destination <- MCDestination
    CommandLines <- MCCommandLines
    Writers = {w1, w2}
    Spellings = {1, 2, 3, 4}
    Fold <- MCFold
    Nameless = 5
    BuiltIns = {"social"}
    Settings = {1, 2}
    Strange = Strange
    HandMade <- MCHandMade
    AskBound = 2
    EditBound = 1
    CrashBound = 1
INVARIANTS
    CompanionsAreKept
CHECK_DEADLOCK FALSE
