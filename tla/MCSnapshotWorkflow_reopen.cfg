SPECIFICATION MCSpec
CONSTANTS
    s0 = s0
    s1 = s1
    plain = plain
    other = other
    rating = rating
    States = {s0, s1}
    DefaultState = s0
    Corrections = {FALSE}
    Lenses = {}
    NoLens = NoLens
    Match = NoLens
    NoEdit = NoEdit
    Names = {plain}
    NewNames = {plain}
    NoSnapshot = NoSnapshot
    MarkNames <- MCMarks
    MarkValues = {0}
    MaximumSnapshots = 3
    MaximumId = 3
    NoSession = NoSession
    Nothing = Nothing
    maximumBatch = 2
    Asked = {}
    HistoryBound = 2
    RevisionBound = 2
    SerialBound = 2
    TicketBound = 1
    InitialFiles <- MCFiles
    Parts = {"reopen"}
PROPERTIES
    SavedIsKept
