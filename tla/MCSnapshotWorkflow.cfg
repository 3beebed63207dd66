SPECIFICATION MCLiveSpec
CONSTANTS
    s0 = s0
    s1 = s1
    plain = plain
    other = other
    rating = rating
    States = {s0, s1}
    DefaultState = s0
    Corrections = {FALSE}
    Lenses = {}
    NoLens = NoLens
    Match = NoLens
    NoEdit = NoEdit
    Names = {plain, other}
    NewNames = {plain}
    NoSnapshot = NoSnapshot
    MarkNames <- MCMarks
    MarkValues = {0}
    MaximumSnapshots = 3
    MaximumId = 3
    NoSession = NoSession
    Nothing = Nothing
    maximumBatch = 2
    Asked = {"create", "rename", "delete", "discard", "thumbnail"}
    HistoryBound = 2
    RevisionBound = 3
    SerialBound = 2
    TicketBound = 2
    InitialFiles <- MCFiles
    Parts = {"lists", "looks"}
INVARIANTS
    SessionIsSound
    TicketIsOwed
    NothingMissed
PROPERTIES
    NeverBackwards
    TicketIsCleared
    AnchorIsTrue
