SPECIFICATION Spec
CONSTANTS
    s0 = s0
    plain = plain
    rating = rating
    Writers = {w1, w2}
    Nobody = Nobody
    NoCopy = NoCopy
    States <- MCStates
    DefaultState = s0
    NeutralState = s0
    Corrections = {TRUE, FALSE}
    Lenses = {}
    NoLens = NoLens
    Names = {plain}
    NoSnapshot = NoSnapshot
    MarkNames <- MCMarks
    MarkValues = {0, 1}
    MaximumSnapshots = 3
    MaximumId = 5
    RevisionBound = 2
    CrashBound = 0
    InitialDocuments <- MCDuplicates
PROPERTIES
    DeletedIsGone
