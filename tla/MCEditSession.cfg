SPECIFICATION MCSpec
CONSTANTS
    s0 = s0
    s1 = s1
    plain = plain
    rating = rating
    wide = wide
    None = None
    Tones = {0, 1}
    Frames = {0, 1}
    Angles = {0, 1}
    Photographs <- MCPhotographs
    States = {s0}
    DefaultState = s0
    Corrections = {TRUE, FALSE}
    Lenses = {wide}
    NoLens = NoLens
    Match = wide
    NoEdit = NoEdit
    Names = {plain}
    NoSnapshot = NoSnapshot
    MarkNames <- MCMarks
    MarkValues = {0, 1}
    MaximumSnapshots = 3
    MaximumId = 4
    HistoryBound = 2
    RevisionBound = 4
    InitialFiles <- MCAll
INVARIANTS
    Coherent
    RefsListed
    HeldIsPast
    CanRedoMeansRedo
    EditsHaveOwners
    CropIsOneEdit
PROPERTIES
    AgreementKept
    MarksNotPutBack
