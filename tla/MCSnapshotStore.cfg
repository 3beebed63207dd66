SPECIFICATION Spec
CONSTANTS
    s0 = s0
    plain = plain
    rating = rating
    States <- MCStates
    DefaultState = s0
    Corrections = {TRUE, FALSE}
    Lenses = {}
    NoLens = NoLens
    Names = {plain}
    NoSnapshot = NoSnapshot
    MarkNames <- MCMarks
    MarkValues = {0}
    MaximumSnapshots = 3
    MaximumId = 5
    RevisionBound = 5
    InitialFiles <- MCInitialFiles
INVARIANTS
    TypeOK
    FileSound
PROPERTIES
    IdsNeverReused
    RevisionTellsChange
