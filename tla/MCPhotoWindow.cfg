SPECIFICATION MCSpec
CONSTANTS
    Looks <- MCLooks
    Options = {ahd, vng}
    None = None
    SavedOptions = ahd
    SavedLook <- MCSavedLook
    DocumentBound = 2
    DecodeBound = 3
    RequestBound = 3
    AloneBound = 2
    PictureBound = 3
    ClearBound = 2
    SubmitBound = 5
    ExportBound = 4
INVARIANTS
    MCTypeOK
    ShownIsOfOpenPhoto
    SettledShowsNewest
    RendererEnds
    HistogramIsOfShown
    NamesAreOwed
PROPERTIES
    NewestIsServed
    WaitEnds
CHECK_DEADLOCK FALSE
