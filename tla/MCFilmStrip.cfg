SPECIFICATION MCSpec
CONSTANTS
    Folders = {0, 1, 2, 3, 4}
    Parent <- MCParent
    Trees <- MCTrees
    None = None
    MaxWatched = 3
    SystemLimits = {2, 3}
    ErrorBound = 1
    ChangeBound = 2
    WalkBound = 2
    Photos = {photo}
    OwnStampsKept = 1
    WriteBound = 2
    ListingBound = 2
    JobBound = 2
    SettingsBound = 2
    ResultBound = 2
INVARIANTS
    StripFits
    RowsFollowDisk
    ChangesAreSeen
    PicturesAgree
PROPERTIES
    UnavailableRowsStay
CHECK_DEADLOCK FALSE
