SPECIFICATION Spec
CONSTANTS
    Modes <- AllModes
    MaxFaces = 2
    Intervals <- TwoIntervals
    MaxBoxes = 2
    MaxTracked = 3
    MaxId = 5
    MaxFrames = 4
    MaxTrackId = 3
    MaxTimeLost = 1
INVARIANTS
    DistinctIds
    FacesAreTracked
    RecoverySearches
    DetectionIsDue
    OneIdentity
    SeenTwice
    LostExpire
PROPERTIES
    IdsAreFresh
    DroppedForGood
CHECK_DEADLOCK FALSE
