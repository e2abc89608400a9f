SPECIFICATION Spec
CONSTANTS
    Modes <- LightMode
    MaxFaces = 1
    Intervals <- OneInterval
    MaxBoxes = 1
    MaxTracked = 3
    MaxId = 4
    MaxFrames = 4
    MaxTrackId = 3
    MaxTimeLost = 1
INVARIANTS
    WithinMaxFaces
CHECK_DEADLOCK FALSE
