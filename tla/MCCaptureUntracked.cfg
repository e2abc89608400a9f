SPECIFICATION Spec
CONSTANTS
    Configs <- StableConfigs
    Features <- NoFeatures
    Frames <- UntrackedFrames
    Moved <- FartherThanOne
    MaxTime = 4
PROPERTIES
    FirstSightingUnstable
