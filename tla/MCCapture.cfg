SPECIFICATION SpecH
CONSTANTS
    Configs <- AllConfigs
    Features <- AllFeatures
    Frames <- FramesOf
    Moved <- FartherThanOne
    MaxTime = 5
INVARIANTS
    Spaced
    Bounded
    BestKept
    ResultsWereStable
PROPERTIES
    ResultsNeverWorsen
    FinishedFrozen
