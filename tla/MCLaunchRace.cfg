SPECIFICATION Spec
CONSTANTS
    Threads = {t1, t2}
    Packages <- MCPackages
    DetectorNames <- MCDetectorNames
    Outcome <- MCOutcome
    PixelsOf <- MCPixelsOf
    DetectorsOf <- MCDetectorsOf
    ModelsOf <- MCModelsOf
    EnginesOf <- MCEnginesOf
    PixelLists <- NoLists
    DetectorLists <- NoLists
    PixelLevels <- MCPixelLevels
    Optional <- MCOptional
INVARIANTS DetectorIsOwn
