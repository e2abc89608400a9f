SPECIFICATION Spec
CONSTANTS
    Threads = {t1, t2}
    Packages <- MCPackages
    DetectorNames <- MCDetectorNames
    Outcome <- MCOutcome
    PixelsOf <- MCPixelsOf
    DetectorsOf <- MCDetectorsOf
    ModelsOf <- MCModelsOf
    EnginesOf <- MCEnginesOf
    PixelLists <- MCPixelLists
    DetectorLists <- MCDetectorLists
    PixelLevels <- MCPixelLevels
    Optional <- MCOptional
INVARIANTS Coherent QuietSessionsMatch
PROPERTIES AllOrNothing
