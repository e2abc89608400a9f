SPECIFICATION Spec
CONSTANTS
    f1 = f1  f2 = f2
    Nothing = Nothing
    Threads = {t1, t2}
    Ids <- RowIds
    Features = {f1, f2}
    Similarity <- Levels
    Configs <- HubConfigs
    Thresholds = {1, 2}
    Default = 2
    Stored <- Tables
    MaxTopK = 2
SYMMETRY Symmetry
INVARIANTS
    PointerCoherent
    BorrowedResultsStay
    SearchIsExact
