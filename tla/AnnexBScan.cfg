CONSTANTS
    Units <- MCUnits
    UnitCount = 5
    ChunkSize = 4
    MaxPreamble = 13
    MaxScan = 8
SPECIFICATION ScanSpec
INVARIANTS
    ScanIsExact
    BrokenOnlyAtSeam
CHECK_DEADLOCK FALSE
