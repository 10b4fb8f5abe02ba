CONSTANTS
    Units <- MCUnits
    UnitCount = 4
    ChunkSize = 3
    MaxPreamble = 40
    MaxScan = 40
SPECIFICATION ScanSpec
INVARIANTS
    ViewerUnitsAreReal
CHECK_DEADLOCK FALSE
