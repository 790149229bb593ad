SPECIFICATION PrepSpec
CONSTANTS
    MaxRow = 3
    Rows <- MCRows
    Columns <- MCColumns
    CellsOf <- MCCellsOf
    BatchSizes = {1, 2}
    ReadSizes = {1, 3}
    IntMax = 7
    FloatExact = 8
    IntPromotionThreshold = 6
    CopyChunkRows = 1
    Words = {"id", "note", "updated_at", "row_hash", "timestamp", "deleted_in_source"}
    Catalogues <- MCCatalogues
    OldTargets <- MCOldTargets
    ColumnSettings <- MCColumnSettings
    ReservedWords = {"timestamp"}
    DateHints = {"updated_at"}
INVARIANTS BufferInv ValuesSurvive HashIsOfTheRowAlone NoValueUnderAnothersName ColumnsAgree
