SPECIFICATION PrepSpec
CONSTANTS
    MaxRow = 1
    Rows <- MCRows
    Columns <- Texts
    CellsOf <- MCCellsOf
    BatchSizes = {1, 2}
    ReadSizes = {3}
    IntMax = 7
    FloatExact = 8
    IntPromotionThreshold = 6
    CopyChunkRows = 1
    Words = {"id", "note", "updated_at", "row_hash", "timestamp", "deleted_in_source"}
    Catalogues <- MCCatalogues
    OldTargets <- MCOldTargets
    ColumnSettings <- MCColumnSettings
    ReservedWords = {"timestamp"}
    DateHints = {"updated_at"}
INVARIANT TextIsNotGuessedAway
