SPECIFICATION FairSpec
CONSTANTS
    MaxKey = 3
    BatchSize = 2
    Attempts = 2
    HasKey = TRUE
    PyRank <- OtherOrder
    SkipEstimate = FALSE
    EmptyRowsOk = TRUE
    Partitioned = TRUE
    HasPk = TRUE
    MaxFaults = 2
INVARIANTS NoKeyTwice
PROPERTIES ReplacesAtomically LoadEnds
