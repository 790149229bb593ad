SPECIFICATION FairSpec
CONSTANTS
    MaxKey = 4
    BatchSize = 2
    Attempts = 3
    HasKey = TRUE
    PyRank <- SameOrder
    Suffixes <- OneSuffix
    SuffixOf <- OneSuffixOf
    Counter <- KeyCounter
    Configured <- OneSuffix
    EstimatesDelta = TRUE
    CheckpointRows = 2
    CommitInOrder = TRUE
    MaxFaults = 3
INVARIANTS NoHole NeverRepeated NothingSkipped HandedOverIsAPrefix
PROPERTIES Convergence
