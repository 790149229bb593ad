SPECIFICATION Spec
CONSTANTS
    MaxKey = 4
    BatchSize = 1
    Attempts = 1
    HasKey = TRUE
    PyRank <- SameOrder
    Suffixes <- AbraSuffixes
    SuffixOf <- AbraSuffixOf
    Counter <- AbraCounter
    Configured <- AbraConfigured
    EstimatesDelta = FALSE
    CheckpointRows = 1
    CommitInOrder = TRUE
    MaxFaults = 1
INVARIANT NoHole
