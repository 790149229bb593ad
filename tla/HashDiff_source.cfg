SPECIFICATION FairSpec
CONSTANTS
    MaxKey = 3
    MaxVersion = 2
    BatchSize = 2
    KeyBatch = 2
    NullKeys <- SecondRow
    MaxChanges = 2
    MaxFaults = 1
PROPERTIES NoFalseDeletion RunBringsRows Convergence Settles
