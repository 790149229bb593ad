SPECIFICATION FairSpec
CONSTANTS
    NumSources = 2
    MaxVersion = 2
    Contents <- DistinctContents
    Content <- DistinctContent
    Fingerprint <- IdentityFingerprint
    Fingerprints <- DistinctContents
    EmptyContent = 1
    NoFp = NoFp
    Settings <- PlainAndPartitioned
    MaxFaults = 2
INVARIANTS SkipIsSound LedgerBehindSlice LoadedSliceIsFresh
PROPERTIES EmptiedAsCounted Convergence
