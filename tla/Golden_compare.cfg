SPECIFICATION GoldenSpec
CONSTANTS
    Null = Null
    Cases <- MCCases
    LeftRows <- MCLeftRows
    RightRows <- MCRightRows
    Arrivals <- MCArrivals
    MaxArrivals = 1
    Entries = 2
INVARIANTS MatchIffSame ReportsTellTheWhole
PROPERTIES LevelFiveIsSound EveryPairIsReported
CHECK_DEADLOCK FALSE
