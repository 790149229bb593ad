\* Two calls of run over two databases: every way to reach the source, every
\* strategy, a change of each database, and one death of ssh or of the run.
CONSTANTS
    d1 = d1
    d2 = d2
    Absent = Absent
    Home = d1
    Databases <- MCDatabases
    Selections <- MCSelections
    Configs <- MCConfigs
    Pipelines <- MCPipelines
    SourceDbs <- MCSourceDbs
    MaxTunnelFaults = 1
    MaxChanges = 1
    MaxRuns = 2
SPECIFICATION EntrySpec
INVARIANTS TurnsInv ForcedBringsEverything
PROPERTIES SlicesSurvive NothingHangsOrStays
CHECK_DEADLOCK FALSE
