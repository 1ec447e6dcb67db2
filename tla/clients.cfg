SPECIFICATION Spec
CONSTANTS
    Directory <- MCDirectory
    Names <- MCNames
    Pairs <- MCPairs
    Cores <- MCCores
    KpiNodes <- MCKpiNodes
    KpiSizes = {0, 3}
    Depth = 2
    MaxChunks = 1
    MaxRounds = 2
    MaxIter = 1
    MaxRuns = 2
CHECK_DEADLOCK FALSE
INVARIANTS
    TypeOK
    LedgerBalanced
    AnswersMatch
    NothingLeftBehind
PROPERTY
    EveryRunEnds
