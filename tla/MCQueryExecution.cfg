SPECIFICATION FairSpec
CONSTANTS
    Queries = {q1}
    Conns = {k1}
    None = None
    RowKinds <- Rows
    FixedSizes <- Fixed
    DetailSizes = {0, 1000}
    MaxRows = 11
    RowLimit = 2
    ByteLimit = 87
    WireFrame = 3
INVARIANTS PooledConnectionsAreClean BudgetIsExact AnswerIsExplained
PROPERTY QueriesEnd
