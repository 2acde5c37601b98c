SPECIFICATION Spec
CONSTANTS
    Ids = {d1}
    Callers = {c1, c2}
    Closers = {s1}
    MaxAttempts = 2
    MaxGeneration = 1
SYMMETRY Symmetry
INVARIANTS CacheIsCurrent PoolsAreOwned SingleFlight CallerGetsFreshClient ErrorsHaveCauses CloseReportsTruth
PROPERTY ImplementsHandles
