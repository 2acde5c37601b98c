SPECIFICATION FairSpec
CONSTANTS
    Runtimes = {r1}
    MaxInits = 2
INVARIANTS RuntimesOutliveRequests KeyMatchesStore
PROPERTIES CommandsTellTruth StoppingEnds
CHECK_DEADLOCK FALSE
