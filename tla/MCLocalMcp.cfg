SPECIFICATION Spec
CONSTANTS
    Proxies = {p1}
    MaxRuns = 3
INVARIANTS ServedIsReachable ProbeFindsNobody RetrySuffices
PROPERTIES LockIsReleased RequestsEnd
