SPECIFICATION OpenerSpec
CONSTANTS
    Ids = {d1}
    Callers = {c1}
    Closers = {s1}
    MaxAttempts = 2
    MaxGeneration = 1
INVARIANTS CloseReportsErrors HeldClientsWereCached
PROPERTIES ImplementsHandles ShutdownCompletes CallersAreAnswered
