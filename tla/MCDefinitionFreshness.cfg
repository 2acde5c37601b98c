SPECIFICATION FreshSpec
CONSTANTS
    Ids = {d1}
    Callers = {c1}
    Closers = {}
    MaxAttempts = 2
    MaxGeneration = 3
    MaxVersions = 3
    Registrars = {r1, r2}
SYMMETRY Symmetry
INVARIANTS CachedDefinitionIsRegistered ImportedDefinitionIsUsed
\* Nothing is left to do when the attempts of the bound are used up.
CHECK_DEADLOCK FALSE
