SPECIFICATION Spec
CONSTANTS
    Ids = {d1}
    Importers = {i1}
    MaxSecrets = 2
    Outcomes <- AllOutcomes
INVARIANT FailedWritesPreserveSnapshots
