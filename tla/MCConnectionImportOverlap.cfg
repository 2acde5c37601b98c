SPECIFICATION Spec
CONSTANTS
    Ids = {d1}
    Importers = {i1, i2}
    MaxSecrets = 2
    Outcomes <- CleanOutcomes
INVARIANT ServedDefinitionsResolve
