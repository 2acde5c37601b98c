SPECIFICATION Spec
CONSTANTS
    Ids = {d1, d2}
    Importers = {i1, i2}
    MaxSecrets = 4
    Outcomes <- CleanOutcomes
SYMMETRY Symmetry
INVARIANTS StoredDefinitionsResolve ServedIsStored ServedResolvesUnlessOverlapped NoOrphans
