SPECIFICATION Spec
CONSTANTS
    Ids = {d1, d2}
    Ops = {u1, u2, u3}
    Closers = {s1}
    Objects = {e1, e2, e3}
    None = None
INVARIANTS LeasesAreCounted DrainedMeansIdle ConnectionIsLeased
PROPERTIES DrainEnds
\* After Close has returned every operation is refused: the runtime has stopped.
CHECK_DEADLOCK FALSE
