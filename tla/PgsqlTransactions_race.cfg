SPECIFICATION Spec
CONSTANTS
    Keys = {k1}
    MaxQueries = 2
    MaxBatch = 2
INVARIANTS
    PanicsAreRecovered
CHECK_DEADLOCK FALSE
