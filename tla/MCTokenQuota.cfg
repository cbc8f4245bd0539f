SPECIFICATION Spec
CONSTANTS
    Callers = {c1, c2, c3}
    Deltas <- MixedDeltas
    InitialQuota = 3
    MaxFaults = 2
SYMMETRY Symmetry
INVARIANTS TokenInv
PROPERTIES AloneAligns AloneNeverOverspends
CHECK_DEADLOCK FALSE
