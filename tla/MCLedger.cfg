SPECIFICATION Spec
CONSTANTS
    Accounts = {a1}
    Keys = {k1, k2, k3, k4}
    Callers = {c1, c2}
    MaxAmount = 2
    NoCall = NoCall
ACTION_CONSTRAINT StartsUnused
SYMMETRY Symmetry
INVARIANTS FundsConserved NoOverdraft ClosedOnce OneEffectPerKey SnapshotRebuildable
