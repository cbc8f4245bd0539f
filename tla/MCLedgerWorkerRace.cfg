SPECIFICATION WorkerSafety
CONSTANTS
    k1 = k1
    k2 = k2
    k3 = k3
    Accounts = {a1}
    Keys = {k1, k2, k3}
    Callers = {c1}
    MaxAmount = 1
    NoCall = NoCall
    Idle = Idle
    Refresh = Refresh
ACTION_CONSTRAINT KeysInOrder
INVARIANTS
    EntriesNeverOverdrawn
