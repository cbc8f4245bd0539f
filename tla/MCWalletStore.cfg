SPECIFICATION Spec
CONSTANTS
    c1 = c1
    c2 = c2
    o1 = o1
    r1 = r1
    r2 = r2
    Callers = {c1, c2}
    Process <- TwoProcesses
    Orders = {o1}
    Requests = {r1, r2}
    Value <- Values
    Deltas <- AdminDeltas
    Targets = {3}
    InitialQuota = 2
    MaxCalls = 3
    MaxFaults = 1
INVARIANTS ExactWhenApart WalletInv
PROPERTIES ImplementsAttribution OldestFirstWhenApart SufficesWhenApart CallsEnd
CHECK_DEADLOCK FALSE
