SPECIFICATION LiveRelaySpec
CONSTANTS
    r1 = r1
    r2 = r2
    Requests = {r1, r2}
    Wallet = wallet
    Sync = sync
    Accounts = {wallet}
    Callers = {r1, r2, sync}
    Keys <- RelayKeys
    NoCall = NoCall
    MaxAmount = 2
    InitialQuota = 2
    TrustQuota = 1
    MaxFaults = 2
    MaxCrashes = 1
INVARIANTS LegacyMirrorsLedger TokenMatchesWallet OutcomeMatchesLedger
PROPERTIES ImplementsLedger FailuresAreRefunded
CHECK_DEADLOCK FALSE
