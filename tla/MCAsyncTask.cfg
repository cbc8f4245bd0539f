CONSTANTS
    Workers = {w1, w2}
    Nobody = Nobody
    Platform = "video"
    Prices = {0, 2}
    Usages = {1, 3}
    Answers <- MCAnswers
    Faults = {"insert", "start", "activity", "channel", "db", "wallet", "token", "overrun", "crash"}
    MaxFaults = 2
    MaxTries = 3
SPECIFICATION TaskSpec
INVARIANTS ChargeMatchesOutcome
PROPERTIES BilledOnce EndsUnlessExpired
CHECK_DEADLOCK FALSE
