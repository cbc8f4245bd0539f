CONSTANTS
    Workers = {w1, w2}
    Nobody = Nobody
    Platform = "suno"
    Prices = {0, 2}
    Usages = {1, 3}
    Answers <- MCAnswers
    Faults = {"activity"}
    MaxFaults = 1
    MaxTries = 2
SPECIFICATION TaskSafety
SYMMETRY MCSymmetry
INVARIANTS ChargeMatchesOutcome
CHECK_DEADLOCK FALSE
