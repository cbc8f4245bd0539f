CONSTANTS
    Tabs = {t1, t2}
    Users = {u1, u2}
    Nobody = Nobody
    Queries = {q1}
    MaxLogins = 2
    MaxMishaps = 1
CONSTRAINT UntilOverlap
SPECIFICATION SessionSpec
INVARIANTS SessionInv
PROPERTIES ForgottenOnlyIfExpiredAlone LoginArrives
CHECK_DEADLOCK FALSE
