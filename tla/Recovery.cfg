CONSTANTS
    Keys = {k1, k2}
    Workers = {w1, w2}
    NoKey = NoKey
    MaxAttempts = 3
    MaxDeaths = 1
    MaxStalls = 2
    Intents = {i1, i2}
    Payers = {p1, p2}
    Cancellers = {}
    NoIntent = NoIntent
    Providers = {"stripe"}
    Mismatched = {i2}
    LateCommit = TRUE
    MaxFailures = 2
    MaxLostAcks = 1
    MaxTries = 2
SPECIFICATION RecoverySpec
CHECK_DEADLOCK FALSE
INVARIANTS
    MoneyAccounted
    PaidIsBacked
    AttemptsAreFenced
PROPERTIES
    CapturesSettle
    DeferralEnds
    OutcomeStands
    JobsFinish
