CONSTANTS
    Intents = {i1}
    Payers = {p1}
    Cancellers = {}
    NoIntent = NoIntent
    Providers = {"stripe"}
    Mismatched = {}
    LateCommit = TRUE
    MaxFailures = 0
    MaxLostAcks = 0
    MaxTries = 1
SPECIFICATION Spec
CHECK_DEADLOCK FALSE
INVARIANT CreditedPaymentStands
