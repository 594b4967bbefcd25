CONSTANTS
    Intents = {i1, i2, i3}
    Payers = {p1, p2}
    Cancellers = {c1}
    NoIntent = NoIntent
    Providers = {"stripe", "razorpay"}
    Mismatched = {i3}
    LateCommit = TRUE
    MaxFailures = 1
    MaxLostAcks = 1
    MaxTries = 1
SPECIFICATION Spec
SYMMETRY Symmetry
CONSTRAINT TroubleAlone
CHECK_DEADLOCK FALSE
INVARIANTS DecisionCarriedOut OneWayToPay
PROPERTY ImplementsLedger
