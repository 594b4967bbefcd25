CONSTANTS
    Requests = {q1, q2}
    Externals = {}
    Disputes = {d1}
    NoRow = NoRow
    ExtRow = ExtRow
    Amount = 2
    ExtAmount <- UnitExternals
    MaxAttempts = 1
    MaxJobAttempts = 2
    MaxCrashes = 1
SPECIFICATION Spec
CHECK_DEADLOCK FALSE
SYMMETRY Symmetry
INVARIANTS RefundsRecorded TotalIsTrue DisputesRespected
