CONSTANTS
    Requests = {q1}
    Externals = {x1, x2}
    Disputes = {}
    NoRow = NoRow
    ExtRow = ExtRow
    Amount = 2
    ExtAmount <- UnitExternals
    MaxAttempts = 1
    MaxJobAttempts = 2
    MaxCrashes = 0
SPECIFICATION Spec
CHECK_DEADLOCK FALSE
INVARIANT TotalIsTrue
