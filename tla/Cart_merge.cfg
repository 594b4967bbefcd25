CONSTANTS
    None = None
    Requests = {r1, r2}
    Units = {x1, x2}
    Stock = 2
    MaxLines = 2
    MaxRows = 5
    MaxAsked = 4
    MaxLogins = 1
SPECIFICATION CartSpec
SYMMETRY Symmetry
CHECK_DEADLOCK FALSE
PROPERTIES NothingLost
