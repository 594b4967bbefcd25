CONSTANTS
    Requests = {r1, r2, r3}
    Owners = {o1, o2}
    Buyer <- OneBuyer
    Keys = {k1, k2}
    Units = {x}
    None = None
    Prices = {p1, p2}
    Limits = {1, 2}
    MaxStock = 2
    MaxCartEdits = 1
    MaxShopEdits = 1
SPECIFICATION Spec
SYMMETRY Symmetry
CHECK_DEADLOCK FALSE
INVARIANTS StockConserved KeysHold
PROPERTY CouponWithinLimits
