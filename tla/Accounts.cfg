CONSTANTS
    None = None
    Requests = {r1, r2}
    Emails = {a, b}
    FirstEmail = a
    MaxReplays = 1
    MaxPasswords = 1
    Bounds <- SmallBounds
    StaffUsers = {s1, s2}
    Roles = {role}
    Owner = Owner
    NoAccess = NoAccess
    MaxChanges = 3
    Products = {p1}
    WISHLIST_LIMIT = 1
    MAX_ADDRESSES_PER_USER = 1
    MaxReviews = 1
    MaxIds = 3
    Browsers = {b1, b2}
    Customers = {u1, u2}
    Support = {u2}
    a1 = a1
    u1 = u1
    Addresses = {a1}
    AddressOf <- MCAddressOf
    Keys = {k1}
    OrderIds = {o1, o2}
    MaxTokens = 2
    MaxCookies = 2
    Units = {x1, x2}
    Stock = 2
    MaxLines = 2
    MaxRows = 5
    MaxAsked = 3
    MaxLogins = 2
SPECIFICATION Spec
SYMMETRY Symmetry
CHECK_DEADLOCK FALSE
INVARIANTS
    Sessions_CredentialsHold
    Staff_ShopIsAdministered
    Cart_CountedOnce
    Shopper_ListsStayBounded
PROPERTIES
    Sessions_DeadStaysDead
    Shopper_HiddenStaysHidden
    OrderAccess_OnlyOwnersAct
