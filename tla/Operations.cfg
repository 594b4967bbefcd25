CONSTANTS
    None = None
    Requests = {}
    Values = {v1, v2}
    Carts = {c1}
    Purchases = {b1}
    Prices = {1}
    OverridePrices = {2}
    MaxStock = 1
    o1 = o1
    o2 = o2
    Orders = {o1, o2}
    big = big
    small = small
    Lines = {big, small}
    Bought <- MCBought
    Starts <- MCStarts
    Returns = {t1, t2}
    Issuers = {i1}
    Prefixes = {"INV"}
    MaxShipments = 1
    MaxYears = 2
    MaxRefunds = 1
    p1 = p1
    p2 = p2
    r1 = r1
    r2 = r2
    w1 = w1
    Procs = {p1, p2}
    Readers = {r1, r2}
    Writers = {w1}
    Home <- MCHome
    Tables = {"products"}
    MaxWrites = 2
    MaxFaults = 1
    st = st
    rz = rz
    rz2 = rz2
    dm = dm
    Intents = {n1, n2}
    Configs = {st, rz, rz2, dm}
    Provider <- MCProvider
    Account <- MCAccount
    Payers = {y1, y2}
    Headers = {h1, h2}
    MaxEvents = 2
SPECIFICATION Spec
SYMMETRY Symmetry
CHECK_DEADLOCK FALSE
INVARIANTS
    Catalogue_CatalogueConsistent
    Fulfilment_BooksComplete
    Fulfilment_GoodsAccounted
    Cache_ServedIsFresh
    Gateways_MoneyIsRight
