CONSTANTS
    None = None
    Requests = {x1, x2}
    Configs = {demo, live}
    Demo = {demo}
    Live = {live}
    Operators = {o1}
    Shoppers = {y1, y2}
    Currencies = {"inr", "usd"}
    CurrencyLists = {{"usd"}}
    DefaultCurrency = "inr"
    LiveAllowed = TRUE
    MaxKeys = 2
    Classifications = {h1}
    Rules = {r1, r2}
    Registrations = {g1, g2}
    Settings = {t1}
    TaxedProducts = {q1}
    Admins = {a, b}
    LastDay = 2
    MaxRecords = 4
    Providers = {google, zoho}
    Credentials = {good, typo}
    Accepted = {good}
    Jobs = {j1}
    MaxSaves = 3
    Documents = {d1, d2}
    MaxVersions = 4
    Orders = {order}
    Reviewers = {v1, v2}
    CurrencyCodes = {inr, usd}
    MaxReviews = 3
    k1 = k1
    k2 = k2
    p1 = p1
    Problems = {k1, k2}
    Payments = {p1}
    PaymentOf <- MCPaymentOf
    Recoverable = {k2}
    MaxReports = 3
    Categories = {c1}
    Products = {w1, w2}
    Names = {n1, n2}
    base = base
    Base <- MCBase
    MaxFiles = 2
    MaxWrites = 4
    Baskets <- MCBaskets
    RateOf <- MCRateOf
    Shops <- MCShops
    Terms <- MCTerms
    Minimums = {0, 50}
    MaxOrders = 2
    s1 = s1
    s2 = s2
    Schedules = {s1, s2}
    Interval <- MCInterval
    Processes = {m1, m2}
    StaleOrders = {late}
    MaxDelay = 2
    Hour = 6
    MaxTime = 12
    Sweep = s1
SPECIFICATION Spec
SYMMETRY Symmetry
CHECK_DEADLOCK FALSE
INVARIANTS
    PaymentSetup_GatewayMayTakePayments
    PaymentSetup_OneCurrency
    TaxMaster_TaxIsDefinite
    EmailSettings_MailHasOneAccount
    SiteConfig_PublishingTakesTurns
    CurrencyReview_CurrencyIsEvidenced
    Listings_ListingIsTrue
    Pricing_AmountsAreRight
    Scheduler_DueWorkIsQueued
PROPERTIES
    Worklist_ResolutionStands
