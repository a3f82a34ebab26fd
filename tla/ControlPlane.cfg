SPECIFICATION Spec
CONSTANTS
    c1 = c1
    c2 = c2
    q1 = q1
    s1 = s1
    s2 = s2
    l1 = l1
    l2 = l2
    Clicks = {c1, c2}
    Quotes = {q1}
    Resolutions = {s1, s2}
    CacheTTL = 1
    Logins = {l1, l2}
    Asks <- MCAsks
    Validity = 2
    AmplifierBps = 1000
    ServiceFeeBps = 500
    MinFee = 3
    NormalUnits = 2
    DeployUnits = 5
    Pools = 2
    QuoteIn = 20
    FallbackPerUnit = 3
    Counters <- MCCounters
    MaxPurchases = 1
    Outs = {0, 4}
    GasPrices = {1, 2}
    Scale = 10
    SessionTTL = 2
    Patience = 1
    Scenes <- MCScenes
INVARIANTS
    RecordLostOnlyToFirstLogin
    OverlapNeedsAutomatic
    PriceIsFresh
    PoolChosenWell
    ChargeWithinEstimate
PROPERTIES
    ClicksAnswered

