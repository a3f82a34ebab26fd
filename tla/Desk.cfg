SPECIFICATION Spec
CONSTANTS
    c1 = c1
    c2 = c2
    w1 = w1
    w2 = w2
    o1 = o1
    o2 = o2
    o3 = o3
    a1 = a1
    a2 = a2
    t1 = t1
    t2 = t2
    e1 = e1
    e2 = e2
    Txs = {t1, t2}
    MaxFetches = 2
    PageSize = 1
    Clients = {c1, c2}
    Buttons = {1, 2, 3, 4, 5, e1, e2}
    Others = {e1, e2}
    MaxRequests = 5
    Whales <- MCWhales
    NativeTopup = 1
    ApiAmount = 1
    SeedMin = 2
    AccountMin = 1
    AccountFund = 2
    MinToContinue = 1
    DepositMin = 1
    DepositTopup = 2
    Costs = {1, 2}
    MaxPolicies = 2
    Paymasters = {a1, a2}
    Ops = {o1, o2, o3}
    BlockRange = 1
    Limit = 1
    MaxBlock = 3
    Scale = 10
    Purchases <- MCPurchases
    NodePrices = {1, 4}
    Settings <- MCSettings
    NormalOps = 3
    DeployOps = 2
    MinSamples = 2
    Target = 330
    BufferBps = 0
    Candidates <- MCCandidates
    Units = {1, 2}
    MaxRuns = 2
    Scenes <- MCScenes
INVARIANTS
    AdditionsKept
    LoneClientSucceeds
    PanelIsCurrent
    TablesAgree
    ShownPriceIsCharged
    OverviewExplained
    RowsExplained
    CapsMeetTarget
CHECK_DEADLOCK FALSE
