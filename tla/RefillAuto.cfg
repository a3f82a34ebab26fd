CONSTANTS
    NLegs = 2
    Debounce = 1
    Cooldown = 2
    Autos = {a1, a2}
    Manuals = {}
    Runs <- MCRuns
    NoRun = NoRun
    Rates = {1, 2}
    Reserve = 1
    TargetBps <- MCTargetBps
    MinChoices = {2, 3}
    BootMin = 2
    InitUsdc = 5
    InitOwner <- MCInitOwner
    InitBal <- MCInitBal
    Drains = {2}
    Incomes = {}
    MaxUsdc = 5
    MaxFaults = 1
SPECIFICATION Spec
INVARIANTS
    TypeOK
    OneRefillAtATime
    ReserveKept
    NeverAboveTarget
    BooksClosedAtRest
PROPERTIES
    CoalescedSpec
    PurchaseSpec
