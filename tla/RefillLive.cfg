CONSTANTS
    NLegs = 1
    Debounce = 1
    Cooldown = 1
    Autos = {a1}
    Manuals = {m1}
    Runs <- MCRuns
    NoRun = NoRun
    Rates = {1}
    Reserve = 1
    TargetBps <- MCOneTargetBps
    MinChoices = {2}
    BootMin = 2
    InitUsdc = 4
    InitOwner <- MCInitOwner
    InitBal <- MCOneInitBal
    Drains = {2}
    Incomes = {1}
    MaxUsdc = 5
    MaxFaults = 1
SPECIFICATION FairSpec
PROPERTIES
    FlagReleased
    NeedServed
