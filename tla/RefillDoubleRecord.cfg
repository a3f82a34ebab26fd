CONSTANTS
    NLegs = 2
    Debounce = 1
    Cooldown = 1
    Autos = {a1}
    Manuals = {}
    Runs <- MCRuns
    NoRun = NoRun
    Rates = {1}
    Reserve = 1
    TargetBps <- MCTargetBps
    MinChoices = {2}
    BootMin = 2
    InitUsdc = 6
    InitOwner <- MCInitOwner
    InitBal <- MCInitBal
    Drains = {2}
    Incomes = {}
    MaxUsdc = 6
    MaxFaults = 1
SPECIFICATION Spec
INVARIANT RecordedWeiBought
