CONSTANTS
    NLegs = 3
    MaxDeficit = 6
    MaxAv = 19
SPECIFICATION Spec
INVARIANTS
    LoopComputesAllocate
    FairShares
