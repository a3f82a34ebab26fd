SPECIFICATION Spec
CONSTANTS
    b1 = b1
    b2 = b2
    b3 = b3
    Runs = {b1, b2, b3}
    Fields = {"url", "min", "mult"}
    Required = {"url"}
    Values = {"absent", "bad", "out of range", "default", "chosen"}
    Missing = "absent"
    Envs <- MCEnvs
    LockTTL = 2
    WaitLimit = 1
    Modes = {"full", "skip", "production"}
    MaxNonce = 4
    MaxResets = 1
    Scenes <- MCScenes
INVARIANTS
    SeedersOverlapAfterExpiry
    GivingUpHasACause
    SeedsSurvive
    FilesNameUsableContracts
    DeploymentSound
    PolicyShownIsUsed
PROPERTIES
    BootstrapEnds
CHECK_DEADLOCK FALSE
