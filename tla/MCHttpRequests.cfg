SPECIFICATION MCSpec
CONSTANTS
    Requests = {r1, r2, r3}
    MaxFetches = 6
    Lifetime = 2
    Buffer = 1
    MaxTime = 3
    Modes <- MCModes
    Calls = {c1, c2}
    Configs <- MCConfigs
INVARIANTS CredentialsSound NoOrphanWork
PROPERTIES UsedInTime RequestSettles CancellationSound CallSettles
CHECK_DEADLOCK FALSE
