SPECIFICATION MCSpec
CONSTANTS
    Requests = {r1}
    MaxFetches = 4
    Lifetime = 3
    Buffer = 1
    MaxTime = 4
    Modes <- MCRefusing
    Calls = {c1}
    Configs <- MCConfigs
INVARIANT SingleRetry
CHECK_DEADLOCK FALSE
