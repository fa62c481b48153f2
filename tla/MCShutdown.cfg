SPECIFICATION FairSpec
CONSTANTS
    Requests = {r1, r2}
    Checks = {k1, k2}
    Critical = {k1}
    Outcomes = {"pass", "fail"}
    MaxEvals = 3
    CacheTtl = 1
    CheckTimeout = 1
    MaxTime = 2
    Signals = {s1, s2}
    Crashes = {x1}
    Modes <- MCModes
INVARIANTS ProbesSound
PROPERTIES TeardownSound EverythingEnds
CHECK_DEADLOCK FALSE
