SPECIFICATION MCSpec
CONSTANTS
    Devices = {d1, d2}
    Props = {p1}
    Values = {v1, v2}
    NoValue = NoValue
    MaxErrorCount = 2
    ErrorSkipCycles = 2
    Modes <- MCModes
    MaxChanges = 3
INVARIANTS LoopSound
PROPERTIES PolledAgain ConsumerCatchesUp
CHECK_DEADLOCK FALSE
