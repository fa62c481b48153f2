SPECIFICATION MCSpec
CONSTANTS
    Devices = {d1}
    Props = {p1, p2}
    Values = {v1}
    NoValue = NoValue
    MaxErrorCount = 1
    ErrorSkipCycles = 1
    Modes <- MCModes
    MaxChanges = 0
    Requests = {r1, r2}
    MaxArrivals = 3
    MaxRows = 3
    MaxRestarts = 1
    Servings <- MCServings
INVARIANTS StorageLeads
PROPERTIES DeletedDeviceLeftAlone
CHECK_DEADLOCK FALSE
