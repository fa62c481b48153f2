CONSTANTS
    p1 = p1
    p2 = p2
    p3 = p3
    x1 = x1
    x2 = x2
    c1 = c1
    c2 = c2
    d1 = d1
    d2 = d2
    a1 = a1
    a2 = a2
    Posts = {p1, p2, p3}
    Deletes = {x1, x2}
    Commands = {c1, c2}
    Devices = {d1, d2}
    PolledDevices = {d1, d2}
    Addresses = {a1, a2}
    device <- MCdevice
    address <- MCaddress
    target <- MCtarget
    selects <- MCselects
    Backends = {"file", "mongo"}
    None = None
    TraceInterval = 2
    MaxErrorCount = 2
    ErrorSkipCycles = 1
    Specifications <- MCSpecifications
    Rows <- MCRows
    BulkReads <- MCReads
    Asked <- MCAsked
    Written = {0, 1}
    MaxRows = 2
    MaxUint = 2
    Dids = {1, 3}
    Codes = {7}
    Config <- MCConfig
    Unknown = "nowhere"
    Statuses = {401, 404, 503}
    Retriable = {503}
SPECIFICATION MCSpec
INVARIANT SentToRecord
CHECK_DEADLOCK FALSE
