CONSTANTS
    MAX_FUTILE_RENEWALS = 2
    Places = {"/admin", "/admin/7", "//admin", "/callback", "/admin?error=x"}
    Home = "/admin"
    Callback = "/callback"
    Coded = {"/admin?error=x"}
    Unsafe = {"//admin", "/callback"}
    InitialDelay = 1
    MaxDelay = 3
    Admins = {a1, a2}
    Ids = {i1, i2}
    Slugs = {s1, s2}
    Targets = {t1}
    None = None
    INSERT_ATTEMPTS = 2
    DnsRecords <- MCDnsRecords
    Lower <- MCLower
    Index <- MCIndex
    Subnet <- MCSubnet
    Label <- MCLabel
    exclude = {"admin"}
    paths <- MCPaths
    Grids <- MCGrids
    Sizes <- MCSizes
    Radii <- MCRadii
    KmWide = 649
    KmHigh = 452
    MaxMinute = 5
SPECIFICATION MCSpec
PROPERTY DashboardComesBack
CHECK_DEADLOCK FALSE
