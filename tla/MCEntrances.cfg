\* Two requests; the key set lives two units, cooldown and timeout are one.
SPECIFICATION MCSpec
CONSTANTS
    r1 = r1
    r2 = r2
    k1 = k1
    k2 = k2
    secret = secret
    stranger = stranger
    NoKid = NoKid
    Requests = {r1, r2}
    Kids = {k1, k2}
    Verifiers <- MCVerifiers
    Routes <- MCRoutes
    Offers <- MCOffers
    Ttl = 2
    Cooldown = 1
    Timeout = 1
    MaxTime = 3
    c1 = c1
    c2 = c2
    p1 = p1
    d1 = d1
    Commands = {c1, c2}
    Payload <- MCPayload
    Address <- MCAddress
    Polls = {p1}
    Devices = {d1}
    MAX_STARTUP_ERRORS = 2
    MaxDrops = 1
INVARIANTS
    AdmittedSoundly
    GoodTokenNotBlamed
    DocumentedAsGuarded
    NotifiedBeforeAnswered
PROPERTIES
    EveryRequestAnswered
    NeverDeaf
    EveryCommandAnswered
    MqttConsumerCurrent
CHECK_DEADLOCK FALSE
