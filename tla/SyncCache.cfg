SPECIFICATION Spec
CONSTANTS
    a = a
    b = b
    client = client
    moscow = moscow
    berlin = berlin
    u1 = u1
    u2 = u2
    m1 = m1
    m2 = m2
    t1 = t1
    UserIds = {u1, u2}
    Emails = {a, b}
    Roles = {client}
    ValidZones = {moscow, berlin}
    BadZones = {}
    Channels = {"telegram"}
    ContactIds = {t1}
    MessageIds = {m1, m2}
    Null = Null
    Handlers = {h1, h2}
    MaxCopies = 1
    MaxEntries = 0
    MaxFaults = 0
    CacheInUse = TRUE
    Requests <- SyncRequests
INVARIANTS
    CacheCoherent
