SPECIFICATION Spec
CONSTANTS
    u1 = u1
    u2 = u2
    a = a
    b = b
    c = c
    client = client
    organizer = organizer
    moscow = moscow
    mars = mars
    t1 = t1
    m1 = m1
    m2 = m2
    UserIds = {u1, u2, u3, u4, u5, u6}
    Emails = {a, b, c}
    Roles = {client, organizer}
    ValidZones = {moscow}
    BadZones = {mars}
    Channels = {"telegram"}
    ContactIds = {t1}
    MessageIds = {m1, m2}
    Null = Null
    Workers = {w1, w2}
    MaxUnnumbered = 2
    Requests <- RestRequests
INVARIANTS
    EmailRoleUnique
    ContactFollowsEmail
PROPERTIES
    AuditFailsOnlyByStaleRead
    ServedUnlessStale
