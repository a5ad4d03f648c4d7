SPECIFICATION Spec
CONSTANTS
    a = a
    b = b
    c = c
    client = client
    organizer = organizer
    moscow = moscow
    u1 = u1
    u2 = u2
    u3 = u3
    m1 = m1
    UserIds = {u1, u2, u3}
    Emails = {a, b, c}
    Roles = {client, organizer}
    ValidZones = {moscow}
    BadZones = {}
    Channels = {}
    ContactIds = {}
    MessageIds = {m1}
    Null = Null
    Writers = {w1, w2}
    MaxTransactions = 4
    MaxIds = 2
    Requests <- ReadRequests
    Queries <- ReadQueries
SYMMETRY WriterSymmetry
INVARIANTS
    TypeOK
    PagesAreExact
    ContactIsNotOlder
    ChangelogStartsWithAddress
