SPECIFICATION FairSpec
CONSTANTS
    Threads = {t1, t2}
    Clients = {c1, c2}
    Databases = {d1, d2}
    Users = {admin, u1}
    Groups = {g1}
    Permissions = {read}
    SpareBits = {}
    Admin = admin
    admin = admin
    u1 = u1
    g1 = g1
    read = read
    c1 = c1
    c2 = c2
    d1 = d1
    d2 = d2
    NoFile = NoFile
    Damaged = Damaged
    NoDb = NoDb
    NoUser = NoUser
    BadToken = BadToken
    NoPermission = NoPermission
    NoRequest = NoRequest
    Stores <- MCStores
    Requests <- MCRequests
    Seconds <- MCSeconds
    Window = 1
    LatencyWindow = 0
    MaxRequests = 2
    MaxRestarts = 1
INVARIANTS
    RunsAsItself
    CountedOnce
    WindowIsExact
    FileIsAcknowledged
    MembershipsAreReal
    UnsavedIsNamed
PROPERTIES
    EveryRequestAnswered
CHECK_DEADLOCK FALSE
