SPECIFICATION ServicesSpec
CONSTANTS
    Readers = {"r1", "r2", "r3"}
    Replica <- OneReaderElsewhere
    Writers = {w1}
    MaxRevision = 2
    Tokens = {t1, t2, t3}
    Rotations = {q1, q2}
    People = {p1, p2, p3}
    FirstAdmins = {p1, p2}
    CustomRoles = {c1}
    MaxRoles = 2
    Requests = {x1, x2}
    Dispatchers = {d1}
    Aggregates = {a1, a2}
    MaxEvents = 3
    MaxTopic = 3
    Email <- OneAddress
    MaxDeliveries = 1
    Inputs = {e1}
    Devices = {v1}
    Senders = {s1, s2}
    MaxAttempts = 2
    Members = {m1, m2}
    ChatTxs = {y1, y2}
    MaxMessages = 2
    MaxEdits = 3
    Sockets = {k1, k2, k3}
    SendBuffer = 1
    Clocks = {1, 2, 3}
INVARIANTS
    FreshRead
    OneActivePerFamily
    SuperAdminRemains
    ProfilesFollowAccounts
    SendsBounded
    PreviewIsOfLast
    NoSendOnClosed
    ReadModelConverges
PROPERTIES
    ReuseEndsFamily
    GainedFromActor
CHECK_DEADLOCK FALSE
