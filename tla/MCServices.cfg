SPECIFICATION ServicesSpec
SYMMETRY MCSymmetry
CONSTANTS
    r1 = r1
    r2 = r2
    r3 = r3
    None = None
    Clients = {c1, c2}
    Kinds = {"industry", "topic", "feed"}
    MaxEdits = 3
    MaxNow = 3
    Schedulers = {"s1", "s2"}
    Interval = 2
    Day = 3
    ReportHour = 1
    MaxSwitches = 1
    FetchRequests = {r1, r2, r3}
    Concurrency = 2
    MinInterval = 2
    Timeout = 2
    MAX_REDIRECTS = 3
    Responses = {200, 302, 500}
    Jobs = {"j1", "j2"}
    Drafts = {{}, {{1}, {2}}, {{1, 2}}}
    PacketLimit = 1
    MaxAttempts = 2
    MaxEvidence = 2
    Logins = {"l1"}
    CookieRequests = {"q1", "q2"}
    SESSION_TTL = 2
    MaxSessions = 2
    MaxResets = 2
CHECK_DEADLOCK FALSE
INVARIANTS
    EditsSeeTheirBase
    PausedIsQuiet
    BurstBounded
    SnapshotsAreSupported
    EndedIsRefused
PROPERTIES
    LegalMovesOnly
    LoginIsNoCapture
