SPECIFICATION Spec
CONSTANTS
    i1 = i1
    i2 = i2
    u1 = u1
    c1 = c1
    c2 = c2
    f1 = f1
    f2 = f2
    p1 = p1
    p2 = p2
    None = None
    Items = {i1, i2}
    Urls = {u1}
    UrlOf <- MCUrlOf
    Contents = {c1, c2}
    Unreadable = {}
    Refusals = {"browser_unavailable", "ssrf_blocked"}
    Fetchers = {f1, f2}
    Parsers = {p1, p2}
    MaxFetches = 3
    MaxParses = 3
SYMMETRY MCSymmetry
INVARIANTS
    ObservationsTrue
    DiffsForward
    ChainUnbroken
PROPERTIES
    HistoryKept
CHECK_DEADLOCK FALSE
