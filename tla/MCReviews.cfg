SPECIFICATION Spec
CONSTANTS
    r1 = r1
    r2 = r2
    r3 = r3
    w1 = w1
    w2 = w2
    Reviews = {r1, r2, r3}
    Proposed = {r1}
    Workers = {w1, w2}
    MaxJobs = 3
    MaxDeliveries = 2
    MaxMoves = 1
    None = None
SYMMETRY MCSymmetry
CHECK_DEADLOCK FALSE
INVARIANTS
    AuditAccounts
PROPERTY DecidedAgainOnlyUnseen
