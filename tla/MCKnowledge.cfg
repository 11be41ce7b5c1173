SPECIFICATION Spec
CONSTANTS
    x1 = x1
    x2 = x2
    k1 = k1
    w1 = w1
    w2 = w2
    o1 = o1
    o2 = o2
    None = None
    Extractions = {x1, x2}
    Keys = {k1}
    Workers = {w1, w2}
    Owners = {o1, o2}
    MaxCommits = 1
    MaxEvents = 3
    MaxMerges = 3
SYMMETRY MCSymmetry
CONSTRAINT MCBounds
INVARIANT OnlyRacesDuplicate
PROPERTIES
    LinksOwnClaims
    UndoOnlyOwnOrRaced
CHECK_DEADLOCK FALSE
