SPECIFICATION FairSpec
CONSTANTS
    Keys = {k1, k2}
    NoDraft = NoDraft
    MaxAttempts = 2
    MaxSends = 2
CHECK_DEADLOCK FALSE
INVARIANTS PendingIsLast TurnsMatch
PROPERTIES HistoryKept TurnDecided
