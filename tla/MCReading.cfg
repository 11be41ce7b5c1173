SPECIFICATION FairReadingSpec
CONSTANTS
    BatchLimit = 2
    MaxEvents = 5
    MaxConnects = 3
    Events = {1, 2, 3}
    Starts = {1, 2}
    Unknown = Unknown
    Limit = 1
    MaxClock = 3
    Documents = {"d1", "d2", "d3", "d4"}
    batch_size = 1
    MaxShifts = 2
    Nodes = {1, 2, 3}
    Proposals <- MCProposals
CHECK_DEADLOCK FALSE
INVARIANTS
    Delivered
    WalkIsComplete
    PassedOverOnlyByJump
    VerdictIsTrue
PROPERTY StreamEnds
