SPECIFICATION FairSpec
CONSTANTS
    Jobs = {j1}
    Workers = {w1, w2}
    Reapers = {r1, r2}
    Tokens = {t1, t2, t3}
    NoToken = NoToken
    NoJob = NoJob
    Budget = 3
    Handles <- AllHandle
    MaxAttempts <- MCMaxAttempts
    Raises <- AllRaise
    Verdicts = {"succeeded"}
    TransientMax = 3
    ParserMax = 2
    LeaseTime = 2
    Backoffs = {1}
    Deadline = 2
    ScanTime = 1
INVARIANTS OneOwner SnapshotsFresh AttemptBudget OneVerdict
PROPERTIES TerminalForever StaleWorkerHarmless LiveLeaseNotReaped OwnershipSpec
    EventuallySettled
