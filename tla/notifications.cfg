CONSTANTS
    Task = {t1, t2}
    User = {u1, u2}
    Row = {o1, o2}
    Req = {r1, r2}
    Attempts = 2
    WindowLength = 1
    LastSecond = 1
    Concurrency = 5
    MaxStalls = 1
    MaxStops = 2
    MaxOutages = 1
    NoRow = NoRow
SPECIFICATION Spec
SYMMETRY Symmetry
INVARIANTS
    JobsMatchRows
    MailsBounded
    DlqHoldsExhausted
    MissingDeadLettersExplained
    DispatchedTaskMailed
    FailedTaskDead
    JobsSettleTheirRows
PROPERTIES
    KeepsPromise
    MovesRunOut
CHECK_DEADLOCK FALSE
