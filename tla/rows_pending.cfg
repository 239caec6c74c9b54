CONSTANTS
    Task = {t1}
    User = {u1}
    Row = {o1}
    Req = {r1}
    Attempts = 3
    WindowLength = 1
    LastSecond = 0
    Concurrency = 1
    MaxStalls = 1
    MaxStops = 0
    MaxOutages = 0
    NoRow = NoRow
SPECIFICATION FairSpec
PROPERTY RowsReconciled
CHECK_DEADLOCK FALSE
