CONSTANTS
    Task = {t1}
    User = {u1}
    Row = {o1}
    Req = {r1}
    Attempts = 3
    WindowLength = 1
    LastSecond = 0
    Concurrency = 1
    MaxStalls = 1
    MaxStops = 3
    MaxOutages = 2
    NoRow = NoRow
SPECIFICATION PollFairSpec
INVARIANTS
    DetailsNeverAhead
PROPERTIES
    JobsSettle
    EndsAreFinal
    PollerLearnsEnd
CHECK_DEADLOCK FALSE
