SPECIFICATION FairSpec
CONSTANTS
    Address = {a1}
    Max = 2
    WindowSeconds = 2
    MaxHits = 3
    LastSecond = 2
    MaxStarts = 1
    MaxChanges = 2
INVARIANTS
    MinuteBound
    RefusalsAreEarned
    HealthIsHonest
PROPERTIES
    ShutdownEnds
    HealthRequestsEnd
CHECK_DEADLOCK FALSE
