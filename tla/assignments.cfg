CONSTANTS
    alice = alice
    bob = bob
    Org = {acme}
    User = {alice, bob}
    Project = {p1}
    Task = {t1}
    Req = {r1, r2}
    Roles <- Strangers
    Nobody = Nobody
    NoOrg = NoOrg
    NoProject = NoProject
    Row = {o1}
    Attempts = 1
    WindowLength = 1
    LastSecond = 0
    Concurrency = 1
    MaxStalls = 0
    MaxStops = 0
    MaxOutages = 0
    NoRow = NoRow
SPECIFICATION Spec
SYMMETRY Symmetry
INVARIANTS
    AssignmentsHaveRows
PROPERTIES
    DeletedTasksStayQuiet
    LeaversGetNoMail
CHECK_DEADLOCK FALSE
