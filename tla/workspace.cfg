CONSTANTS
    alice = alice
    bob = bob
    acme = acme
    globex = globex
    Org = {acme, globex}
    User = {alice, bob}
    Project = {p1}
    Task = {t1}
    Req = {r1, r2}
    Roles <- Tenants
    Nobody = Nobody
    NoOrg = NoOrg
    NoProject = NoProject
SPECIFICATION Spec
SYMMETRY Symmetry
INVARIANTS
    TenantWrites
PROPERTIES
    LeaversStayOut
    ClosedProjectStaysClosed
    ClosedTaskStaysClosed
    AuthorityEnds
