CONSTANTS
    alice = alice
    bob = bob
    acme = acme
    globex = globex
    Org = {acme}
    User = {alice, bob}
    Project = {p1}
    Task = {t1, t2}
    Req = {r1, r2}
    Roles <- Colleagues
    Nobody = Nobody
    NoOrg = NoOrg
    NoProject = NoProject
SPECIFICATION Spec
SYMMETRY Symmetry
PROPERTY TasksBornInLiveProjects
