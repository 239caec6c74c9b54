CONSTANTS
    User = {u1}
    Token = {t1, t2, t3}
    Req = {r1, r2}
    NoUser = NoUser
    NoToken = NoToken
SPECIFICATION Spec
SYMMETRY Symmetry
INVARIANTS
    SuccessorRetiresParent
    ForkNeedsStaleRotation
    WipeSurvivorsRaced
    SerialRotation
    SerialReuse
    SerialLogoutAll
PROPERTIES
    KeepsSessions
    OnlyOwnersRevoke
