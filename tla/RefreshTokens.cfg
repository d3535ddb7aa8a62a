SPECIFICATION Spec
CONSTANTS
    t1 = t1
    t2 = t2
    t3 = t3
    t4 = t4
    f1 = f1
    f2 = f2
    r1 = r1
    r2 = r2
    Tokens = {t1, t2, t3, t4}
    Families = {f1, f2}
    Requests = {r1, r2}
    None = None
    FamilyTTL = 3
    AccessTTL = 2
    MaxTime = 4
SYMMETRY Symmetry
CHECK_DEADLOCK FALSE
INVARIANT OneLiveToken
INVARIANT RevokedStaysDead
INVARIANT RevokedUntilExpiry
PROPERTY AllRevokedUnlessLapsed
