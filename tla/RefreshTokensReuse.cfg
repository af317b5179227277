SPECIFICATION RotatedOnceSpec
CONSTANTS
    t1 = t1
    t2 = t2
    t3 = t3
    t4 = t4
    r1 = r1
    r2 = r2
    r3 = r3
    u1 = u1
    n1 = n1
    n2 = n2
    None = None
    User = {u1}
    TenantOf <- MCTenantOf
    Token = {t1, t2, t3}
    Request = {r1, r2}
    Tenant = {n1}
    MaxExpired = 0
CONSTRAINT Bounds
SYMMETRY SymmetryRest
INVARIANT ReuseEndsSession
