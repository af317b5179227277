SPECIFICATION Spec
CONSTANTS
    Token = {t1, t2, t3}
    Request = {r1, r2}
    AccessTTL = 2
    None = None
INVARIANTS
    AccessOutlivesBriefly
PROPERTIES
    AccessEnds
