SPECIFICATION FairSpec
CONSTANTS
    Token = {t1, t2}
    ResetToken = {a, b}
    Request = {r1, r2}
    MaxPassword = 3
    None = None
INVARIANTS
    SurvivorsOverlapped
    SpentMeansReset
PROPERTIES
    EveryRequestEnds
