SPECIFICATION Spec
CONSTANTS
    Token = {t1}
    ResetToken = {a}
    Request = {r1, r2}
    MaxPassword = 3
    None = None
INVARIANT ResetTokenOnce
