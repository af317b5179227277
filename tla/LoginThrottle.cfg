SPECIFICATION FairSpec
CONSTANTS
    None = None
    NoEmail = NoEmail
    Ip = {i1}
    Email = {e1, e2}
    Registered = {e1}
    Request = {r1, r2}
    SoftLimit = 2
    HardLimit = 3
    NotifyAt = 2
    ShortBlock = 2
    LongBlock = 4
    Ttl = 4
INVARIANTS
    BlockLasts
    FewSneakPast
PROPERTIES
    FailuresSpaced
    LockoutEnds
