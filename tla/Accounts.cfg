SPECIFICATION FairSpec
CONSTANTS
    Link = {l1, l2, l3}
    Request = {r1, r2}
    MaxFaults = 2
    None = None
INVARIANTS
    OneSignup
    WorkingLinkRemains
PROPERTIES
    EventuallyActive
