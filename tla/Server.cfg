SPECIFICATION ServerSpec
CONSTANTS
    Request = {r1}
    Tenant = {t1}
    None = None
    MaxTries = 2
\* the process ends
CHECK_DEADLOCK FALSE
INVARIANTS
    SuccessIsReal
    DependenciesOutliveRequests
    CutOffOnlyAfterGrace
    AnsweredAndObserved
PROPERTIES
    SignalEnds
