SPECIFICATION FairSpec
CONSTANTS
    Call = {a, b}
    None = None
    MaxSeq = 3
INVARIANTS
    OneResultEach
    NobodyStranded
PROPERTIES
    ImplementsPublishing
    EveryPublishReturns
    CloseReturns
\* every call and Close happen once
CHECK_DEADLOCK FALSE
