SPECIFICATION Spec
CONSTANTS
    w1 = w1
    w2 = w2
    None = None
    Worker = {w1, w2}
    Event = {1, 2}
    BatchSize = 2
    LockDuration = 2
    BaseBackoff = 1
    MaxBackoff = 1
    MaxRetries = 1
    RetryCap = 0
SYMMETRY Symmetry
INVARIANTS
    PublishedWasDelivered
    ExclusiveUntilOverrun
    OnceWithoutFault
PROPERTIES
    PublishedIsFinal
    ImplementsDelivery
