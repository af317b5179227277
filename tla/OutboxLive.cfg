SPECIFICATION FairSpec
CONSTANTS
    w1 = w1
    w2 = w2
    None = None
    Worker = {w1, w2}
    Event = {1}
    BatchSize = 2
    LockDuration = 2
    BaseBackoff = 1
    MaxBackoff = 2
    MaxRetries = 1
    RetryCap = 2
PROPERTY EventuallyPublished
