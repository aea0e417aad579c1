CONSTANTS
    Keys = {k1, k2}
    FailureThreshold = 3
    SuccessThreshold = 2
    Timeout = 2
    U32 = 5
SPECIFICATION FairSpec
INVARIANTS TypeOK ThresholdsDecide
PROPERTIES ImplementsPromise OpenIsProbed
