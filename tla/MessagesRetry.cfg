CONSTANTS
    e1 = e1  e2 = e2  e3 = e3  e4 = e4  mapped = mapped
    Endpoints = {e1, e2, e3, e4}
    Fallback = Fallback
    Requested = Requested
    MaxRetries <- MaxRetriesOf
    MapsTo <- MapsToOf
    Strips = {e1}
    BadProxy = {e4}
    NoMapping = NoMapping
    DefaultAttempts = 5
SPECIFICATION FairSpec
INVARIANTS TypeOK AttemptsBounded EveryAnswerReported ErrorsOnlyWhenExhausted LoggedOnce
PROPERTIES HintIsFresh Terminates
