CONSTANTS
    t0 = t0
    t1 = t1
    Tools = {t0, t1}
    Deltas <- PlainDeltas
    MaxChunks = 2
    Capacity = 1
    NoBlock = NoBlock
SPECIFICATION ProxyFairSpec
PROPERTY DeadlineEndsStream
CHECK_DEADLOCK FALSE
