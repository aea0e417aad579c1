CONSTANTS
    t0 = t0
    t1 = t1
    Tools = {t0, t1}
    Deltas <- MixedDeltas
    MaxChunks = 4
    Capacity = 1
    NoBlock = NoBlock
SPECIFICATION FairSpec
INVARIANTS TypeOK FragmentsKept StartsInOrder UsageRecorded
PROPERTIES ImplementsMessage StreamRecorded AnswerEnds
CHECK_DEADLOCK FALSE
