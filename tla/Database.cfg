CONSTANTS
    e1 = e1  e2 = e2  k1 = k1  k2 = k2
    Endpoints = {e1, e2, e3}
    Keys = {k1, k2}
    Tokens = {t1, t2}
    NoEndpoint = NoEndpoint
    NoId = NoId
    OldFiles <- Files
    CrashBound = 1
    Calls = {c1, c2}
    CallBound = 2
SPECIFICATION FairSpec
INVARIANTS TypeOK MovedOnce OldKeysBound GrantsExact
PROPERTIES EndpointLeavesNoKeys HandListsStand StartsAgain
CHECK_DEADLOCK FALSE
