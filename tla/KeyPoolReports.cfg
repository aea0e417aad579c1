CONSTANTS
    k1 = k1  k2 = k2  e1 = e1  e2 = e2  r1 = r1  r2 = r2  m1 = m1  m2 = m2
    NoModel = NoModel  NoKey = NoKey
    Requests = {r1}
    Keys = {k1}
    CreatedAt <- K1First
    Endpoints = {e1}
    EndpointOf <- AtE1
    Model <- R1AsksM1
    Offers <- K1Offers
    MaxFailures <- LimitTwo
    HasFallback = FALSE
    Reports = {t1, t2}
    Outcomes = {"ok", "client", "401"}
    FailureBound = 3
    CounterMod = 1
    FailureThreshold = 2
    SuccessThreshold = 2
    Timeout = 1
    U32 = 3
SPECIFICATION FairSpec
INVARIANTS TypeOK FailuresCounted BadKeysRetired
PROPERTIES UsesBreaker UnauthorizedLeaves
