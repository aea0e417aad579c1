CONSTANTS
    k1 = k1  k2 = k2  e1 = e1  e2 = e2  r1 = r1  r2 = r2  m1 = m1  m2 = m2
    NoModel = NoModel  NoKey = NoKey
    Requests = {r1, r2}
    Keys = {k1}
    CreatedAt <- K1First
    Endpoints = {e1}
    EndpointOf <- AtE1
    Model <- BothAskM1
    Offers <- K1Offers
    MaxFailures <- K1NoLimit
    HasFallback = FALSE
    Reports = {t1}
    Outcomes = {"ok", "network"}
    FailureBound = 3
    CounterMod = 1
    FailureThreshold = 3
    SuccessThreshold = 2
    Timeout = 1
    U32 = 4
SPECIFICATION Spec
INVARIANTS AllFusedStillServed
