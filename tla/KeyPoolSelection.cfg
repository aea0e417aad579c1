CONSTANTS
    k1 = k1  k2 = k2  e1 = e1  e2 = e2  r1 = r1  r2 = r2  m1 = m1  m2 = m2
    NoModel = NoModel  NoKey = NoKey
    Requests = {r1, r2}
    Keys = {k1, k2}
    CreatedAt <- K1BeforeK2
    Endpoints = {e1, e2}
    EndpointOf <- AtE1AndE2
    Model <- R2AsksNone
    Offers <- K1OffersK2Other
    MaxFailures <- NoLimit
    HasFallback = TRUE
    Reports = {t1}
    Outcomes = {"ok", "network"}
    FailureBound = 1
    CounterMod = 2
    FailureThreshold = 1
    SuccessThreshold = 1
    Timeout = 1
    U32 = 2
SPECIFICATION Spec
INVARIANTS SentKeyServesModel
