CONSTANTS
    Threads = {r1}
    Prompts = {p1, p2, p3}
    MaxEntries = 2
    MaxBound = 3
    NoPrefix = NoPrefix
    v1 = v1
    v2 = v2
    Values = {v1, v2}
    NoToken = NoToken
    Absent = Absent
    Bodies <- Asked
    Targets = {"o3"}
    Overflows <- Complaints
    Configs <- Deployments
SPECIFICATION Spec
INVARIANTS TypeOK EffortKept OneLimit
PROPERTIES OldestGoesFirst AuthJustified
