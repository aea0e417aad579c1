CONSTANTS
    p1 = p1
    p2 = p2
    p3 = p3
    p4 = p4
    p5 = p5
    Threads = {t1, t2}
    Prompts <- FivePrompts
    MaxEntries = 2
    MaxBound = 5
    NoPrefix = NoPrefix
SPECIFICATION CacheSpec
INVARIANT GrowthBounded
SYMMETRY AnyPrefix
