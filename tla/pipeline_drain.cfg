SPECIFICATION FairSpec
CONSTANTS
    Post = {s1, s2}
    MetaWorker = {m1, m2}
    ImageWorker = {i1, i2}
    None = None
    Capacity = 1
    MaxPanics = 2
INVARIANTS
    DrainLosesNothing
    AbortIsEarned
PROPERTIES
    EveryPostIsTallied
    AbortUnwinds
    DrainEnds
