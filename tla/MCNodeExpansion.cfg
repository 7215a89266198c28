SPECIFICATION ExpansionSpec

CONSTANTS
    a = a
    b = b
    pa = pa
    pb = pb
    i1 = i1
    i2 = i2
    t = t
    r1 = r1
    r2 = r2
    k1 = k1
    k2 = k2
    None = None
    Keep = Keep
    Gone = Gone
    Names = {1, 2}
    Configs = {k1, k2}
    MaxId = 2
    Requests = {r1, r2}
    MaxCalls = 4
    SeedName = 1
    SeedConfig = k1
    Nodes = {a, b}
    Images = {i1, i2}
    Tag <- SameTag
    Workflows <- EveryWay

SYMMETRY Symmetry

INVARIANTS
    ExpansionTypeOK
    NoForeignImage
    

PROPERTIES
    OnlyStaleReadsLoseDefault
    SharedEntriesAreAdditive

CHECK_DEADLOCK FALSE
