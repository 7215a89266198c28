SPECIFICATION Spec

CONSTANTS
    n = n
    p = p
    q = q
    o = o
    f1 = f1
    f2 = f2
    c1 = c1
    c2 = c2
    w = w
    NoPackage = NoPackage
    Gone = Gone
    Bare = Bare
    Names = {n}
    Versions <- ThreeVersions
    Files = {f1, f2}
    Packages = {p, q, o}
    RefOf <- Declared
    Workflows = {w}
    Saves <- SomeSaves
    Clients = {c1, c2}
    Ops = {"import", "overwrite", "create", "update", "delete"}
    MaxId = 2
    MaxCalls = 3
    MaxSaves = 1
    MaxCrashes = 1

SYMMETRY Symmetry

INVARIANTS
    TypeOK
    LatestIsNewest

PROPERTIES
    
    ReferencedNodesStay
    

CHECK_DEADLOCK FALSE
