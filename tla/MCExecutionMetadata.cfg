SPECIFICATION MetadataSpec

CONSTANTS
    e1 = e1
    e2 = e2
    o1 = o1
    o2 = o2
    runner = runner
    handler = handler
    Nobody = Nobody
    NoExec = NoExec
    Execs = {e1, e2}
    Outputs = {o1, o2}
    Callers <- BridgeRunnerHandler

SYMMETRY Symmetry

INVARIANTS
    MetadataTypeOK
    CacheIsDb

PROPERTIES
    OutputsNeverLost
    CallsAreAtomic
