SPECIFICATION Spec

CONSTANTS
    NoExec = NoExec
    Execs = {e1, e2}
    Past = {e2}
    Slots = {s1, s2}
    MaxLines = 1
    StreamCap = 2
    MaxAsks = 2
    MaxLosses = 0
    Ops = {"pause", "resume", "cancel", "update"}
    Faults = {}

SYMMETRY Symmetry

INVARIANTS
    TypeOK
    ShownIsSelected
    ViewCatchesUp

CHECK_DEADLOCK FALSE
