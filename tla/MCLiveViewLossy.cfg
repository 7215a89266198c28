SPECIFICATION Spec

CONSTANTS
    NoExec = NoExec
    Execs = {e1, e2}
    Past = {e2}
    Slots = {s1, s2}
    MaxLines = 1
    StreamCap = 2
    MaxAsks = 1
    MaxLosses = 1
    Ops = {"continue", "pause", "resume", "cancel", "update"}
    Faults = {"full", "break"}

SYMMETRY Symmetry

INVARIANTS
    ViewCatchesUp

CHECK_DEADLOCK FALSE
