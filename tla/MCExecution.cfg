SPECIFICATION Spec

CONSTANTS
    n1 = n1
    n2 = n2
    NoExec = NoExec
    NoNode = NoNode
    Execs = {e1}
    Nodes = {n1}
    Deps <- OneNode
    Clients = {c1, c2}
    Ops = {"run", "cancel", "pause", "resume", "continue", "update"}
    Faults = {"lag", "silent", "crash"}
    QueueCap = 3
    MaxConcurrent = 2
    MaxCalls = 3
    MaxCrashes = 1

SYMMETRY Symmetry

INVARIANTS
    TypeOK
    RebuildableAlways
    TerminalIsStamped

PROPERTIES
    NodeRowsCloseOnce

CHECK_DEADLOCK FALSE
