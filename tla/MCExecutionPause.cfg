SPECIFICATION Spec

CONSTANTS
    n1 = n1
    n2 = n2
    NoExec = NoExec
    NoNode = NoNode
    Execs = {e1}
    Nodes = {n1}
    Deps <- OneNode
    Clients = {c1, c2}
    Ops = {"run", "cancel", "pause"}
    Faults = {}
    QueueCap = 6
    MaxConcurrent = 2
    MaxCalls = 3
    MaxCrashes = 0

SYMMETRY Symmetry

INVARIANTS
    NothingLeftRunning

CHECK_DEADLOCK FALSE
