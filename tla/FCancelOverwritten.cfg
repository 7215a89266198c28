SPECIFICATION Spec

CONSTANTS
    n1 = n1
    n2 = n2
    NoExec = NoExec
    NoNode = NoNode
    Execs = {e1}
    Nodes = {n1}
    Deps <- OneNode
    Clients = {c1, c2}
    Ops = {"run", "cancel"}
    Faults = {}
    QueueCap = 6
    MaxConcurrent = 2
    MaxCalls = 2
    MaxCrashes = 0

PROPERTIES
    CancelledIsRespected

CHECK_DEADLOCK FALSE
