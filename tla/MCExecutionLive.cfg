SPECIFICATION FairSpec

CONSTANTS
    n1 = n1
    n2 = n2
    NoExec = NoExec
    NoNode = NoNode
    Execs = {e1}
    Nodes = {n1, n2}
    Deps <- Chain
    Clients = {c1, c2}
    Ops = {"run", "cancel"}
    Faults = {}
    QueueCap = 6
    MaxConcurrent = 2
    MaxCalls = 3
    MaxCrashes = 0

INVARIANTS
    RowTellsOutcome

PROPERTIES
    NoFalseSuccess
    EverySettles

CHECK_DEADLOCK FALSE
