SPECIFICATION ClientSpec
CONSTANTS
    None = None
    MaxActs = 2
    MaxUpsets = 1
    Updates = {1, 2}
    ConfigLoads = {1, 2}
    Workflows = {1, 2, 3}
    Created <- MCCreated
    Sought = {1, 3}
    Runs = {1}
    Removals = {1, 2}
    PageSize = 1
    a1 = a1
    a2 = a2
    b1 = b1
    Packages <- MCPackages
    NameOf <- MCNameOf
    Newer <- MCNewer
    InUse = {b1}
    First <- MCFirst
    MaxNodes = 4
    Fetches = {1, 2}
    NodePage = 1
    MaxExecutors = 3
    Configs = {0, 1}
    Plain = 0
    Reloads = {1, 2}
    StateIds = {"a", "b", "c"}
    MaxArrows = 3
INVARIANTS
    ClientTypeOK
    
    
    
    NothingIsStuck
PROPERTIES
    ListsFollowTheirOwner
CHECK_DEADLOCK FALSE
