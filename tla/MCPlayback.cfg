SPECIFICATION PlaybackSpec
CONSTANTS
    None = None
    MaxActs = 2
    MaxUpsets = 1
    Pipelines = {1, 2}
    Owners <- MCOwners
    MaxRuns = 4
    Home = 1
    Linked = {1, 2}
    HistoryPage = 1
    Logged <- MCLogged
    LogPage = 2
    Latests = {1, 2}
    MaxLooks = 4
    Drawn <- MCDrawn
    MaxRedraws = 2
INVARIANTS
    PlaybackTypeOK
    
PROPERTIES
    ComesToRest
CHECK_DEADLOCK FALSE
