SPECIFICATION Spec

CONSTANTS
    Values = {0, 1}
    Tasks = {t1, t2}
    NoItem = NoItem
    MaxEdits = 2
    MaxForeign = 1
    MaxFaults = 1

INVARIANTS
    TypeOK
    
    RunUsesWhatIsShown

PROPERTIES
    OnlyTheUnknownGivesWay
    SettlesDown

CHECK_DEADLOCK FALSE
