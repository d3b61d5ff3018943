SPECIFICATION Spec
CONSTANTS
    Ledger = ledger
    EventTypes = {e1, e2}
    Values = {v1, v2}
    NoRoot = NoRoot
    MaxEntries = 3
    MaxFaults = 3
INVARIANTS
    NoFalseAlarm
    
    RootPinsEntries
SYMMETRY Symmetry
CHECK_DEADLOCK FALSE
