SPECIFICATION FairSpec
CONSTANTS
    a1 = a1
    a2 = a2
    a3 = a3
    a4 = a4
    Empty = Empty
    Anchors = {a1, a2, a3, a4}
    KindOf <- EveryKind
    Registered <- NamedByKind
    Calendars = {k1, k2}
    DeadCalendars = {k2}
    Pollers = {p1, p2}
INVARIANTS
    TypeOK
    NotAheadOfCalendars
PROPERTIES
    ForwardOnly
    
