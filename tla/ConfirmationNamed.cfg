SPECIFICATION FairSpec
CONSTANTS
    a1 = a1
    a2 = a2
    a3 = a3
    a4 = a4
    Empty = Empty
    Anchors = {a1}
    KindOf <- OneRow
    Registered <- NamedMyOts
    Calendars = {k1, k2}
    DeadCalendars = {}
    Pollers = {p1, p2}
PROPERTY ConfirmationArrives
CHECK_DEADLOCK FALSE
