SPECIFICATION Spec
CONSTANTS
    i1 = i1
    i2 = i2
    Instances = {i1, i2}
    KindOf <- TwoKinds
    Calendars = {k1, k2}
    Handlers = {h1, h2}
    Readers = {}
    StartSequences = {1}
    EndSequences = {0, 1}
    PastEnd = FALSE
    MaxEntries = 2
    MaxSubmissions = 3
INVARIANTS
    RootCoversRange
    RowIsPublished
    ReturnedRootStored
PROPERTY
    ImplementsAnchors
SYMMETRY Symmetry
