SPECIFICATION Spec
CONSTANTS
    i1 = i1
    i2 = i2
    Instances = {i1}
    KindOf <- OneKind
    Calendars = {k1, k2}
    Handlers = {h1}
    Readers = {r1}
    StartSequences = {0, 2}
    EndSequences = {0, 2}
    PastEnd = TRUE
    MaxEntries = 4
    MaxSubmissions = 3
INVARIANT ProofAnswers
