SPECIFICATION FairSpec
CONSTANTS
    Ledgers = {l1, l2}
    Clients = {c1, c2}
    EventTypes = {e1}
    Values = {v1}
    NoClient = NoClient
    NoRequest = NoRequest
    MaxCalls = 3
INVARIANTS
    TypeOK
    ChainIntact
    NoCollision
    TransactionsIsolated
    ToldIsCommitted
PROPERTIES
    AppendOnly
    ImplementsLedger
    CallsReturn
