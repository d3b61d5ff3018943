SPECIFICATION SpecPrimitives
CONSTANTS
    Leaves = {a, b, c, d, e}
    MaxLeaves = 5
    Names = {1, 2}
    Numbers = {1, 4, 5}
    MaxDepth = 2
    Inputs <- Payloads
    NoDocument = NoDocument
INVARIANTS
    RootIsReference
    ProofsVerify
    OnlyMembersVerify
    RootBinds
    CanonicalIsValue
    StoredKeepsHash
CHECK_DEADLOCK FALSE
