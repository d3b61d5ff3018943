SPECIFICATION Spec
CONSTANTS
    m1 = m1
    m2 = m2
    p1 = p1
    p2 = p2
    None = None
    LedgerModules = {m1, m2}
    ProviderModules = {p1, p2}
    NameOf <- TwoOfEach
    Configs <- EveryType
    Steps = {s1, s2}
    MaxPools = 2
SYMMETRY Symmetry
INVARIANTS
    TypeOK
    LookupsAreLive
    ReadyIsServed
    NoPoolLeaks
    
