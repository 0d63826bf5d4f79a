SPECIFICATION Spec
CONSTANTS
    States = {s1, s2}
    Markers = {m1, m2}
    Purposes = {login, connect}
    TTLs = {1, 2}
    Callers = {c1, c2}
    MaxEntries = 1
    MaxTime = 2
    NoTicket = NoTicket
    NoPurpose = NoPurpose
    NoKey = NoKey
SYMMETRY Symmetry
INVARIANTS
    TypeOK
    CapacityBound
PROPERTIES
    TokensRefined
