SPECIFICATION Spec
CONSTANTS
    Users = {1, 2, 3}
    Procs = {p1, p2, p3}
    Kinds = {"grant", "revoke"}
    Serialized = {}
    LockKey <- OneKey
    Pool = 4
SYMMETRY ProcSymmetry
INVARIANTS
    TypeOK
    FloorNeverZero
    RevokedRowIsThere
PROPERTIES
    LastVerdictIsTrue
