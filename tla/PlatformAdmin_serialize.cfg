SPECIFICATION FairSpec
CONSTANTS
    Users = {1, 2, 3}
    Procs = {p1, p2}
    Kinds = {"grant", "revoke", "erase"}
    Serialized = {"revoke", "erase"}
    LockKey <- OneKey
    Pool = 3
PROPERTIES
    FloorRefined
    CallsReturn
