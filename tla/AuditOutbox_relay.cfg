SPECIFICATION FairSpec
CONSTANTS
    s1 = s1
    s2 = s2
    Txns = {t1}
    Subjects = {s1}
    Mutations <- RelayMutations
    Events = {1, 2, 3, 4}
    About <- RelayAbout
    Guarded = {"INSERT"}
    Poisoned = {1, 3}
    Relays = {r1, r2}
    BatchSize = 2
    MaxBatches = 2
    MaxFaults = 1
INVARIANTS
    ExactlyOneRecord
    ShippedIsDurable
    DuplicateShipNeedsFault
PROPERTIES
    BacklogNeverDropped
    EventuallyRecorded
    StuckIsVisible
