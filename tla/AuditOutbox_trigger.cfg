SPECIFICATION Spec
CONSTANTS
    s1 = s1
    s2 = s2
    Txns = {t1, t2}
    Subjects = {s1, s2}
    Mutations <- TriggerMutations
    Events = {1, 2, 3}
    About <- TriggerAbout
    Guarded = {"UPDATE", "DELETE"}
    Poisoned = {}
    Relays = {r1}
    BatchSize = 2
    MaxBatches = 1
    MaxFaults = 1
INVARIANTS
    TypeOK
    NoUnauditedMutation
    NoPhantomRecord
PROPERTY
    TrailRefined
SYMMETRY TxnSymmetry
