SPECIFICATION Spec
CONSTANTS
    Notifiers = {n1, n2}
    Channels = {c1, c2}
    NoClaim = NoClaim
    DedupTTL = 1
    dedupPruneGrace = 2
    Ahead = n1
    Skew <- MCSkew
    MaxClock = 3
    MaxFaults = 1
    Jobs = {j1, j2}
    Keys = {k1, k2}
    MaxUpsets = 1
    Configs = {d1, d2, d3}
    Admins = {a1, a2}
    Readers = {r1, r2}
    Writers = {w1, w2}
    MaxVersion = 3
    L1 = L1
    L2 = L2
    L3 = L3
    Entries = {L1, L2, L3}
    CreatedAt <- MCCreatedAt
    Times = {0, 2}
    Holds = {h1}
    Sweepers = {s1, s2}
    BatchSize = 2
INVARIANTS
    WarnedAtMostOnce
    ReadYourWrites
PROPERTIES
    ClaimedOncePerWindow
    EveryChannelTried
    SwitchIsAtomic
    HeldRowsStay
