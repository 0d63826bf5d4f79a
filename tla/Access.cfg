SPECIFICATION AccessSpec
CONSTANTS
    Orgs = {o1, o2}
    NoOrg = NoOrg
    Users = {u1, u2}
    NoUser = NoUser
    Keys = {k1}
    Logs = {l1}
    Channels = {c1}
    Gone = Gone
    MaxRows = 1
    MaxAdmins = 1
    AdminsApplyToAPIKeys = FALSE
    KeyBindsOrganization = TRUE
    Logins = {p1, p2}
    NoLogin = NoLogin
    Subs = {s1, s2}
    NoSub = NoSub
    Emails = {e1, e2}
    NoEmail = NoEmail
    Accounts = {u1, u2}
    NoAccount = NoAccount
    MaxEdits = 1
    Rotators = {g1, g2}
    MaxSecret = 3
    Replicas = {A, B}
    Offset <- MCOffset
    Verifier = A
    MaxNow = 7
    MaxPause = 1
    Expiry = 2
    revocationRetentionGrace = 3
    revocationPruneInterval = 2
SYMMETRY AccessSymmetry
INVARIANTS
    NoStrayAccess
    CallbackMatchesLogin
    RotationKeepsTokens
    RevokedStaysOut
PROPERTIES
    DeletesDoNotRehome
    OneSubjectPerAccount
CHECK_DEADLOCK FALSE
