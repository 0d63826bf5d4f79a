SPECIFICATION Spec
CONSTANTS
    k1 = k1
    k2 = k2
    editor = editor
    owner = owner
    NoTemplate = NoTemplate
    NoMember = NoMember
    NoKey = NoKey
    Pairs <- ModulePairs
    Principals = {1, 2}
    Templates = {editor}
    System = {}
    Grants <- EditorGrants
    ScopeSets <- AllOrNothing
    Keys = {k2}
    Owner <- SecondOwner
    Writers = {w1, w2}
    Reducers = {p1}
    Handlers = {h1}
    BatchSize = 1
    MaxBatches = 2
SYMMETRY WriterSymmetry
CONSTRAINT PagesOrWriters
INVARIANTS
    OnlyLateKeysStranded
    LockedRowsStay
