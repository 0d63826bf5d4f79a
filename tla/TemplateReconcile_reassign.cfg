SPECIFICATION Spec
CONSTANTS
    k1 = k1
    k2 = k2
    editor = editor
    owner = owner
    NoTemplate = NoTemplate
    NoMember = NoMember
    NoKey = NoKey
    Pairs <- ModulePairs
    Principals = {1, 2}
    Templates = {editor, owner}
    System = {owner}
    Grants <- FirstGrants
    ScopeSets <- TwoScopes
    Keys = {k1, k2}
    Owner <- TwoOwners
    Writers = {w1}
    Reducers = {p1}
    Handlers = {}
    BatchSize = 1
    MaxBatches = 2
PROPERTY
    ReassignedIsSpared
