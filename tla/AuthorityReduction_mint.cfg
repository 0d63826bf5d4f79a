SPECIFICATION Spec
CONSTANTS
    o1 = o1
    o2 = o2
    k1 = k1
    k2 = k2
    k3 = k3
    viewer = viewer
    editor = editor
    NoTemplate = NoTemplate
    NoMember = NoMember
    Pairs <- ModulePairs
    Orgs = {o1, o2}
    Templates = {viewer, editor}
    Grants <- TemplateGrants
    KeyScopes <- FrozenScopes
    Keys = {k1, k2, k3}
    KeyOrg <- KeyHome
    Service = {k3}
    Reducers = {r1}
    Writers = {w1}
INVARIANTS
    NoStrandedKey
