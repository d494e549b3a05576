SPECIFICATION Spec
CONSTANTS
    None = None
    i1 = i1
    o1 = o1
    o3 = o3
    EmptyBody = empty
    Imports = {i1, i2}
    Gets = {}
    Lists = {l1}
    Devices = {d1, d2}
    ErrorBodies = {empty}
    Orgs = {o1, o2}
    BodySize <- EqualBodies
    OrgSize <- EqualOrgs
    MixedName <- PlainNames
    MaxCrashes = 0
SYMMETRY FullSymmetry
INVARIANTS
    ListIsExact
PROPERTIES
    HandlersMoveOn
