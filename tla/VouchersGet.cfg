SPECIFICATION Spec
CONSTANTS
    None = None
    i1 = i1
    o1 = o1
    o3 = o3
    EmptyBody = empty
    Imports = {i1, i2}
    Gets = {g1}
    Lists = {}
    Devices = {d1}
    ErrorBodies = {empty}
    Orgs = {o1, o2, o3}
    BodySize <- EqualBodies
    OrgSize <- UnequalOrgs
    MixedName <- MixingNames
    MaxCrashes = 0
SYMMETRY ImportSymmetry
INVARIANTS
    GetReturnsTheImport
    ReadersStayInTheirOrg
