SPECIFICATION Spec
CONSTANTS
    None = None
    i1 = i1
    o1 = o1
    o3 = o3
    EmptyBody = empty
    Imports = {i1}
    Gets = {}
    Lists = {}
    Devices = {d1}
    ErrorBodies = {empty, notFound}
    Orgs = {o1}
    BodySize <- UnequalBodies
    OrgSize <- UnequalOrgs
    MixedName <- PlainNames
    MaxCrashes = 0
INVARIANTS
    SuccessReturnsGuid
