SPECIFICATION Spec
CONSTANTS
    None = None
    i1 = i1
    o1 = o1
    o3 = o3
    EmptyBody = empty
    Imports = {i1, i2}
    Gets = {g1}
    Lists = {}
    Devices = {d1}
    ErrorBodies = {empty}
    Orgs = {o1, o2}
    BodySize <- EqualBodies
    OrgSize <- UnequalOrgs
    MixedName <- PlainNames
    MaxCrashes = 0
INVARIANTS
    VoucherIsInClientsOrg
