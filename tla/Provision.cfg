SPECIFICATION ProvSpec
CONSTANTS
    None = None
    Nobody = Nobody
    i1 = i1
    o1 = o1
    o3 = o3
    EmptyBody = empty
    Imports = {i1, i2}
    Gets = {}
    Lists = {}
    Devices = {d1}
    ErrorBodies = {empty}
    Orgs = {o1, o2}
    BodySize <- EqualBodies
    OrgSize <- UnequalOrgs
    MixedName <- PlainNames
    Posts = {p1}
    Reads = {}
    To0s = {}
    Scripts = {}
    Topics = {"svi"}
    MaxStarts = 1
    MaxCrashes = 1
    MaxHangs = 0
SYMMETRY ImportSymmetry
CONSTRAINT StartStoresAll
INVARIANTS
    ConfirmedImportOnboards
    InstalledAsRecorded
    DeviceRunsOneToken
