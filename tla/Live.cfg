SPECIFICATION ProvFairSpec
CONSTANTS
    None = None
    Nobody = Nobody
    i1 = i1
    o1 = o1
    o3 = o3
    EmptyBody = empty
    Imports = {i1}
    Gets = {}
    Lists = {l1}
    Devices = {d1}
    ErrorBodies = {empty}
    Orgs = {o1}
    BodySize <- EqualBodies
    OrgSize <- EqualOrgs
    MixedName <- PlainNames
    Posts = {}
    Reads = {}
    To0s = {t1}
    Scripts = {}
    Topics = {"version"}
    MaxStarts = 1
    MaxCrashes = 1
    MaxHangs = 2
CONSTRAINT StartStoresAll
PROPERTIES
    EveryRequestEnds
