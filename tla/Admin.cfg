SPECIFICATION ProvSpec
CONSTANTS
    None = None
    Nobody = Nobody
    i1 = i1
    o1 = o1
    o3 = o3
    EmptyBody = empty
    Imports = {i1}
    Gets = {}
    Lists = {}
    Devices = {d1}
    ErrorBodies = {empty}
    Orgs = {o1}
    BodySize <- EqualBodies
    OrgSize <- EqualOrgs
    MixedName <- PlainNames
    Posts = {p1}
    Reads = {c1}
    To0s = {}
    Scripts = {}
    Topics = {"svi", "cfg", "redirect", "certificate", "version"}
    MaxStarts = 2
    MaxCrashes = 1
    MaxHangs = 0
CONSTRAINT StartStoresAll
INVARIANTS
    ProvTypeOK
    ConfirmedImportOnboards
    InstalledAsRecorded
    ReadYourPosts
PROPERTIES
    VouchersImplemented
    StartIsUndisturbed
