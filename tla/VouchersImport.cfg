SPECIFICATION Spec
CONSTANTS
    None = None
    i1 = i1
    o1 = o1
    o3 = o3
    EmptyBody = empty
    Imports = {i1, i2}
    Gets = {}
    Lists = {}
    Devices = {d1, d2}
    ErrorBodies = {empty, notFound}
    Orgs = {o1, o2}
    BodySize <- UnequalBodies
    OrgSize <- UnequalOrgs
    MixedName <- PlainNames
    MaxCrashes = 1
INVARIANTS
    TypeOK
    ImportOrder
    HandlersAgree
    BytesStayWithTheirDevice
    SoloImportLands
    MixedOnlyAcrossSizes
    EmptyFileHasAWriter
PROPERTIES
    ImplementsEnrolment
