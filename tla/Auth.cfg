SPECIFICATION Spec
CONSTANTS
    Requests = {r1}
    Orgs = {o1, rootOrg}
    Names = {u1, rootUser}
    RootOrg = rootOrg
    RootName = rootUser
    NoOrg = NoOrg
    Passwords = {k1, k2}
    Certs = {c1}
    Public = public
    NoCert = NoCert
    AnyCert = AnyCert
    MaxStarts = 2
    MaxChanges = 3
SYMMETRY AuthSymmetry
INVARIANTS
    AuthTypeOK
    AdmittedWasEntitled
    EntitledIsNotDenied
    TlsFailsOnlyAfterRotation
PROPERTIES
    JudgedAtOneInstant
