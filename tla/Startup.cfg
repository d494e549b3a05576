SPECIFICATION FairSpec
CONSTANTS
    NoCert = NoCert
    NoFile = NoFile
    Empty = Empty
    Certs = {c1, c2}
    Hubs = {h1, h2}
    Images = {v1, v2}
    Retries = 2
    MaxStarts = 3
INVARIANTS
    StartupTypeOK
    FilesAreOfThisStart
    NamedCertificateExists
    StoredIsTheFile
    DevicesGetThisStart
PROPERTIES
    StartIsASequence
    StartEnds
    StartMovesOn
