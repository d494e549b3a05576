SPECIFICATION Spec
CONSTANTS
    NoCert = NoCert
    NoFile = NoFile
    Empty = Empty
    Certs = {c1}
    Hubs = {h1}
    Images = {v1}
    Retries = 2
    MaxStarts = 1
INVARIANTS
    CertificateIsOptional
