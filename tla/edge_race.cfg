\* A host is pushed while a certificate is replaced.
SPECIFICATION Spec
CONSTANTS
    Requests = {}
    Commands = {c1, c2}
    Domains = {1}
    MaxCert = 2
    MaxHost = 1
    MaxRow = 2
    Sources = {"A"}
    Ops = {"install", "create"}
    Faults = {}
    Overlap = TRUE
    None = None
    Same = Same
PROPERTIES RotationKeepsServing
