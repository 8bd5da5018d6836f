\* A request and a command at the same time.
SPECIFICATION Spec
CONSTANTS
    Requests = {r1}
    Commands = {c1}
    Domains = {1, 2}
    MaxCert = 1
    MaxHost = 2
    MaxRow = 2
    Sources = {"acme"}
    Ops = {"install", "create", "update", "resync"}
    Faults = {"nginx", "unverified"}
    Overlap = TRUE
    None = None
    Same = Same
INVARIANTS RowsNameOwnProxy
