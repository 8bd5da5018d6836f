\* One session at a time; requests fail, processes are killed, nginx refuses.
SPECIFICATION Spec
CONSTANTS
    Requests = {r1}
    Commands = {c1}
    Domains = {1, 2}
    MaxCert = 3
    MaxHost = 2
    MaxRow = 2
    Sources = {"A"}
    Ops = {"provision", "install", "create", "delete"}
    Faults = {"npm", "crash"}
    Overlap = FALSE
    None = None
    Same = Same
INVARIANTS TypeOK Converged RowsNameOwnProxy
PROPERTIES RotationKeepsServing
