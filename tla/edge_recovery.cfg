\* NPM loses its data; a certificate is installed again and the hosts are resynced.
SPECIFICATION Spec
CONSTANTS
    Requests = {}
    Commands = {c1}
    Domains = {1, 2}
    MaxCert = 2
    MaxHost = 2
    MaxRow = 2
    Sources = {"issued"}
    Ops = {"install", "create", "delete", "resync"}
    Faults = {"npm", "crash", "nginx", "reset"}
    Overlap = FALSE
    None = None
    Same = Same
INVARIANTS ResyncRepublishes
