\* A request and a command, that create and remove peers, and syncs.
SPECIFICATION Spec
CONSTANTS
    Requests = {r1}
    Commands = {c1}
    Ids = {1, 2}
    Addresses = {a1, a2}
    Keys = {k1, k2}
    Ops = {"create", "remove", "sync"}
    Faults = {"crash"}
    None = None
    Down = Down
    Blank = Blank
    Torn = Torn
SYMMETRY DataSymmetry
INVARIANTS TypeOK UniquePeers AloneRepairs
