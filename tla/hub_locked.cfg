\* Creations, removals and host pushes of two requests and a command, with no fault.
SPECIFICATION FairSpec
CONSTANTS
    Requests = {r1, r2}
    Commands = {c1}
    Ids = {1, 2}
    Addresses = {a1, a2}
    Keys = {k1, k2}
    Ops = {"create", "remove", "push"}
    Faults = {}
    None = None
    Down = Down
    Blank = Blank
    Torn = Torn
INVARIANTS OneChangeAhead ServedUnambiguously
PROPERTIES PromiseSpec SessionsEnd
