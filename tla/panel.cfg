\* Two requests and a command, every form and fault, and a value that does not load.
SPECIFICATION Spec
CONSTANTS
    Requests = {r1, r2}
    Commands = {c1}
    Inputs = {"new", "zero"}
    Ops = {"form", "wireguard", "cloudflare", "command"}
    Faults = {"refused", "sync", "crash"}
    MaxFaults = 1
    MaxBegun = 5
    None = None
    Blank = Blank
    Torn = Torn
    Mixtures <- OneMixture
SYMMETRY RequestSymmetry
INVARIANTS TypeOK NeverTruncated PanelInStep
CHECK_DEADLOCK FALSE
