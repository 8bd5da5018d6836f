\* One command at a time, every operation and every fault.
SPECIFICATION Spec
CONSTANTS
    Requests = {}
    Commands = {c1}
    Ids = {1, 2}
    Addresses = {a1, a2}
    Keys = {k1, k2}
    Ops = {"create", "toggle", "rotate", "edit", "remove", "sync", "push"}
    Faults = {"apply", "crash", "reboot"}
    None = None
    Down = Down
    Blank = Blank
    Torn = Torn
PROPERTIES CommitPublishes
