\* One command at a time beside the panel and the operator; two hosts.
SPECIFICATION FairSpec
CONSTANTS
    Hosts = {"host", "panel"}
    PanelHost = "panel"
    Unproxiable = {"panel"}
    MaxRounds = 1
    Ops = {"provision", "mode", "verify", "resync", "token", "push", "form", "reload", "hand"}
    Faults = {"refused", "lost", "split", "unseen", "crash"}
    MaxFaults = 2
INVARIANTS TypeOK OkMeansTrusted
PROPERTIES SuccessMeansAgreement Converges
