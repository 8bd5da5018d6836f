\* One command at a time, with failures, crashes, restarts and a moved NPM.
SPECIFICATION FairSpec
CONSTANTS
    Bridges = {"b1", "b2"}
    Ops = {"provision", "update", "setup", "uninstall", "recreate"}
    Faults = {"fails", "silent", "crash", "reboot"}
    MaxFaults = 2
    None = None
INVARIANTS TypeOK SshStaysOpen RemovalReports
PROPERTIES SuccessMeansReachable Converges
CHECK_DEADLOCK FALSE
