\* An update and a removal at once, logins, failures and crashes.
SPECIFICATION Spec
CONSTANTS
    Kinds = {"update", "uninstall"}
    Attempts = 2
    Limit = 2
    Lockout = 2
    Faults = {"fetch", "pip", "run", "systemctl", "crash"}
    MaxFaults = 2
    MaxRuns = 3
    None = None
    Half = Half
INVARIANTS TypeOK ExitIsTheLastRuns AttemptsBounded UpdateRunsWhatItFetched
