\* Two processes provision or reset NPM; all images, faults and operator's actions.
SPECIFICATION FairSpec
CONSTANTS
    Runs = {r1, r2}
    Secrets = {"s1", "s2"}
    Images = {"legacy", "setup", "noauth"}
    Tries <- FewTries
    Ops = {"provision", "reset", "form", "password", "change"}
    Faults = {"crash", "lost", "refused", "restart"}
    MaxFaults = 2
    None = None
INVARIANTS TypeOK
PROPERTIES SecuredWhenReported OwnAccountStays Converges
