SPECIFICATION FairSpec
CONSTANTS
    Key = {"project", "scope"}
    Value = {"good", "bad"}
    Configs <- MCConfigs
    Transports <- MCTransports
    Req = {r1, r2}
    MaxFailures = 1
INVARIANTS ServeTypeOK PublishedIsEnforced ClosedWhenIdle
PROPERTIES ServesUntilStopped
