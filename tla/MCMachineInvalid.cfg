SPECIFICATION FairSpec
CONSTANTS
    Uuids = {u1, u2}
    None = None
    FaultKinds = {}
    MaxFaults = 0
    HookChoices = {FALSE}
    StaleReads = FALSE
PROPERTY InvalidDeleted
CHECK_DEADLOCK FALSE
