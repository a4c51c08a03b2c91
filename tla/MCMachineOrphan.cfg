SPECIFICATION Spec
CONSTANTS
    Uuids = {u1, u2}
    None = None
    FaultKinds = {"lost"}
    MaxFaults = 1
    HookChoices = {FALSE}
    StaleReads = FALSE
INVARIANT NoOrphan
CHECK_DEADLOCK FALSE
