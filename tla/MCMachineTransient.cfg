SPECIFICATION Spec
CONSTANTS
    Uuids = {u1, u2}
    None = None
    FaultKinds = {"api"}
    MaxFaults = 1
    HookChoices = {FALSE}
    StaleReads = FALSE
INVARIANT FailedMeansInvalid
CHECK_DEADLOCK FALSE
